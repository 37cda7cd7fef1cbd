---------------------------- MODULE PipelineProofs ----------------------------
(***************************************************************************)
(* Proofs about Pipeline, for all processes, requests and numbers of       *)
(* calls: the evidence under a root is backed by the logs, and what its    *)
(* readers see of it behaves as Evidence says.                             *)
(***************************************************************************)
EXTENDS Pipeline, HashChainProofs, SealProofs

-----------------------------------------------------------------------------
(* The inductive invariant *)

RunRecord == [pc : Active \union Ended, req : Request \union {None},
              prev : Seq(Event), sid : 0..MaxRuns, hit : BOOLEAN,
              filling : BOOLEAN, alone : BOOLEAN]

\* Files of lines, of which the last one may lack its newline.
LogFile == {f \in Seq(LoggedLine) : \A i \in 1..(Len(f) - 1) : f[i].eol}

Types ==
  /\ proc \in [Proc -> RunRecord]
  /\ audit \in [RunIds -> LogFile]
  /\ DOMAIN disk = Paths
  /\ runs \in 0..MaxRuns

\* What a run has logged when it is at pc: the history its head commits to.
Past(pc, req, hit) ==
  CASE pc \in {"idle", "received"} -> << >>
    [] pc = "policy" -> << <<"COMMAND_RECEIVED", req.target>>, <<"FETCH", None>> >>
    [] pc = "denied" ->
         << <<"COMMAND_RECEIVED", req.target>>, <<"FETCH", None>>,
            <<"POLICY_EVALUATED", "deny">> >>
    [] pc \in {"features", "raised"} ->
         << <<"COMMAND_RECEIVED", req.target>>, <<"FETCH", None>>,
            <<"POLICY_EVALUATED", "allow">> >>
    [] pc \in {"lookup", "cached"} ->
         << <<"COMMAND_RECEIVED", req.target>>, <<"FETCH", None>>,
            <<"POLICY_EVALUATED", "allow">>, <<"FEATURE_EXTRACT", None>> >>
    [] pc \in {"store", "emit"} ->
         << <<"COMMAND_RECEIVED", req.target>>, <<"FETCH", None>>,
            <<"POLICY_EVALUATED", "allow">>, <<"FEATURE_EXTRACT", None>>,
            <<IF hit THEN "CACHE_HIT" ELSE "CACHE_MISS", None>> >>
    [] OTHER -> SealedHistory(req, hit)

\* A run is where the decision, the config and its own steps have brought it.
RunOK(r) ==
  /\ r.pc = "idle" <=> r.req = None
  /\ r.pc # "idle" => r.sid \in 1..MaxRuns
  /\ r.prev = Past(r.pc, r.req, r.hit)
  /\ r.pc \notin {"idle", "received", "policy", "denied"} => ~r.req.denied
  /\ r.pc \in {"lookup", "cached", "store", "emit", "seals", "c2pa_stub", "reports", "done"}
       => ~ExtractRaises(r.req.values, r.req.config)
  /\ r.filling => r.pc \in DOMAIN AfterWrite

Progress == \A p \in Proc : RunOK(proc[p])

\* The head of a run that has logged anything is the hash of a line in its file.
HeadsLogged ==
  \A p \in Proc, run \in RunIds :
    proc[p].prev # << >> /\ proc[p].req.run = run => proc[p].prev \in Logged(run)

\* The text of a file is what a run with this request, cache outcome and number
\* writes there; if it is evidence, its history is in the run's log.
Authored(path, text, req, hit, sid) ==
  \/ path = CachePath(req) /\ text = CacheEntry(req)
  \/ /\ SealedHistory(req, hit) \in Logged(req.run)
     /\ \/ /\ path \in {SealPath(req), StubPath(req)}
           /\ text = SealFor(req, SealedHistory(req, hit), sid)
        \/ /\ path = ReportPath(req)
           /\ text = ReportFor(req, SealedHistory(req, hit), sid, hit)

FilesAuthored ==
  \A path \in Paths : Whole(path) =>
    \E req \in Request, hit \in BOOLEAN, sid \in 1..MaxRuns :
      /\ ~ExtractRaises(req.values, req.config)
      /\ Authored(path, disk[path], req, hit, sid)

IInv == Types /\ Progress /\ HeadsLogged /\ FilesAuthored

-----------------------------------------------------------------------------
(* Files that lines are appended to *)

AllClosed(file) == \A i \in 1..Len(file) : file[i].eol

\* The events written in full, and those that are read back.
Hashes(file) == {LastEvent(file[i]) : i \in {k \in 1..Len(file) : file[k].eol}}

ReadBack(file) == {file[i].hash : i \in {k \in 1..Len(file) : file[k].eol /\ Parses(file[k])}}

\* The histories that continue prev through bodies, one event at a time.
Extensions(prev, bodies) == {prev \o SubSeq(bodies, 1, i) : i \in 1..Len(bodies)}

\* The lines that a step writes.
Lines(prev, bodies) ==
  [i \in 1..Len(bodies) |-> EventLine(prev \o SubSeq(bodies, 1, i - 1), bodies[i])]

\* The first n elements of a sequence.
LEMMA Prefix ==
  ASSUME NEW S, NEW s \in Seq(S), NEW n \in 0..Len(s)
  PROVE  /\ SubSeq(s, 1, n) \in Seq(S)
         /\ Len(SubSeq(s, 1, n)) = n
         /\ \A i \in 1..n : SubSeq(s, 1, n)[i] = s[i]
<1>1. Len(s) \in Nat /\ n \in Nat /\ 1 \in Int /\ n \in Int
  OBVIOUS
<1>2. \A i \in 1..n : s[i] \in S
  BY <1>1
<1>3. /\ SubSeq(s, 1, n) \in Seq(S)
      /\ Len(SubSeq(s, 1, n)) = IF 1 <= n THEN n - 1 + 1 ELSE 0
      /\ \A i \in 1..(n - 1 + 1) : SubSeq(s, 1, n)[i] = s[1 + i - 1]
  BY <1>1, <1>2, SubSeqProperties
<1>4. QED BY <1>1, <1>3

\* The hash of the i-th line appended is the history up to and with its body.
LEMMA HashOfPrefix ==
  ASSUME NEW prev \in Seq(Event), NEW bodies \in Seq(Event), NEW i \in 1..Len(bodies)
  PROVE  EventLine(prev \o SubSeq(bodies, 1, i - 1), bodies[i]).hash
           = prev \o SubSeq(bodies, 1, i)
<1> DEFINE before == SubSeq(bodies, 1, i - 1)
<1>1. i \in 0..Len(bodies) /\ i - 1 \in 0..Len(bodies) /\ bodies[i] \in Event
  OBVIOUS
<1>2. /\ before \in Seq(Event) /\ Len(before) = i - 1
      /\ \A k \in 1..(i - 1) : before[k] = bodies[k]
  BY <1>1, Prefix
<1>3. /\ SubSeq(bodies, 1, i) \in Seq(Event) /\ Len(SubSeq(bodies, 1, i)) = i
      /\ \A k \in 1..i : SubSeq(bodies, 1, i)[k] = bodies[k]
  BY <1>1, Prefix
<1> DEFINE upto == SubSeq(bodies, 1, i)
           history == prev \o before
<1> HIDE DEF before, upto
<1>4. Len(prev) \in Nat /\ i \in Nat
  OBVIOUS
<1>5. /\ history \in Seq(Event) /\ Len(history) = Len(prev) + Len(before)
      /\ \A k \in 1..(Len(prev) + Len(before)) :
           history[k] = IF k <= Len(prev) THEN prev[k] ELSE before[k - Len(prev)]
  BY <1>2, ConcatProperties
<1>6. /\ prev \o upto \in Seq(Event) /\ Len(prev \o upto) = Len(prev) + Len(upto)
       /\ \A k \in 1..(Len(prev) + Len(upto)) :
            (prev \o upto)[k] = IF k <= Len(prev) THEN prev[k] ELSE upto[k - Len(prev)]
  <2>1. upto \in Seq(Event)
    BY <1>3 DEF upto
  <2>2. QED BY <2>1, ConcatProperties
<1> HIDE DEF history
<1>7. /\ history \in Seq(Event) /\ Len(history) = Len(prev) + (i - 1)
      /\ \A k \in 1..(Len(prev) + (i - 1)) :
           history[k] = IF k <= Len(prev) THEN prev[k] ELSE before[k - Len(prev)]
  BY <1>2, <1>5
<1>8. /\ prev \o upto \in Seq(Event) /\ Len(prev \o upto) = Len(prev) + i
      /\ \A k \in 1..(Len(prev) + i) :
           (prev \o upto)[k] = IF k <= Len(prev) THEN prev[k] ELSE upto[k - Len(prev)]
  <2>1. Len(upto) = i
    BY <1>3 DEF upto
  <2>2. QED BY <2>1, <1>6
<1> DEFINE hash == Append(history, bodies[i])
<1>9. /\ hash \in Seq(Event) /\ Len(hash) = Len(history) + 1
      /\ \A k \in 1..Len(history) : hash[k] = history[k]
      /\ hash[Len(history) + 1] = bodies[i]
  BY <1>1, <1>7, AppendProperties
<1> HIDE DEF hash
<1>10. ASSUME NEW k \in 1..(Len(prev) + i) PROVE hash[k] = (prev \o upto)[k]
  <2>1. CASE k <= Len(prev)
    <3>1. k \in 1..Len(history) /\ k \in 1..(Len(prev) + (i - 1))
      BY <1>1, <1>7, <1>4, <2>1
    <3>2. QED BY <1>7, <1>8, <1>9, <2>1, <3>1
  <2>2. CASE k > Len(prev) /\ k < Len(prev) + i
    <3>1. /\ k \in 1..Len(history) /\ k \in 1..(Len(prev) + (i - 1)) /\ ~(k <= Len(prev))
          /\ k - Len(prev) \in 1..(i - 1) /\ k - Len(prev) \in 1..i
      BY <1>1, <1>7, <1>4, <2>2
    <3>2. hash[k] = bodies[k - Len(prev)]
      BY <1>2, <1>7, <1>9, <3>1
    <3>3. (prev \o upto)[k] = bodies[k - Len(prev)]
      BY <1>3, <1>8, <3>1 DEF upto
    <3>4. QED BY <3>2, <3>3
  <2>3. CASE k = Len(prev) + i
    <3>1. k = Len(history) + 1 /\ ~(k <= Len(prev)) /\ k - Len(prev) = i /\ i \in 1..i
      BY <1>1, <1>7, <1>4, <2>3
    <3>2. hash[k] = bodies[i]
      BY <1>9, <3>1
    <3>3. (prev \o upto)[k] = bodies[i]
      BY <1>3, <1>8, <3>1 DEF upto
    <3>4. QED BY <3>2, <3>3
  <2>4. k <= Len(prev) \/ (k > Len(prev) /\ k < Len(prev) + i) \/ k = Len(prev) + i
    BY <1>4
  <2>5. QED BY <2>1, <2>2, <2>3, <2>4
<1>11. hash = prev \o upto
  <2> DEFINE full == prev \o upto
  <2>1. full \in Seq(Event) /\ Len(full) = Len(prev) + i
    BY <1>8
  <2>2. Len(hash) = Len(prev) + i /\ hash \in Seq(Event)
    BY <1>7, <1>9, <1>4
  <2>3. \A k \in 1..Len(hash) : hash[k] = full[k]
    BY <1>10, <2>2
  <2> HIDE DEF full
  <2>4. hash = full
    BY <2>1, <2>2, <2>3, SeqEqual
  <2>5. QED BY <2>4 DEF full
<1>12. QED BY <1>11 DEF EventLine, HashOf, hash, history, before, upto

\* The lines of a step are lines, whole and with their newlines.
LEMMA LinesType ==
  ASSUME NEW prev \in Seq(Event), NEW bodies \in Seq(Event)
  PROVE  /\ Lines(prev, bodies) \in Seq(LoggedLine)
         /\ Len(Lines(prev, bodies)) = Len(bodies)
         /\ \A i \in 1..Len(bodies) :
              /\ Lines(prev, bodies)[i] = EventLine(prev \o SubSeq(bodies, 1, i - 1), bodies[i])
              /\ Lines(prev, bodies)[i].eol /\ Lines(prev, bodies)[i].joined = << >>
              /\ Parses(Lines(prev, bodies)[i])
              /\ Lines(prev, bodies)[i].hash = prev \o SubSeq(bodies, 1, i)
<1> DEFINE more == Lines(prev, bodies)
<1>1. ASSUME NEW i \in 1..Len(bodies)
      PROVE  EventLine(prev \o SubSeq(bodies, 1, i - 1), bodies[i]) \in LoggedLine
  <2>1. SubSeq(bodies, 1, i - 1) \in Seq(Event) /\ bodies[i] \in Event
    <3>1. i - 1 \in 0..Len(bodies)
      OBVIOUS
    <3>2. QED BY <3>1, Prefix
  <2>2. prev \o SubSeq(bodies, 1, i - 1) \in Seq(Event)
    BY <2>1, ConcatProperties
  <2>3. Append(prev \o SubSeq(bodies, 1, i - 1), bodies[i]) \in Seq(Event)
    BY <2>1, <2>2, AppendProperties
  <2>4. << >> \in Seq(Seq(Event))
    OBVIOUS
  <2>5. QED BY <2>1, <2>2, <2>3, <2>4 DEF EventLine, LoggedLine, HashOf
<1>2. more \in Seq(LoggedLine) /\ Len(more) = Len(bodies)
  BY <1>1 DEF Lines
<1>3. \A i \in 1..Len(bodies) :
        more[i] = EventLine(prev \o SubSeq(bodies, 1, i - 1), bodies[i])
  BY DEF Lines
<1> HIDE DEF more
<1>4. ASSUME NEW i \in 1..Len(bodies)
      PROVE  more[i].eol /\ more[i].joined = << >> /\ Parses(more[i])
  <2> DEFINE line == EventLine(prev \o SubSeq(bodies, 1, i - 1), bodies[i])
  <2>1. line.eol /\ line.whole /\ line.joined = << >>
    BY DEF EventLine
  <2>2. more[i] = line
    BY <1>3
  <2> HIDE DEF line
  <2>3. QED BY <2>1, <2>2 DEF Parses
<1>5. ASSUME NEW i \in 1..Len(bodies) PROVE more[i].hash = prev \o SubSeq(bodies, 1, i)
  BY <1>3, HashOfPrefix
<1>6. QED BY <1>2, <1>3, <1>4, <1>5 DEF more

\* What two files say one after the other.
LEMMA ConcatFiles ==
  ASSUME NEW f \in Seq(LoggedLine), NEW g \in Seq(LoggedLine)
  PROVE  /\ f \o g \in Seq(LoggedLine)
         /\ Hashes(f \o g) = Hashes(f) \union Hashes(g)
         /\ ReadBack(f \o g) = ReadBack(f) \union ReadBack(g)
         /\ AllClosed(f) /\ g \in LogFile => f \o g \in LogFile
<1> DEFINE h == f \o g
<1>1. /\ h \in Seq(LoggedLine) /\ Len(h) = Len(f) + Len(g)
      /\ \A i \in 1..(Len(f) + Len(g)) : h[i] = IF i <= Len(f) THEN f[i] ELSE g[i - Len(f)]
  BY ConcatProperties
<1> HIDE DEF h
<1>2. Len(f) \in Nat /\ Len(g) \in Nat
  OBVIOUS
<1>3. \A i \in 1..Len(f) : i \in 1..Len(h) /\ h[i] = f[i]
  BY <1>1, <1>2
<1>4. \A i \in 1..Len(g) : Len(f) + i \in 1..Len(h) /\ h[Len(f) + i] = g[i]
  <2>1. ASSUME NEW i \in 1..Len(g)
        PROVE  /\ Len(f) + i \in 1..(Len(f) + Len(g)) /\ ~(Len(f) + i <= Len(f))
               /\ Len(f) + i - Len(f) = i
    BY <1>2
  <2>2. QED BY <1>1, <2>1
<1>5. \A i \in 1..Len(h) :
        (i \in 1..Len(f) /\ h[i] = f[i]) \/ (i - Len(f) \in 1..Len(g) /\ h[i] = g[i - Len(f)])
  BY <1>1, <1>2
<1>6. Hashes(h) = Hashes(f) \union Hashes(g)
  <2>1. ASSUME NEW i \in 1..Len(h), h[i].eol
        PROVE  LastEvent(h[i]) \in Hashes(f) \union Hashes(g)
    BY <1>5, <2>1 DEF Hashes
  <2>2. ASSUME NEW i \in 1..Len(f), f[i].eol PROVE LastEvent(f[i]) \in Hashes(h)
    BY <1>3, <2>2 DEF Hashes
  <2>3. ASSUME NEW i \in 1..Len(g), g[i].eol PROVE LastEvent(g[i]) \in Hashes(h)
    BY <1>4, <2>3 DEF Hashes
  <2>4. Hashes(h) \subseteq Hashes(f) \union Hashes(g)
    BY <2>1 DEF Hashes
  <2>5. Hashes(f) \subseteq Hashes(h) /\ Hashes(g) \subseteq Hashes(h)
    BY <2>2, <2>3 DEF Hashes
  <2>6. QED BY <2>4, <2>5
<1>7. ReadBack(h) = ReadBack(f) \union ReadBack(g)
  <2>1. ASSUME NEW i \in 1..Len(h), h[i].eol, Parses(h[i])
        PROVE  h[i].hash \in ReadBack(f) \union ReadBack(g)
    BY <1>5, <2>1 DEF ReadBack
  <2>2. ASSUME NEW i \in 1..Len(f), f[i].eol, Parses(f[i]) PROVE f[i].hash \in ReadBack(h)
    BY <1>3, <2>2 DEF ReadBack
  <2>3. ASSUME NEW i \in 1..Len(g), g[i].eol, Parses(g[i]) PROVE g[i].hash \in ReadBack(h)
    BY <1>4, <2>3 DEF ReadBack
  <2>4. ReadBack(h) \subseteq ReadBack(f) \union ReadBack(g)
    BY <2>1 DEF ReadBack
  <2>5. ReadBack(f) \subseteq ReadBack(h) /\ ReadBack(g) \subseteq ReadBack(h)
    BY <2>2, <2>3 DEF ReadBack
  <2>6. QED BY <2>4, <2>5
<1>8. ASSUME AllClosed(f), g \in LogFile, NEW i \in 1..(Len(h) - 1) PROVE h[i].eol
  <2>1. i \in 1..Len(h)
    BY <1>1, <1>2
  <2>2. CASE i \in 1..Len(f) /\ h[i] = f[i]
    BY <1>8, <2>2 DEF AllClosed
  <2>3. CASE i - Len(f) \in 1..Len(g) /\ h[i] = g[i - Len(f)]
    <3>1. i - Len(f) \in 1..(Len(g) - 1)
      BY <1>1, <1>2, <2>3
    <3>2. QED BY <1>8, <2>3, <3>1 DEF LogFile
  <2>4. QED BY <1>5, <2>1, <2>2, <2>3
<1>9. QED BY <1>1, <1>6, <1>7, <1>8 DEF h, LogFile

\* What a write at the end of a file does to it, whatever is there.
LEMMA PutFile ==
  ASSUME NEW f \in LogFile, NEW line \in LoggedLine, line.joined = << >>
  PROVE  /\ Put(f, line) \in LogFile
         /\ Hashes(Put(f, line)) = Hashes(f) \union (IF line.eol THEN {line.hash} ELSE {})
         /\ ReadBack(f) \subseteq ReadBack(Put(f, line))
         /\ line.eol => AllClosed(Put(f, line))
<1> DEFINE g == Put(f, line)
           last == Len(f)
<1>1. f \in Seq(LoggedLine) /\ \A i \in 1..(last - 1) : f[i].eol
  BY DEF LogFile
<1>2. last \in Nat /\ line.eol \in BOOLEAN /\ line.hash \in Seq(Event)
  BY <1>1 DEF LoggedLine
<1>3. CASE f # << >> /\ ~f[last].eol
  <2> DEFINE j == Joined(f[last], line)
  <2>1. last \in 1..last /\ f[last] \in LoggedLine
    BY <1>1, <1>2, <1>3
  <2>2. /\ j \in LoggedLine /\ j.eol = line.eol /\ ~Parses(j)
        /\ LastEvent(j) = line.hash
    <3>1. f[last].joined \in Seq(Seq(Event))
      BY <2>1 DEF LoggedLine
    <3>2. PICK joined : joined = Append(f[last].joined, line.hash)
      OBVIOUS
    <3>3. /\ joined \in Seq(Seq(Event)) /\ joined # << >>
          /\ joined[Len(joined)] = line.hash
      BY <1>2, <3>1, <3>2, AppendProperties
    <3>4. j = [f[last] EXCEPT !.joined = joined, !.eol = line.eol]
      BY <3>2 DEF Joined
    <3>5. j \in LoggedLine /\ j.eol = line.eol /\ j.joined = joined
      BY <1>2, <2>1, <3>3, <3>4 DEF LoggedLine
    <3> HIDE DEF j
    <3>6. QED BY <3>3, <3>5 DEF Parses, LastEvent
  <2>3. g = [f EXCEPT ![last] = j]
    BY <1>3 DEF Put
  <2> HIDE DEF g, j
  <2>4. /\ g \in Seq(LoggedLine) /\ Len(g) = last /\ g[last] = j
        /\ \A i \in 1..last : i # last => g[i] = f[i]
    BY <1>1, <2>1, <2>2, <2>3, ExceptSeq
  <2>5. \A i \in 1..last : i # last => i \in 1..(last - 1) /\ f[i].eol /\ g[i].eol
    BY <1>1, <1>2, <2>4
  <2>6. g \in LogFile /\ (line.eol => AllClosed(g))
    <3>1. \A i \in 1..(last - 1) : i \in 1..last /\ i # last
      BY <1>2
    <3>2. QED BY <2>2, <2>4, <2>5, <3>1 DEF LogFile, AllClosed
  <2>7. Hashes(g) = Hashes(f) \union (IF line.eol THEN {line.hash} ELSE {})
    <3>1. ASSUME NEW i \in 1..last, g[i].eol
          PROVE  LastEvent(g[i]) \in Hashes(f) \union (IF line.eol THEN {line.hash} ELSE {})
      <4>1. CASE i = last
        BY <2>2, <2>4, <3>1, <4>1
      <4>2. CASE i # last
        BY <2>4, <2>5, <4>2 DEF Hashes
      <4>3. QED BY <4>1, <4>2
    <3>2. ASSUME NEW i \in 1..last, f[i].eol PROVE LastEvent(f[i]) \in Hashes(g)
      BY <1>3, <2>4, <2>5, <3>2 DEF Hashes
    <3>3. ASSUME line.eol PROVE line.hash \in Hashes(g)
      BY <2>1, <2>2, <2>4, <3>3 DEF Hashes
    <3>4. Hashes(g) \subseteq Hashes(f) \union (IF line.eol THEN {line.hash} ELSE {})
      BY <2>4, <3>1 DEF Hashes
    <3>5. Hashes(f) \subseteq Hashes(g)
      BY <3>2 DEF Hashes
    <3>6. QED BY <3>3, <3>4, <3>5
  <2>8. ReadBack(f) \subseteq ReadBack(g)
    BY <1>3, <2>4, <2>5 DEF ReadBack
  <2>9. QED BY <2>6, <2>7, <2>8 DEF g
<1>4. CASE ~(f # << >> /\ ~f[last].eol)
  <2> DEFINE one == <<line>>
  <2>1. AllClosed(f)
    <3>1. \A i \in 1..last : i \in 1..(last - 1) \/ (i = last /\ f # << >>)
      BY <1>1, <1>2
    <3>2. QED BY <1>1, <1>4, <3>1 DEF AllClosed
  <2>2. g = Append(f, line)
    BY <1>4 DEF Put
  <2>3. one \in Seq(LoggedLine) /\ Len(one) = 1 /\ one[1] = line
    OBVIOUS
  <2>4. g = f \o one
    BY <1>1, <2>2, AppendIsConcat
  <2> HIDE DEF g, one
  <2>5. one \in LogFile
    <3>1. \A i \in 1..(Len(one) - 1) : one[i].eol
      BY <2>3
    <3>2. QED BY <2>3, <3>1 DEF LogFile
  <2>6. Hashes(one) = IF line.eol THEN {line.hash} ELSE {}
    <3>1. LastEvent(line) = line.hash
      BY DEF LastEvent
    <3>2. QED BY <2>3, <3>1 DEF Hashes
  <2>7. ASSUME line.eol PROVE AllClosed(g)
    <3>1. /\ Len(g) = last + 1 /\ g[last + 1] = line
          /\ \A i \in 1..last : g[i] = f[i]
      BY <1>1, <2>2, AppendProperties
    <3>2. \A i \in 1..(last + 1) : i \in 1..last \/ i = last + 1
      BY <1>2
    <3>3. QED BY <2>1, <2>7, <3>1, <3>2 DEF AllClosed
  <2>8. QED BY <1>1, <2>1, <2>3, <2>4, <2>5, <2>6, <2>7, ConcatFiles DEF g
<1>5. QED BY <1>3, <1>4

\* The lines of a step say how its bodies continue prev.
LEMMA LinesFile ==
  ASSUME NEW prev \in Seq(Event), NEW bodies \in Seq(Event)
  PROVE  /\ Lines(prev, bodies) \in LogFile /\ AllClosed(Lines(prev, bodies))
         /\ Hashes(Lines(prev, bodies)) = Extensions(prev, bodies)
<1> DEFINE more == Lines(prev, bodies)
<1>1. /\ more \in Seq(LoggedLine) /\ Len(more) = Len(bodies)
      /\ \A i \in 1..Len(bodies) :
           /\ more[i].eol /\ more[i].joined = << >>
           /\ more[i].hash = prev \o SubSeq(bodies, 1, i)
  BY LinesType
<1> HIDE DEF more
<1>2. \A i \in 1..Len(bodies) : LastEvent(more[i]) = prev \o SubSeq(bodies, 1, i)
  BY <1>1 DEF LastEvent
<1>3. Hashes(more) = Extensions(prev, bodies)
  BY <1>1, <1>2 DEF Hashes, Extensions
<1>4. more \in LogFile /\ AllClosed(more)
  BY <1>1 DEF LogFile, AllClosed
<1>5. QED BY <1>3, <1>4 DEF more

\* A sequence is its first element and the others.
LEMMA FirstAndRest ==
  ASSUME NEW S, NEW s \in Seq(S), s # << >>
  PROVE  s = <<s[1]>> \o Tail(s)
<1>1. 1 \in 1..Len(s) /\ Len(s) \in 1..Len(s) /\ 1 + 1 = 2
  OBVIOUS
<1>2. SubSeq(s, 1, Len(s)) = <<s[1]>> \o SubSeq(s, 1 + 1, Len(s))
  BY <1>1, SubSeqRecursiveFirst
<1>3. QED BY <1>1, <1>2, SubSeqFull, TailIsSubSeq

\* Of those lines the first is put to the file, the others follow it.
LEMMA LogAllSplit ==
  ASSUME NEW f, NEW prev \in Seq(Event), NEW bodies \in Seq(Event), bodies # << >>
  PROVE  \E first \in LoggedLine, rest \in Seq(LoggedLine) :
           /\ LogAll(f, prev, bodies) = Put(f, first) \o rest
           /\ Lines(prev, bodies) = <<first>> \o rest
           /\ first.eol /\ first.joined = << >> /\ rest \in LogFile
           /\ first = EventLine(prev \o SubSeq(bodies, 1, 0), bodies[1])
<1> DEFINE more == Lines(prev, bodies)
           first == more[1]
           rest == Tail(more)
<1>1. /\ more \in Seq(LoggedLine) /\ Len(more) = Len(bodies)
      /\ \A i \in 1..Len(bodies) : more[i].eol /\ more[i].joined = << >>
      /\ \A i \in 1..Len(bodies) :
           more[i] = EventLine(prev \o SubSeq(bodies, 1, i - 1), bodies[i])
  BY LinesType
<1>2. LogAll(f, prev, bodies) = Put(f, first) \o rest
  BY DEF LogAll, Lines
<1> HIDE DEF more
<1>3. Len(bodies) \in Nat /\ 1 \in 1..Len(bodies) /\ more # << >>
  BY <1>1
<1>4. /\ first \in LoggedLine /\ first.eol /\ first.joined = << >>
      /\ first = EventLine(prev \o SubSeq(bodies, 1, 0), bodies[1])
  <2>1. 1 - 1 = 0
    OBVIOUS
  <2>2. QED BY <1>1, <1>3, <2>1
<1>5. /\ rest \in Seq(LoggedLine) /\ Len(rest) = Len(bodies) - 1
      /\ \A i \in 1..Len(rest) : rest[i] = more[i + 1]
  BY <1>1, <1>3, HeadTailProperties
<1>6. rest \in LogFile
  <2>1. ASSUME NEW i \in 1..Len(rest) PROVE rest[i].eol
    <3>1. i + 1 \in 1..Len(bodies)
      BY <1>3, <1>5
    <3>2. QED BY <1>1, <1>5, <3>1
  <2>2. \A i \in 1..(Len(rest) - 1) : i \in 1..Len(rest)
    BY <1>3, <1>5
  <2>3. QED BY <1>5, <2>1, <2>2 DEF LogFile
<1>7. more = <<first>> \o rest
  BY <1>1, <1>3, FirstAndRest
<1> HIDE DEF first, rest
<1>8. QED BY <1>2, <1>4, <1>5, <1>6, <1>7 DEF more

\* Appending, whatever a dead append has left at the end: the histories that continue
\* prev are added, one event at a time, and what could be read still can.
LEMMA LogAllFile ==
  ASSUME NEW f \in LogFile, NEW prev \in Seq(Event), NEW bodies \in Seq(Event)
  PROVE  /\ LogAll(f, prev, bodies) \in LogFile
         /\ Hashes(LogAll(f, prev, bodies)) = Hashes(f) \union Extensions(prev, bodies)
         /\ ReadBack(f) \subseteq ReadBack(LogAll(f, prev, bodies))
<1>1. CASE bodies = << >>
  <2>1. LogAll(f, prev, bodies) = f
    BY <1>1 DEF LogAll
  <2>2. Extensions(prev, bodies) = {}
    BY <1>1 DEF Extensions
  <2>3. QED BY <2>1, <2>2
<1>2. CASE bodies # << >>
  <2>1. PICK first \in LoggedLine, rest \in Seq(LoggedLine) :
          /\ LogAll(f, prev, bodies) = Put(f, first) \o rest
          /\ Lines(prev, bodies) = <<first>> \o rest
          /\ first.eol /\ first.joined = << >> /\ rest \in LogFile
          /\ first = EventLine(prev \o SubSeq(bodies, 1, 0), bodies[1])
    BY <1>2, LogAllSplit, Zenon
  <2>2. /\ Put(f, first) \in LogFile /\ AllClosed(Put(f, first))
        /\ Hashes(Put(f, first)) = Hashes(f) \union {first.hash}
        /\ ReadBack(f) \subseteq ReadBack(Put(f, first))
    BY <2>1, PutFile
  <2>3. PICK g \in LogFile : g = Put(f, first)
    BY <2>2
  <2>4. /\ g \o rest \in LogFile
        /\ Hashes(g \o rest) = Hashes(g) \union Hashes(rest)
        /\ ReadBack(g \o rest) = ReadBack(g) \union ReadBack(rest)
    BY <2>1, <2>2, <2>3, ConcatFiles DEF LogFile
  <2>5. Extensions(prev, bodies) = {first.hash} \union Hashes(rest)
    <3> DEFINE one == <<first>>
    <3>1. one \in Seq(LoggedLine) /\ Len(one) = 1 /\ one[1] = first
      OBVIOUS
    <3>2. Lines(prev, bodies) = one \o rest
      BY <2>1
    <3> HIDE DEF one
    <3>3. LastEvent(first) = first.hash
      BY <2>1 DEF LastEvent
    <3>4. Hashes(one) = {first.hash}
      BY <2>1, <3>1, <3>3 DEF Hashes
    <3>5. Hashes(one \o rest) = Hashes(one) \union Hashes(rest)
      BY <3>1, ConcatFiles
    <3>6. QED BY <3>2, <3>4, <3>5, LinesFile
  <2>6. QED BY <2>1, <2>2, <2>3, <2>4, <2>5
<1>3. QED BY <1>1, <1>2

\* What LogAll appends, line by line, to a file that ends in a newline.
LEMMA LogAllLines ==
  ASSUME NEW f \in Seq(LoggedLine), AllClosed(f),
         NEW prev \in Seq(Event), NEW bodies \in Seq(Event)
  PROVE  /\ LogAll(f, prev, bodies) \in Seq(LoggedLine)
         /\ AllClosed(LogAll(f, prev, bodies))
         /\ Len(LogAll(f, prev, bodies)) = Len(f) + Len(bodies)
         /\ \A i \in 1..Len(f) : LogAll(f, prev, bodies)[i] = f[i]
         /\ \A i \in 1..Len(bodies) :
              LogAll(f, prev, bodies)[Len(f) + i]
                = EventLine(prev \o SubSeq(bodies, 1, i - 1), bodies[i])
<1> DEFINE more == Lines(prev, bodies)
<1>1. /\ more \in Seq(LoggedLine) /\ Len(more) = Len(bodies) /\ AllClosed(more)
      /\ \A i \in 1..Len(bodies) :
           more[i] = EventLine(prev \o SubSeq(bodies, 1, i - 1), bodies[i])
  BY LinesType, LinesFile
<1>2. LogAll(f, prev, bodies) = f \o more
  <2>1. CASE bodies = << >>
    <3>1. more = << >> /\ LogAll(f, prev, bodies) = f
      BY <1>1, <2>1 DEF LogAll, Lines
    <3>2. QED BY <3>1, ConcatEmptySeq
  <2>2. CASE bodies # << >>
    <3>1. PICK first \in LoggedLine, rest \in Seq(LoggedLine) :
            /\ LogAll(f, prev, bodies) = Put(f, first) \o rest
            /\ Lines(prev, bodies) = <<first>> \o rest
            /\ first.eol /\ first.joined = << >> /\ rest \in LogFile
            /\ first = EventLine(prev \o SubSeq(bodies, 1, 0), bodies[1])
      BY <2>2, LogAllSplit, Zenon
    <3>2. Put(f, first) = f \o <<first>>
      <4>1. f # << >> => Len(f) \in 1..Len(f)
        OBVIOUS
      <4>2. Put(f, first) = Append(f, first)
        BY <4>1 DEF Put, AllClosed
      <4>3. QED BY <4>2, AppendIsConcat
    <3> DEFINE one == <<first>>
    <3>3. one \in Seq(LoggedLine)
      OBVIOUS
    <3> HIDE DEF one
    <3>4. (f \o one) \o rest = f \o (one \o rest)
      BY <3>3, ConcatAssociative
    <3>5. QED BY <3>1, <3>2, <3>4 DEF one
  <2>3. QED BY <2>1, <2>2
<1> HIDE DEF more
<1>5. /\ f \o more \in Seq(LoggedLine)
      /\ Len(f \o more) = Len(f) + Len(more)
      /\ \A i \in 1..(Len(f) + Len(more)) :
           (f \o more)[i] = IF i <= Len(f) THEN f[i] ELSE more[i - Len(f)]
  BY <1>1, ConcatProperties
<1>6. Len(f) \in Nat /\ Len(bodies) \in Nat
  OBVIOUS
<1>7. ASSUME NEW i \in 1..Len(bodies) PROVE (f \o more)[Len(f) + i] = more[i]
  <2>1. /\ Len(f) + i \in 1..(Len(f) + Len(more)) /\ ~(Len(f) + i <= Len(f))
        /\ Len(f) + i - Len(f) = i
    BY <1>1, <1>6
  <2>2. QED BY <1>5, <2>1
<1>8. ASSUME NEW i \in 1..Len(f) PROVE (f \o more)[i] = f[i]
  BY <1>1, <1>5, <1>6
<1>9. AllClosed(f \o more)
  <2>1. \A i \in 1..(Len(f) + Len(more)) :
          i \in 1..Len(f) \/ (i - Len(f) \in 1..Len(more) /\ ~(i <= Len(f)))
    BY <1>1, <1>6
  <2>2. QED BY <1>1, <1>5, <1>8, <2>1 DEF AllClosed
<1>10. QED BY <1>1, <1>2, <1>5, <1>7, <1>8, <1>9

\* An empty file that a run has appended its events to.
LEMMA LogAllFromStart ==
  ASSUME NEW prev \in Seq(Event)
  PROVE  LET f == LogAll(<< >>, << >>, prev)
         IN  /\ f \in Seq(LoggedLine)
             /\ Len(f) = Len(prev) /\ AllClosed(f)
             /\ \A i \in 1..Len(prev) : f[i] = EventLine(SubSeq(prev, 1, i - 1), prev[i])
<1> DEFINE f == LogAll(<< >>, << >>, prev)
           empty == << >>
<1>1. /\ empty \in Seq(LoggedLine) /\ empty \in Seq(Event) /\ Len(empty) = 0
      /\ AllClosed(empty)
  BY DEF AllClosed
<1>2. /\ f \in Seq(LoggedLine) /\ Len(f) = 0 + Len(prev) /\ AllClosed(f)
      /\ \A i \in 1..Len(prev) : f[0 + i] = EventLine(empty \o SubSeq(prev, 1, i - 1), prev[i])
  BY <1>1, LogAllLines
<1> HIDE DEF f, empty
<1>3. Len(prev) \in Nat
  OBVIOUS
<1>4. ASSUME NEW i \in 1..Len(prev)
      PROVE  f[i] = EventLine(SubSeq(prev, 1, i - 1), prev[i])
  <2>1. i - 1 \in 0..Len(prev) /\ 0 + i = i
    BY <1>3
  <2>2. SubSeq(prev, 1, i - 1) \in Seq(Event)
    BY <2>1, Prefix
  <2>3. empty \o SubSeq(prev, 1, i - 1) = SubSeq(prev, 1, i - 1)
    BY <2>2, ConcatEmptySeq DEF empty
  <2>4. QED BY <1>2, <2>1, <2>3
<1>5. QED BY <1>2, <1>3, <1>4 DEF f

\* Appending to what was appended is appending both at once.
LEMMA LogAllTwice ==
  ASSUME NEW prev \in Seq(Event), NEW bodies \in Seq(Event)
  PROVE  LogAll(LogAll(<< >>, << >>, prev), prev, bodies)
           = LogAll(<< >>, << >>, prev \o bodies)
<1> DEFINE both == prev \o bodies
           f == LogAll(<< >>, << >>, prev)
           g == LogAll(f, prev, bodies)
           h == LogAll(<< >>, << >>, both)
<1>1. /\ << >> \in Seq(LoggedLine) /\ << >> \in Seq(Event) /\ both \in Seq(Event)
      /\ Len(both) = Len(prev) + Len(bodies) /\ Len(prev) \in Nat /\ Len(bodies) \in Nat
  OBVIOUS
<1>2. /\ f \in Seq(LoggedLine) /\ Len(f) = Len(prev) /\ AllClosed(f)
      /\ \A i \in 1..Len(prev) : f[i] = EventLine(SubSeq(prev, 1, i - 1), prev[i])
  BY <1>1, LogAllFromStart
<1>3. /\ h \in Seq(LoggedLine) /\ Len(h) = Len(both)
      /\ \A i \in 1..Len(both) : h[i] = EventLine(SubSeq(both, 1, i - 1), both[i])
  BY <1>1, LogAllFromStart
<1>4. /\ g \in Seq(LoggedLine) /\ Len(g) = Len(both)
      /\ \A i \in 1..Len(prev) : g[i] = f[i]
      /\ \A i \in 1..Len(bodies) :
           g[Len(prev) + i] = EventLine(prev \o SubSeq(bodies, 1, i - 1), bodies[i])
  <2> HIDE DEF f, both
  <2>1. /\ g \in Seq(LoggedLine) /\ Len(g) = Len(f) + Len(bodies)
        /\ \A i \in 1..Len(f) : g[i] = f[i]
        /\ \A i \in 1..Len(bodies) :
             g[Len(f) + i] = EventLine(prev \o SubSeq(bodies, 1, i - 1), bodies[i])
    BY <1>2, LogAllLines
  <2> HIDE DEF g
  <2>2. QED BY <1>1, <1>2, <2>1
<1> HIDE DEF f, g, h
<1>5. ASSUME NEW i \in 1..Len(both) PROVE g[i] = h[i]
  <2>1. CASE i <= Len(prev)
    <3>1. i \in 1..Len(prev) /\ both[i] = prev[i] /\ i - 1 \in 0..Len(prev)
          /\ i - 1 \in 0..Len(both)
      BY <1>1, <2>1
    <3>2. SubSeq(both, 1, i - 1) = SubSeq(prev, 1, i - 1)
      <4>1. \A k \in 1..(i - 1) : both[k] = prev[k]
        BY <1>1, <3>1
      <4>2. /\ SubSeq(both, 1, i - 1) \in Seq(Event) /\ Len(SubSeq(both, 1, i - 1)) = i - 1
            /\ \A k \in 1..(i - 1) : SubSeq(both, 1, i - 1)[k] = both[k]
        BY <1>1, <3>1, Prefix
      <4>3. /\ SubSeq(prev, 1, i - 1) \in Seq(Event) /\ Len(SubSeq(prev, 1, i - 1)) = i - 1
            /\ \A k \in 1..(i - 1) : SubSeq(prev, 1, i - 1)[k] = prev[k]
        BY <3>1, Prefix
      <4>4. QED BY <4>1, <4>2, <4>3, SeqEqual
    <3>3. QED BY <1>2, <1>3, <1>4, <3>1, <3>2
  <2>2. CASE i > Len(prev)
    <3> DEFINE j == i - Len(prev)
               before == SubSeq(bodies, 1, j - 1)
    <3>1. /\ j \in 1..Len(bodies) /\ i = Len(prev) + j /\ both[i] = bodies[j]
          /\ j - 1 \in 0..Len(bodies) /\ i - 1 \in 0..Len(both) /\ i - 1 = Len(prev) + (j - 1)
      BY <1>1, <2>2
    <3>2. SubSeq(both, 1, i - 1) = prev \o before
      <4>1. /\ SubSeq(both, 1, i - 1) \in Seq(Event) /\ Len(SubSeq(both, 1, i - 1)) = i - 1
            /\ \A k \in 1..(i - 1) : SubSeq(both, 1, i - 1)[k] = both[k]
        BY <1>1, <3>1, Prefix
      <4>2. /\ before \in Seq(Event) /\ Len(before) = j - 1
            /\ \A k \in 1..(j - 1) : before[k] = bodies[k]
        BY <3>1, Prefix
      <4> HIDE DEF before, j
      <4>3. /\ prev \o before \in Seq(Event) /\ Len(prev \o before) = i - 1
            /\ \A k \in 1..(i - 1) : (prev \o before)[k] = both[k]
        <5>1. /\ prev \o before \in Seq(Event)
              /\ Len(prev \o before) = Len(prev) + Len(before)
              /\ \A k \in 1..(Len(prev) + Len(before)) : (prev \o before)[k] =
                   IF k <= Len(prev) THEN prev[k] ELSE before[k - Len(prev)]
          BY <4>2, ConcatProperties
        <5>2. \A k \in 1..(Len(prev) + Len(bodies)) : both[k] =
                   IF k <= Len(prev) THEN prev[k] ELSE bodies[k - Len(prev)]
          BY ConcatProperties
        <5> HIDE DEF both
        <5>3. ASSUME NEW k \in 1..(i - 1) PROVE (prev \o before)[k] = both[k]
          <6>1. CASE k <= Len(prev)
            BY <1>1, <3>1, <4>2, <5>1, <5>2, <6>1
          <6>2. CASE k > Len(prev)
            <7>1. /\ k - Len(prev) \in 1..(j - 1) /\ ~(k <= Len(prev))
                  /\ k \in 1..(Len(prev) + Len(bodies)) /\ k \in 1..(Len(prev) + Len(before))
              BY <1>1, <3>1, <4>2, <6>2
            <7>2. QED BY <4>2, <5>1, <5>2, <7>1
          <6>3. k <= Len(prev) \/ k > Len(prev)
            BY <1>1, <3>1
          <6>4. QED BY <6>1, <6>2, <6>3
        <5>4. QED BY <1>1, <3>1, <4>2, <5>1, <5>3
      <4>4. QED BY <4>1, <4>3, SeqEqual
    <3> HIDE DEF j
    <3>3. h[i] = EventLine(prev \o SubSeq(bodies, 1, j - 1), bodies[j])
      BY <1>3, <3>1, <3>2
    <3>4. QED BY <1>4, <3>1, <3>3
  <2>3. QED BY <1>1, <2>1, <2>2
<1>6. g = h
  BY <1>1, <1>3, <1>4, <1>5, SeqEqual
<1>7. QED BY <1>6 DEF f, g, h
-----------------------------------------------------------------------------
(* What one step does to a run *)

\* The requests' words are words, their run ids name audit files.
LEMMA RequestWords ==
  ASSUME NEW req \in Request
  PROVE  /\ req.run \in RunIds
         /\ {None, "deny", "allow", req.target, req.values} \subseteq Said
         /\ {CachePath(req), SealPath(req), StubPath(req), ReportPath(req)} \subseteq Paths
<1>1. req.run \in RunIds
  BY DEF RunIds
<1>2. {None, "deny", "allow", req.target, req.values} \subseteq Said
  <2>1. req.target \in STRING /\ req.values \in Seq(Byte)
    BY RequestAssumption
  <2>2. QED BY <2>1 DEF Said
<1>3. {CachePath(req), SealPath(req), StubPath(req), ReportPath(req)} \subseteq Paths
  BY DEF Paths
<1>4. QED BY <1>1, <1>2, <1>3

\* The events of every step are events.
LEMMA EventsAtType ==
  ASSUME Types, Progress, NEW p \in Proc
  PROVE  EventsAt(p) \in Seq(Event)
<1>1. proc[p] \in RunRecord /\ RunOK(proc[p])
  BY DEF Types, Progress
<1>2. CASE proc[p].pc \in {"received", "policy", "features", "cached", "emit"}
  <2>1. proc[p].req \in Request
    BY <1>1, <1>2 DEF RunRecord, RunOK
  <2> DEFINE said == {None, "deny", "allow", proc[p].req.target, proc[p].req.values}
  <2>2. said \subseteq Said
    BY <2>1, RequestWords
  <2>3. \A w \in {"COMMAND_RECEIVED", "FETCH", "POLICY_EVALUATED", "FEATURE_EXTRACT",
                  "CACHE_HIT", "CACHE_MISS", "ROUTE", "SEAL_EMIT", "VERIFY"}, v \in said :
          <<w, v>> \in Event
    BY <2>2 DEF Event
  <2>4. /\ <<"COMMAND_RECEIVED", proc[p].req.target>> \in Event /\ <<"FETCH", None>> \in Event
        /\ <<"POLICY_EVALUATED", IF proc[p].req.denied THEN "deny" ELSE "allow">> \in Event
        /\ <<"FEATURE_EXTRACT", None>> \in Event
        /\ <<IF proc[p].hit THEN "CACHE_HIT" ELSE "CACHE_MISS", None>> \in Event
        /\ <<"ROUTE", None>> \in Event /\ <<"SEAL_EMIT", proc[p].req.values>> \in Event
        /\ <<"VERIFY", None>> \in Event
    BY <2>3
  <2> HIDE DEF said
  <2>5. CASE proc[p].pc = "received"
    BY <2>4, <2>5 DEF EventsAt
  <2>6. CASE proc[p].pc = "policy"
    BY <2>4, <2>6 DEF EventsAt
  <2>7. CASE proc[p].pc = "features"
    BY <2>4, <2>7 DEF EventsAt
  <2>8. CASE proc[p].pc = "cached"
    BY <2>4, <2>8 DEF EventsAt
  <2>9. CASE proc[p].pc = "emit"
    BY <2>4, <2>9 DEF EventsAt
  <2>10. QED BY <1>2, <2>5, <2>6, <2>7, <2>8, <2>9
<1>3. CASE proc[p].pc \notin {"received", "policy", "features", "cached", "emit"}
  <2>1. EventsAt(p) = << >>
    BY <1>3 DEF EventsAt
  <2>2. QED BY <2>1
<1>4. QED BY <1>2, <1>3

\* The file of a run, and what is in it.
LEMMA LoggedIsHashes ==
  ASSUME NEW run, NEW file, audit[run] = file
  PROVE  Logged(run) = Hashes(file) /\ Readable(run) = ReadBack(file)
BY DEF Logged, Readable, Closed, Hashes, ReadBack

\* What a write does to the logs if the file it makes of one is a file that says more.
LEMMA FileReplaced ==
  ASSUME Types, NEW own \in RunIds, NEW g \in LogFile, NEW new,
         audit' = [audit EXCEPT ![own] = g],
         Hashes(g) = Hashes(audit[own]) \union new, ReadBack(audit[own]) \subseteq ReadBack(g)
  PROVE  /\ audit' \in [RunIds -> LogFile] /\ audit'[own] = g
         /\ \A run \in RunIds \ {own} :
              /\ audit'[run] = audit[run]
              /\ Logged(run)' = Logged(run) /\ Readable(run)' = Readable(run)
         /\ Logged(own)' = Logged(own) \union new
         /\ Readable(own) \subseteq Readable(own)'
         /\ \A run \in RunIds : Logged(run) \subseteq Logged(run)'
<1>1. /\ audit' \in [RunIds -> LogFile] /\ audit'[own] = g
      /\ \A run \in RunIds \ {own} : audit'[run] = audit[run]
  BY DEF Types
<1>2. Logged(own) = Hashes(audit[own]) /\ Readable(own) = ReadBack(audit[own])
  BY LoggedIsHashes
<1>3. Logged(own)' = Hashes(g) /\ Readable(own)' = ReadBack(g)
  BY <1>1 DEF Logged, Readable, Closed, Hashes, ReadBack
<1>4. \A run \in RunIds \ {own} : Logged(run)' = Logged(run) /\ Readable(run)' = Readable(run)
  BY <1>1 DEF Logged, Readable, Closed
<1>5. QED BY <1>1, <1>2, <1>3, <1>4

\* Appending to the file of a run keeps all histories, and the one that ends in
\* the last of its events is then in it.
LEMMA AppendingLogs ==
  ASSUME Types, NEW own \in RunIds, NEW prev \in Seq(Event), NEW bodies \in Seq(Event),
         audit' = [audit EXCEPT ![own] = LogAll(@, prev, bodies)]
  PROVE  /\ audit' \in [RunIds -> LogFile]
         /\ \A run \in RunIds : Logged(run) \subseteq Logged(run)'
         /\ \A run \in RunIds \ {own} :
              /\ audit'[run] = audit[run]
              /\ Logged(run)' = Logged(run) /\ Readable(run)' = Readable(run)
         /\ Logged(own)' = Logged(own) \union Extensions(prev, bodies)
         /\ Readable(own) \subseteq Readable(own)'
         /\ bodies # << >> => prev \o bodies \in Logged(own)'
<1>1. PICK f \in LogFile : f = audit[own]
  BY DEF Types
<1>2. PICK g : g = LogAll(f, prev, bodies)
  OBVIOUS
<1>3. /\ g \in LogFile /\ Hashes(g) = Hashes(f) \union Extensions(prev, bodies)
      /\ ReadBack(f) \subseteq ReadBack(g)
  BY <1>2, LogAllFile
<1>4. audit' = [audit EXCEPT ![own] = g]
  BY <1>1, <1>2
<1>5. /\ audit' \in [RunIds -> LogFile]
      /\ \A run \in RunIds \ {own} :
           /\ audit'[run] = audit[run]
           /\ Logged(run)' = Logged(run) /\ Readable(run)' = Readable(run)
      /\ Logged(own)' = Logged(own) \union Extensions(prev, bodies)
      /\ Readable(own) \subseteq Readable(own)'
      /\ \A run \in RunIds : Logged(run) \subseteq Logged(run)'
  BY <1>1, <1>3, <1>4, FileReplaced
<1>6. ASSUME bodies # << >> PROVE prev \o bodies \in Logged(own)'
  <2>1. Len(bodies) \in 1..Len(bodies)
    BY <1>6
  <2>2. SubSeq(bodies, 1, Len(bodies)) = bodies
    BY SubSeqFull
  <2>3. prev \o bodies \in Extensions(prev, bodies)
    BY <2>1, <2>2 DEF Extensions
  <2>4. QED BY <1>5, <2>3
<1>7. QED BY <1>5, <1>6

\* What a death leaves of a file: the events that were appended in full, and perhaps
\* text that is no event of the log.
LEMMA InterruptedFile ==
  ASSUME NEW f \in LogFile, NEW prev \in Seq(Event), NEW bodies \in Seq(Event),
         NEW g \in Interrupted(f, prev, bodies)
  PROVE  /\ g \in LogFile
         /\ ReadBack(f) \subseteq ReadBack(g)
         /\ \E n \in 0..Len(bodies) :
              Hashes(g) = Hashes(f) \union Extensions(prev, SubSeq(bodies, 1, n))
<1>1. PICK n \in 0..Len(bodies) :
        LET done == LogAll(f, prev, SubSeq(bodies, 1, n))
            next == EventLine(prev \o SubSeq(bodies, 1, n), bodies[n + 1])
        IN  g \in {done} \union
              (IF n = Len(bodies) THEN {} ELSE {Put(done, part) : part \in CutShort(next)})
  BY DEF Interrupted
<1> DEFINE done == LogAll(f, prev, SubSeq(bodies, 1, n))
           next == EventLine(prev \o SubSeq(bodies, 1, n), bodies[n + 1])
<1>2. SubSeq(bodies, 1, n) \in Seq(Event)
  BY Prefix
<1>3. /\ done \in LogFile /\ ReadBack(f) \subseteq ReadBack(done)
      /\ Hashes(done) = Hashes(f) \union Extensions(prev, SubSeq(bodies, 1, n))
  BY <1>2, LogAllFile
<1>4. CASE g = done
  BY <1>3, <1>4
<1>5. CASE n # Len(bodies) /\ \E part \in CutShort(next) : g = Put(done, part)
  <2>1. PICK part \in CutShort(next) : g = Put(done, part)
    BY <1>5
  <2>2. n + 1 \in 1..Len(bodies)
    BY <1>5
  <2>3. next \in LoggedLine /\ next.joined = << >>
    <3>1. /\ Lines(prev, bodies)[n + 1]
               = EventLine(prev \o SubSeq(bodies, 1, n + 1 - 1), bodies[n + 1])
          /\ Lines(prev, bodies)[n + 1] \in LoggedLine
          /\ Lines(prev, bodies)[n + 1].joined = << >>
      BY <2>2, LinesType
    <3>2. n + 1 - 1 = n
      OBVIOUS
    <3>3. QED BY <3>1, <3>2
  <2> HIDE DEF next, done
  <2>4. part \in LoggedLine /\ part.joined = << >> /\ ~part.eol
    <3>1. Len(next.joined) = 0 /\ SubSeq(next.joined, 1, 0) = << >>
      BY <2>3
    <3>2. \/ part = [next EXCEPT !.whole = FALSE, !.joined = << >>, !.eol = FALSE]
          \/ part = [next EXCEPT !.joined = << >>, !.eol = FALSE]
      <4>1. \A n_1 \in 0..Len(next.joined) : n_1 = 0
        BY <3>1
      <4>2. QED BY <3>1, <4>1, <2>1, Zenon DEF CutShort
    <3>3. << >> \in Seq(Seq(Event))
      OBVIOUS
    <3>4. QED BY <2>3, <3>2, <3>3 DEF LoggedLine
  <2>5. /\ g \in LogFile /\ ReadBack(done) \subseteq ReadBack(g)
        /\ Hashes(g) = Hashes(done)
    BY <1>3, <2>1, <2>4, PutFile
  <2>6. QED BY <1>3, <2>5
<1>6. QED BY <1>1, <1>4, <1>5

\* What a file says stays backed by the logs while they grow.
LEMMA AuthoredKept ==
  ASSUME \A run \in RunIds : Logged(run) \subseteq Logged(run)',
         NEW path, NEW text, NEW req \in Request, NEW hit \in BOOLEAN, NEW sid \in 1..MaxRuns,
         Authored(path, text, req, hit, sid)
  PROVE  Authored(path, text, req, hit, sid)'
<1>1. req.run \in RunIds
  BY RequestWords
<1>2. QED BY <1>1 DEF Authored

\* Files that no step touches stay authored, and those that become readable are.
LEMMA FilesKept ==
  ASSUME FilesAuthored,
         \A run \in RunIds : Logged(run) \subseteq Logged(run)',
         \A path \in Paths : Whole(path)' =>
           \/ disk'[path] = disk[path]
           \/ \E req \in Request, hit \in BOOLEAN, sid \in 1..MaxRuns :
                /\ ~ExtractRaises(req.values, req.config)
                /\ Authored(path, disk'[path], req, hit, sid)
  PROVE  FilesAuthored'
<1>1. SUFFICES ASSUME NEW path \in Paths, Whole(path)'
               PROVE  \E req \in Request, hit \in BOOLEAN, sid \in 1..MaxRuns :
                        /\ ~ExtractRaises(req.values, req.config)
                        /\ Authored(path, disk[path], req, hit, sid)'
  BY DEF FilesAuthored
<1>2. \E req \in Request, hit \in BOOLEAN, sid \in 1..MaxRuns :
         /\ ~ExtractRaises(req.values, req.config)
         /\ Authored(path, disk'[path], req, hit, sid)
  <2>1. CASE disk'[path] = disk[path]
    <3>1. Whole(path)
      BY <1>1, <2>1 DEF Whole
    <3>2. QED BY <2>1, <3>1 DEF FilesAuthored
  <2>2. QED BY <1>1, <2>1
<1>3. PICK req \in Request, hit \in BOOLEAN, sid \in 1..MaxRuns :
         /\ ~ExtractRaises(req.values, req.config)
         /\ Authored(path, disk'[path], req, hit, sid)
  BY <1>2
<1>4. PICK text : text = disk'[path]
  OBVIOUS
<1>5. Authored(path, text, req, hit, sid)
  BY <1>3, <1>4
<1>6. Authored(path, text, req, hit, sid)'
  BY <1>5, AuthoredKept
<1>7. Authored(path, disk[path], req, hit, sid)'
  BY <1>4, <1>6 DEF Authored
<1>8. QED BY <1>3, <1>7

\* A run appends its events and goes on.
LEMMA LogEventsKeeps ==
  ASSUME IInv, NEW p \in Proc, NEW next \in Active \union Ended, LogEvents(p, next),
         proc[p].req \in Request, EventsAt(p) # << >>,
         NEW r, r = [proc[p] EXCEPT !.pc = next, !.prev = @ \o EventsAt(p)], RunOK(r)
  PROVE  IInv'
<1>2. PICK own \in RunIds : own = proc[p].req.run
  BY RequestWords
<1>3. PICK prev \in Seq(Event) : prev = proc[p].prev
  BY DEF IInv, Types, RunRecord
<1>4. PICK bodies \in Seq(Event) : bodies = EventsAt(p)
  BY EventsAtType DEF IInv
<1>5. proc[p] \in RunRecord
  BY DEF IInv, Types
<1>6. /\ r \in RunRecord /\ RunOK(r) /\ r.prev = prev \o bodies /\ r.req = proc[p].req
  <2>1. prev \o bodies \in Seq(Event)
    OBVIOUS
  <2>2. QED BY <1>3, <1>4, <1>5, <2>1 DEF RunRecord
<1>7. /\ proc' = [proc EXCEPT ![p] = r]
      /\ audit' = [audit EXCEPT ![own] = LogAll(@, prev, bodies)]
      /\ disk' = disk /\ runs' = runs
  BY <1>2, <1>3, <1>4 DEF LogEvents
<1>8. /\ audit' \in [RunIds -> LogFile]
      /\ \A run \in RunIds : Logged(run) \subseteq Logged(run)'
      /\ prev \o bodies \in Logged(own)'
  BY <1>4, <1>7, AppendingLogs DEF IInv
<1>9. proc' \in [Proc -> RunRecord] /\ proc'[p] = r
      /\ \A q \in Proc \ {p} : proc'[q] = proc[q]
  BY <1>6, <1>7 DEF IInv, Types
<1>10. Types'
  BY <1>7, <1>8, <1>9 DEF IInv, Types
<1>11. Progress'
  BY <1>6, <1>9 DEF IInv, Progress
<1>12. HeadsLogged'
  <2>1. SUFFICES ASSUME NEW q \in Proc, NEW run \in RunIds,
                        proc'[q].prev # << >>, proc'[q].req.run = run
                 PROVE  proc'[q].prev \in Logged(run)'
    BY DEF HeadsLogged
  <2>2. CASE q = p
    BY <1>2, <1>6, <1>8, <1>9, <2>1, <2>2
  <2>3. CASE q # p
    BY <1>8, <1>9, <2>1, <2>3 DEF IInv, HeadsLogged
  <2>4. QED BY <2>2, <2>3
<1>13. FilesAuthored'
  BY <1>7, <1>8, FilesKept DEF IInv
<1>14. QED BY <1>10, <1>11, <1>12, <1>13 DEF IInv

\* A run goes on without appending: its new record is still right, and so are the
\* files.
LEMMA MoveKeeps ==
  ASSUME IInv, NEW p \in Proc, NEW r \in RunRecord, RunOK(r),
         proc' = [proc EXCEPT ![p] = r],
         r.prev # << >> => r.prev = proc[p].prev /\ r.req = proc[p].req,
         UNCHANGED audit, DOMAIN disk' = Paths, runs' \in 0..MaxRuns,
         \A path \in Paths : Whole(path)' =>
           \/ disk'[path] = disk[path]
           \/ \E req \in Request, hit \in BOOLEAN, sid \in 1..MaxRuns :
                /\ ~ExtractRaises(req.values, req.config)
                /\ Authored(path, disk'[path], req, hit, sid)
  PROVE  IInv'
<1>1. proc' \in [Proc -> RunRecord] /\ proc'[p] = r
      /\ \A q \in Proc \ {p} : proc'[q] = proc[q]
  BY DEF IInv, Types
<1>2. \A run \in RunIds : Logged(run)' = Logged(run)
  BY DEF Logged, Closed
<1>3. Types'
  BY <1>1 DEF IInv, Types
<1>4. Progress'
  BY <1>1 DEF IInv, Progress
<1>5. HeadsLogged'
  <2>1. SUFFICES ASSUME NEW q \in Proc, NEW run \in RunIds,
                        proc'[q].prev # << >>, proc'[q].req.run = run
                 PROVE  proc'[q].prev \in Logged(run)'
    BY DEF HeadsLogged
  <2>2. CASE q = p
    BY <1>1, <1>2, <2>1, <2>2 DEF IInv, HeadsLogged
  <2>3. CASE q # p
    BY <1>1, <1>2, <2>1, <2>3 DEF IInv, HeadsLogged
  <2>4. QED BY <2>2, <2>3
<1>6. FilesAuthored'
  <2>1. \A run \in RunIds : Logged(run) \subseteq Logged(run)'
    BY <1>2
  <2>2. QED BY <2>1, FilesKept DEF IInv
<1>7. QED BY <1>3, <1>4, <1>5, <1>6 DEF IInv

\* A call: the new run has logged nothing; the others only stop being alone.
LEMMA StartKeeps ==
  ASSUME IInv, NEW p \in Proc, NEW req \in Request, Start(p, req)
  PROVE  IInv'
<1>1. proc \in [Proc -> RunRecord]
  BY DEF IInv, Types
<1>2. /\ runs' \in 1..MaxRuns
      /\ audit' = audit /\ disk' = disk
  <2>1. /\ runs < MaxRuns /\ runs' = runs + 1
        /\ audit' = audit /\ disk' = disk
    BY DEF Start
  <2>2. runs \in 0..MaxRuns
    BY DEF IInv, Types
  <2>3. QED BY <2>1, <2>2, BoundAssumption
<1>3. PICK alone \in BOOLEAN :
        proc'[p] = [Idle EXCEPT !.pc = "received", !.req = req, !.sid = runs', !.alone = alone]
  BY <1>1 DEF Start
<1>4. ASSUME NEW q \in Proc \ {p}
      PROVE  /\ proc'[q] \in RunRecord
             /\ \A k \in {"pc", "req", "prev", "sid", "hit", "filling"} : proc'[q][k] = proc[q][k]
  <2>1. PICK still \in BOOLEAN : proc'[q] = [proc[q] EXCEPT !.alone = still]
    <3>1. proc'[q] = [proc[q] EXCEPT !.alone = @ /\ ~Conflict(q, req)]
      BY <1>4 DEF Start
    <3>2. QED BY <3>1
  <2>2. QED BY <1>1, <2>1 DEF RunRecord
<1>5. /\ proc'[p] \in RunRecord /\ RunOK(proc'[p])
      /\ proc'[p].prev = << >>
  <2>1. proc'[p] = [pc |-> "received", req |-> req, prev |-> << >>, sid |-> runs',
                    hit |-> FALSE, filling |-> FALSE, alone |-> alone]
    BY <1>3 DEF Idle, Genesis
  <2>2. proc'[p] \in RunRecord
    BY <1>2, <2>1 DEF RunRecord, Active
  <2>3. RunOK(proc'[p])
    BY <1>2, <2>1, RequestAssumption DEF RunOK, Past
  <2>4. QED BY <2>1, <2>2, <2>3
<1>6. ASSUME NEW q \in Proc \ {p} PROVE RunOK(proc'[q])
  BY <1>4 DEF RunOK, IInv, Progress
<1>7. Types'
  <2>1. proc' \in [Proc -> RunRecord]
    BY <1>4, <1>5 DEF Start
  <2>2. QED BY <1>2, <2>1 DEF IInv, Types
<1>8. Progress'
  BY <1>5, <1>6 DEF Progress
<1>9. \A run \in RunIds : Logged(run)' = Logged(run)
  BY <1>2 DEF Logged, Closed
<1>10. HeadsLogged'
  BY <1>4, <1>5, <1>9 DEF IInv, HeadsLogged
<1>11. FilesAuthored'
  BY <1>2, <1>9, FilesKept DEF IInv
<1>12. QED BY <1>7, <1>8, <1>10, <1>11 DEF IInv

\* A process that dies has appended some of its events, in full or not.
LEMMA CrashLogs ==
  ASSUME IInv, NEW p \in Proc, Crash(p), NEW own \in RunIds, own = proc[p].req.run,
         NEW prev \in Seq(Event), prev = proc[p].prev
  PROVE  /\ audit' \in [RunIds -> LogFile]
         /\ \A run \in RunIds : Logged(run) \subseteq Logged(run)'
         /\ \A run \in RunIds \ {own} :
              /\ audit'[run] = audit[run]
              /\ Logged(run)' = Logged(run) /\ Readable(run)' = Readable(run)
         /\ Readable(own) \subseteq Readable(own)'
         /\ \E bodies \in Seq(Event) :
              Logged(own)' = Logged(own) \union Extensions(prev, bodies)
<1>1. EventsAt(p) \in Seq(Event)
  BY EventsAtType DEF IInv
<1>2. PICK f \in LogFile : f = audit[own]
  BY DEF IInv, Types
<1>3. PICK g \in Interrupted(f, prev, EventsAt(p)) : audit' = [audit EXCEPT ![own] = g]
  BY <1>2 DEF Crash
<1>4. g \in LogFile /\ ReadBack(f) \subseteq ReadBack(g)
  BY <1>1, InterruptedFile
<1>5. PICK n \in 0..Len(EventsAt(p)) :
        Hashes(g) = Hashes(f) \union Extensions(prev, SubSeq(EventsAt(p), 1, n))
  BY <1>1, InterruptedFile
<1>6. SubSeq(EventsAt(p), 1, n) \in Seq(Event)
  BY <1>1, Prefix
<1>7. /\ audit' \in [RunIds -> LogFile]
      /\ \A run \in RunIds \ {own} :
           /\ audit'[run] = audit[run]
           /\ Logged(run)' = Logged(run) /\ Readable(run)' = Readable(run)
      /\ Logged(own)' = Logged(own) \union Extensions(prev, SubSeq(EventsAt(p), 1, n))
      /\ Readable(own) \subseteq Readable(own)'
      /\ \A run \in RunIds : Logged(run) \subseteq Logged(run)'
  BY <1>2, <1>3, <1>4, <1>5, FileReplaced DEF IInv
<1>8. QED BY <1>6, <1>7

\* A process that dies leaves histories that are longer, and no other trace.
LEMMA CrashKeeps ==
  ASSUME IInv, NEW p \in Proc, Crash(p)
  PROVE  IInv'
<1>1. proc[p] \in RunRecord /\ RunOK(proc[p]) /\ proc[p].pc \in Active
  BY DEF IInv, Types, Progress, Crash
<1>2. proc[p].req \in Request
  BY <1>1 DEF RunRecord, RunOK, Active
<1>3. PICK own \in RunIds : own = proc[p].req.run
  BY <1>2, RequestWords
<1>4. PICK prev \in Seq(Event) : prev = proc[p].prev
  BY <1>1 DEF RunRecord
<1>5. /\ audit' \in [RunIds -> LogFile]
      /\ \A run \in RunIds : Logged(run) \subseteq Logged(run)'
  BY <1>3, <1>4, CrashLogs DEF IInv
<1>7. Idle \in RunRecord /\ RunOK(Idle) /\ Idle.prev = << >>
  BY BoundAssumption DEF Idle, RunRecord, RunOK, Ended, Genesis, Past, IInv, Types
<1>8. /\ proc' \in [Proc -> RunRecord] /\ proc'[p] = Idle
      /\ \A q \in Proc \ {p} : proc'[q] = proc[q]
  BY <1>7 DEF Crash, IInv, Types
<1>9. disk' = disk /\ runs' = runs
  BY DEF Crash
<1>10. Types'
  BY <1>5, <1>8, <1>9 DEF IInv, Types
<1>11. Progress'
  BY <1>7, <1>8 DEF IInv, Progress
<1>12. HeadsLogged'
  <2>1. SUFFICES ASSUME NEW q \in Proc, NEW run \in RunIds,
                        proc'[q].prev # << >>, proc'[q].req.run = run
                 PROVE  proc'[q].prev \in Logged(run)'
    BY DEF HeadsLogged
  <2>2. q # p
    BY <1>7, <1>8, <2>1
  <2>3. QED BY <1>5, <1>8, <2>1, <2>2 DEF IInv, HeadsLogged
<1>13. FilesAuthored'
  BY <1>5, <1>9, FilesKept DEF IInv
<1>14. QED BY <1>10, <1>11, <1>12, <1>13 DEF IInv

-----------------------------------------------------------------------------
(* The steps that log *)

\* Histories spelled out, and the events that are added to them.
LEMMA TwoAndOne ==
  ASSUME NEW a, NEW b, NEW c
  PROVE  << a, b >> \o << c >> = << a, b, c >>
<1> DEFINE S == {a, b, c}
           s == << a, b >>
           t == << c >>
           u == << a, b, c >>
           w == s \o t
<1>1. s \in Seq(S) /\ t \in Seq(S) /\ u \in Seq(S)
  OBVIOUS
<1>2. /\ Len(s) = 2 /\ Len(t) = 1 /\ Len(u) = 3
      /\ s[1] = a /\ s[2] = b
      /\ t[1] = c
      /\ u[1] = a /\ u[2] = b /\ u[3] = c
  OBVIOUS
<1> HIDE DEF S, s, t, u
<1>3. /\ w \in Seq(S) /\ Len(w) = 3
      /\ \A i \in 1..3 : w[i] = IF i <= 2 THEN s[i] ELSE t[i - 2]
  <2>1. /\ w \in Seq(S) /\ Len(w) = Len(s) + Len(t)
        /\ \A i \in 1..(Len(s) + Len(t)) : w[i] = IF i <= Len(s) THEN s[i] ELSE t[i - Len(s)]
    BY <1>1, ConcatProperties
  <2> HIDE DEF w
  <2>2. QED BY <1>2, <2>1
<1> HIDE DEF w
<1>4. w[1] = a /\ w[2] = b /\ w[3] = c
  BY <1>2, <1>3
<1>5. \A i \in 1..3 : w[i] = u[i]
  BY <1>2, <1>4
<1>6. w = u
  BY <1>1, <1>2, <1>3, <1>5, SeqEqual
<1>7. QED BY <1>6 DEF w, s, t, u

\* The same for three events and one, ...
LEMMA ThreeAndOne ==
  ASSUME NEW a, NEW b, NEW c, NEW d
  PROVE  << a, b, c >> \o << d >> = << a, b, c, d >>
<1> DEFINE S == {a, b, c, d}
           s == << a, b, c >>
           t == << d >>
           u == << a, b, c, d >>
           w == s \o t
<1>1. s \in Seq(S) /\ t \in Seq(S) /\ u \in Seq(S)
  OBVIOUS
<1>2. /\ Len(s) = 3 /\ Len(t) = 1 /\ Len(u) = 4
      /\ s[1] = a /\ s[2] = b /\ s[3] = c
      /\ t[1] = d
      /\ u[1] = a /\ u[2] = b /\ u[3] = c /\ u[4] = d
  OBVIOUS
<1> HIDE DEF S, s, t, u
<1>3. /\ w \in Seq(S) /\ Len(w) = 4
      /\ \A i \in 1..4 : w[i] = IF i <= 3 THEN s[i] ELSE t[i - 3]
  <2>1. /\ w \in Seq(S) /\ Len(w) = Len(s) + Len(t)
        /\ \A i \in 1..(Len(s) + Len(t)) : w[i] = IF i <= Len(s) THEN s[i] ELSE t[i - Len(s)]
    BY <1>1, ConcatProperties
  <2> HIDE DEF w
  <2>2. QED BY <1>2, <2>1
<1> HIDE DEF w
<1>4. w[1] = a /\ w[2] = b /\ w[3] = c /\ w[4] = d
  BY <1>2, <1>3
<1>5. \A i \in 1..4 : w[i] = u[i]
  BY <1>2, <1>4
<1>6. w = u
  BY <1>1, <1>2, <1>3, <1>5, SeqEqual
<1>7. QED BY <1>6 DEF w, s, t, u

\* ... for four and one, ...
LEMMA FourAndOne ==
  ASSUME NEW a, NEW b, NEW c, NEW d, NEW e
  PROVE  << a, b, c, d >> \o << e >> = << a, b, c, d, e >>
<1> DEFINE S == {a, b, c, d, e}
           s == << a, b, c, d >>
           t == << e >>
           u == << a, b, c, d, e >>
           w == s \o t
<1>1. s \in Seq(S) /\ t \in Seq(S) /\ u \in Seq(S)
  OBVIOUS
<1>2. /\ Len(s) = 4 /\ Len(t) = 1 /\ Len(u) = 5
      /\ s[1] = a /\ s[2] = b /\ s[3] = c /\ s[4] = d
      /\ t[1] = e
      /\ u[1] = a /\ u[2] = b /\ u[3] = c /\ u[4] = d /\ u[5] = e
  OBVIOUS
<1> HIDE DEF S, s, t, u
<1>3. /\ w \in Seq(S) /\ Len(w) = 5
      /\ \A i \in 1..5 : w[i] = IF i <= 4 THEN s[i] ELSE t[i - 4]
  <2>1. /\ w \in Seq(S) /\ Len(w) = Len(s) + Len(t)
        /\ \A i \in 1..(Len(s) + Len(t)) : w[i] = IF i <= Len(s) THEN s[i] ELSE t[i - Len(s)]
    BY <1>1, ConcatProperties
  <2> HIDE DEF w
  <2>2. QED BY <1>2, <2>1
<1> HIDE DEF w
<1>4. w[1] = a /\ w[2] = b /\ w[3] = c /\ w[4] = d /\ w[5] = e
  BY <1>2, <1>3
<1>5. \A i \in 1..5 : w[i] = u[i]
  BY <1>2, <1>4
<1>6. w = u
  BY <1>1, <1>2, <1>3, <1>5, SeqEqual
<1>7. QED BY <1>6 DEF w, s, t, u

\* ... and for five and three.
LEMMA FiveAndThree ==
  ASSUME NEW a, NEW b, NEW c, NEW d, NEW e, NEW f, NEW g, NEW h
  PROVE  << a, b, c, d, e >> \o << f, g, h >> = << a, b, c, d, e, f, g, h >>
<1> DEFINE S == {a, b, c, d, e, f, g, h}
           s == << a, b, c, d, e >>
           t == << f, g, h >>
           u == << a, b, c, d, e, f, g, h >>
           w == s \o t
<1>1. s \in Seq(S) /\ t \in Seq(S) /\ u \in Seq(S)
  OBVIOUS
<1>2. /\ Len(s) = 5 /\ Len(t) = 3 /\ Len(u) = 8
      /\ s[1] = a /\ s[2] = b /\ s[3] = c /\ s[4] = d /\ s[5] = e
      /\ t[1] = f /\ t[2] = g /\ t[3] = h
      /\ u[1] = a /\ u[2] = b /\ u[3] = c /\ u[4] = d /\ u[5] = e /\ u[6] = f /\ u[7] = g /\ u[8] = h
  OBVIOUS
<1> HIDE DEF S, s, t, u
<1>3. /\ w \in Seq(S) /\ Len(w) = 8
      /\ \A i \in 1..8 : w[i] = IF i <= 5 THEN s[i] ELSE t[i - 5]
  <2>1. /\ w \in Seq(S) /\ Len(w) = Len(s) + Len(t)
        /\ \A i \in 1..(Len(s) + Len(t)) : w[i] = IF i <= Len(s) THEN s[i] ELSE t[i - Len(s)]
    BY <1>1, ConcatProperties
  <2> HIDE DEF w
  <2>2. QED BY <1>2, <2>1
<1> HIDE DEF w
<1>4. w[1] = a /\ w[2] = b /\ w[3] = c /\ w[4] = d /\ w[5] = e /\ w[6] = f /\ w[7] = g /\ w[8] = h
  BY <1>2, <1>3
<1>5. \A i \in 1..8 : w[i] = u[i]
  BY <1>2, <1>4
<1>6. w = u
  BY <1>1, <1>2, <1>3, <1>5, SeqEqual
<1>7. QED BY <1>6 DEF w, s, t, u

\* COMMAND_RECEIVED and FETCH.
LEMMA ReceivedKeeps ==
  ASSUME IInv, NEW p \in Proc, Received(p)
  PROVE  IInv'
<1>1. proc[p] \in RunRecord /\ RunOK(proc[p]) /\ proc[p].pc = "received"
  BY DEF IInv, Types, Progress, Received
<1>2. proc[p].req \in Request /\ proc[p].prev = << >>
  BY <1>1 DEF RunRecord, RunOK, Past
<1>3. EventsAt(p) = << <<"COMMAND_RECEIVED", proc[p].req.target>>, <<"FETCH", None>> >>
  BY <1>1 DEF EventsAt
<1>4. PICK r : r = [proc[p] EXCEPT !.pc = "policy", !.prev = @ \o EventsAt(p)]
  OBVIOUS
<1>5. /\ r.pc = "policy" /\ r.req = proc[p].req /\ r.sid = proc[p].sid
      /\ r.filling = proc[p].filling
      /\ r.prev = << <<"COMMAND_RECEIVED", proc[p].req.target>>, <<"FETCH", None>> >>
  BY <1>1, <1>2, <1>3, <1>4 DEF RunRecord
<1>6. RunOK(r)
  BY <1>1, <1>5 DEF RunOK, Past, AfterWrite
<1>7. LogEvents(p, "policy") /\ "policy" \in Active \union Ended /\ EventsAt(p) # << >>
  BY <1>3 DEF Received, Active
<1>8. QED BY <1>2, <1>4, <1>6, <1>7, LogEventsKeeps
\* A denial is logged and ends the run.
LEMMA DeniedKeeps ==
  ASSUME IInv, NEW p \in Proc, Policy(p), proc[p].req.denied
  PROVE  IInv'
<1>1. proc[p] \in RunRecord /\ RunOK(proc[p]) /\ proc[p].pc = "policy"
  BY DEF IInv, Types, Progress, Policy
<1>2. /\ proc[p].req \in Request
      /\ proc[p].prev = << <<"COMMAND_RECEIVED", proc[p].req.target>>, <<"FETCH", None>> >>
  BY <1>1 DEF RunRecord, RunOK, Past
<1>3. EventsAt(p) = << <<"POLICY_EVALUATED", "deny">> >>
  BY <1>1 DEF EventsAt, Policy
<1>4. PICK r : r = [proc[p] EXCEPT !.pc = "denied", !.prev = @ \o EventsAt(p)]
  OBVIOUS
<1>5. /\ r.pc = "denied" /\ r.req = proc[p].req /\ r.sid = proc[p].sid
      /\ r.hit = proc[p].hit /\ r.filling = proc[p].filling
      /\ r.prev = << <<"COMMAND_RECEIVED", proc[p].req.target>>, <<"FETCH", None>>,
                     <<"POLICY_EVALUATED", "deny">> >>
  <2>1. r.prev = proc[p].prev \o EventsAt(p)
    BY <1>1, <1>4 DEF RunRecord
  <2>2. proc[p].prev \o EventsAt(p) =
          << <<"COMMAND_RECEIVED", proc[p].req.target>>, <<"FETCH", None>>,
             <<"POLICY_EVALUATED", "deny">> >>
    BY <1>2, <1>3, TwoAndOne
  <2>3. QED BY <1>1, <1>4, <2>1, <2>2 DEF RunRecord
<1>6. RunOK(r)
  BY <1>1, <1>5 DEF RunOK, Past, AfterWrite, Policy
<1>7. LogEvents(p, "denied") /\ "denied" \in Active \union Ended /\ EventsAt(p) # << >>
  BY <1>3 DEF Policy, Active, Ended
<1>8. QED BY <1>2, <1>4, <1>6, <1>7, LogEventsKeeps

\* Permission is logged and the run goes on.
LEMMA AllowedKeeps ==
  ASSUME IInv, NEW p \in Proc, Policy(p), ~proc[p].req.denied
  PROVE  IInv'
<1>1. proc[p] \in RunRecord /\ RunOK(proc[p]) /\ proc[p].pc = "policy"
  BY DEF IInv, Types, Progress, Policy
<1>2. /\ proc[p].req \in Request
      /\ proc[p].prev = << <<"COMMAND_RECEIVED", proc[p].req.target>>, <<"FETCH", None>> >>
  BY <1>1 DEF RunRecord, RunOK, Past
<1>3. EventsAt(p) = << <<"POLICY_EVALUATED", "allow">> >>
  BY <1>1 DEF EventsAt, Policy
<1>4. PICK r : r = [proc[p] EXCEPT !.pc = "features", !.prev = @ \o EventsAt(p)]
  OBVIOUS
<1>5. /\ r.pc = "features" /\ r.req = proc[p].req /\ r.sid = proc[p].sid
      /\ r.hit = proc[p].hit /\ r.filling = proc[p].filling
      /\ r.prev = << <<"COMMAND_RECEIVED", proc[p].req.target>>, <<"FETCH", None>>,
                     <<"POLICY_EVALUATED", "allow">> >>
  <2>1. r.prev = proc[p].prev \o EventsAt(p)
    BY <1>1, <1>4 DEF RunRecord
  <2>2. proc[p].prev \o EventsAt(p) =
          << <<"COMMAND_RECEIVED", proc[p].req.target>>, <<"FETCH", None>>,
             <<"POLICY_EVALUATED", "allow">> >>
    BY <1>2, <1>3, TwoAndOne
  <2>3. QED BY <1>1, <1>4, <2>1, <2>2 DEF RunRecord
<1>6. RunOK(r)
  BY <1>1, <1>5 DEF RunOK, Past, AfterWrite, Policy
<1>7. LogEvents(p, "features") /\ "features" \in Active \union Ended /\ EventsAt(p) # << >>
  BY <1>3 DEF Policy, Active, Ended
<1>8. QED BY <1>2, <1>4, <1>6, <1>7, LogEventsKeeps

\* The features can be computed.
LEMMA FeaturesKeeps ==
  ASSUME IInv, NEW p \in Proc, Features(p)
  PROVE  IInv'
<1>1. proc[p] \in RunRecord /\ RunOK(proc[p]) /\ proc[p].pc = "features"
  BY DEF IInv, Types, Progress, Features
<1>2. /\ proc[p].req \in Request
      /\ proc[p].prev = << <<"COMMAND_RECEIVED", proc[p].req.target>>, <<"FETCH", None>>,
                            <<"POLICY_EVALUATED", "allow">> >>
  BY <1>1 DEF RunRecord, RunOK, Past
<1>3. EventsAt(p) = << <<"FEATURE_EXTRACT", None>> >>
  BY <1>1 DEF EventsAt, Features
<1>4. PICK r : r = [proc[p] EXCEPT !.pc = "lookup", !.prev = @ \o EventsAt(p)]
  OBVIOUS
<1>5. /\ r.pc = "lookup" /\ r.req = proc[p].req /\ r.sid = proc[p].sid
      /\ r.hit = proc[p].hit /\ r.filling = proc[p].filling
      /\ r.prev = << <<"COMMAND_RECEIVED", proc[p].req.target>>, <<"FETCH", None>>,
                     <<"POLICY_EVALUATED", "allow">>, <<"FEATURE_EXTRACT", None>> >>
  <2>1. r.prev = proc[p].prev \o EventsAt(p)
    BY <1>1, <1>4 DEF RunRecord
  <2>2. proc[p].prev \o EventsAt(p) =
          << <<"COMMAND_RECEIVED", proc[p].req.target>>, <<"FETCH", None>>,
             <<"POLICY_EVALUATED", "allow">>, <<"FEATURE_EXTRACT", None>> >>
    BY <1>2, <1>3, ThreeAndOne
  <2>3. QED BY <1>1, <1>4, <2>1, <2>2 DEF RunRecord
<1>6. RunOK(r)
  BY <1>1, <1>5 DEF RunOK, Past, AfterWrite, Features
<1>7. LogEvents(p, "lookup") /\ "lookup" \in Active \union Ended /\ EventsAt(p) # << >>
  BY <1>3 DEF Features, Active, Ended
<1>8. QED BY <1>2, <1>4, <1>6, <1>7, LogEventsKeeps

\* The outcome of the lookup is logged: a hit.
LEMMA CacheHitKeeps ==
  ASSUME IInv, NEW p \in Proc, Cached(p), proc[p].hit
  PROVE  IInv'
<1>1. proc[p] \in RunRecord /\ RunOK(proc[p]) /\ proc[p].pc = "cached"
  BY DEF IInv, Types, Progress, Cached
<1>2. /\ proc[p].req \in Request
      /\ proc[p].prev = << <<"COMMAND_RECEIVED", proc[p].req.target>>, <<"FETCH", None>>,
                            <<"POLICY_EVALUATED", "allow">>, <<"FEATURE_EXTRACT", None>> >>
  BY <1>1 DEF RunRecord, RunOK, Past
<1>3. EventsAt(p) = << <<IF proc[p].hit THEN "CACHE_HIT" ELSE "CACHE_MISS", None>> >>
  BY <1>1 DEF EventsAt, Cached
<1>4. PICK r : r = [proc[p] EXCEPT !.pc = "emit", !.prev = @ \o EventsAt(p)]
  OBVIOUS
<1>5. /\ r.pc = "emit" /\ r.req = proc[p].req /\ r.sid = proc[p].sid
      /\ r.hit = proc[p].hit /\ r.filling = proc[p].filling
      /\ r.prev = << <<"COMMAND_RECEIVED", proc[p].req.target>>, <<"FETCH", None>>,
                     <<"POLICY_EVALUATED", "allow">>, <<"FEATURE_EXTRACT", None>>,
                     <<IF proc[p].hit THEN "CACHE_HIT" ELSE "CACHE_MISS", None>> >>
  <2>1. r.prev = proc[p].prev \o EventsAt(p)
    BY <1>1, <1>4 DEF RunRecord
  <2>2. proc[p].prev \o EventsAt(p) =
          << <<"COMMAND_RECEIVED", proc[p].req.target>>, <<"FETCH", None>>,
             <<"POLICY_EVALUATED", "allow">>, <<"FEATURE_EXTRACT", None>>,
             <<IF proc[p].hit THEN "CACHE_HIT" ELSE "CACHE_MISS", None>> >>
    BY <1>2, <1>3, FourAndOne
  <2>3. QED BY <1>1, <1>4, <2>1, <2>2 DEF RunRecord
<1>6. RunOK(r)
  BY <1>1, <1>5 DEF RunOK, Past, AfterWrite, Cached
<1>7. LogEvents(p, "emit") /\ "emit" \in Active \union Ended /\ EventsAt(p) # << >>
  BY <1>3 DEF Cached, Active, Ended
<1>8. QED BY <1>2, <1>4, <1>6, <1>7, LogEventsKeeps

\* The outcome of the lookup is logged: a miss.
LEMMA CacheMissKeeps ==
  ASSUME IInv, NEW p \in Proc, Cached(p), ~proc[p].hit
  PROVE  IInv'
<1>1. proc[p] \in RunRecord /\ RunOK(proc[p]) /\ proc[p].pc = "cached"
  BY DEF IInv, Types, Progress, Cached
<1>2. /\ proc[p].req \in Request
      /\ proc[p].prev = << <<"COMMAND_RECEIVED", proc[p].req.target>>, <<"FETCH", None>>,
                            <<"POLICY_EVALUATED", "allow">>, <<"FEATURE_EXTRACT", None>> >>
  BY <1>1 DEF RunRecord, RunOK, Past
<1>3. EventsAt(p) = << <<IF proc[p].hit THEN "CACHE_HIT" ELSE "CACHE_MISS", None>> >>
  BY <1>1 DEF EventsAt, Cached
<1>4. PICK r : r = [proc[p] EXCEPT !.pc = "store", !.prev = @ \o EventsAt(p)]
  OBVIOUS
<1>5. /\ r.pc = "store" /\ r.req = proc[p].req /\ r.sid = proc[p].sid
      /\ r.hit = proc[p].hit /\ r.filling = proc[p].filling
      /\ r.prev = << <<"COMMAND_RECEIVED", proc[p].req.target>>, <<"FETCH", None>>,
                     <<"POLICY_EVALUATED", "allow">>, <<"FEATURE_EXTRACT", None>>,
                     <<IF proc[p].hit THEN "CACHE_HIT" ELSE "CACHE_MISS", None>> >>
  <2>1. r.prev = proc[p].prev \o EventsAt(p)
    BY <1>1, <1>4 DEF RunRecord
  <2>2. proc[p].prev \o EventsAt(p) =
          << <<"COMMAND_RECEIVED", proc[p].req.target>>, <<"FETCH", None>>,
             <<"POLICY_EVALUATED", "allow">>, <<"FEATURE_EXTRACT", None>>,
             <<IF proc[p].hit THEN "CACHE_HIT" ELSE "CACHE_MISS", None>> >>
    BY <1>2, <1>3, FourAndOne
  <2>3. QED BY <1>1, <1>4, <2>1, <2>2 DEF RunRecord
<1>6. RunOK(r)
  BY <1>1, <1>5 DEF RunOK, Past, AfterWrite, Cached
<1>7. LogEvents(p, "store") /\ "store" \in Active \union Ended /\ EventsAt(p) # << >>
  BY <1>3 DEF Cached, Active, Ended
<1>8. QED BY <1>2, <1>4, <1>6, <1>7, LogEventsKeeps

\* The last three events; the head is that of the sealed history.
LEMMA EmitKeeps ==
  ASSUME IInv, NEW p \in Proc, Emit(p)
  PROVE  IInv'
<1>1. proc[p] \in RunRecord /\ RunOK(proc[p]) /\ proc[p].pc = "emit"
  BY DEF IInv, Types, Progress, Emit
<1>2. /\ proc[p].req \in Request
      /\ proc[p].prev = << <<"COMMAND_RECEIVED", proc[p].req.target>>, <<"FETCH", None>>,
                            <<"POLICY_EVALUATED", "allow">>, <<"FEATURE_EXTRACT", None>>,
                            <<IF proc[p].hit THEN "CACHE_HIT" ELSE "CACHE_MISS", None>> >>
  BY <1>1 DEF RunRecord, RunOK, Past
<1>3. EventsAt(p) = << <<"ROUTE", None>>, <<"SEAL_EMIT", proc[p].req.values>>,
                       <<"VERIFY", None>> >>
  BY <1>1 DEF EventsAt
<1>4. PICK r : r = [proc[p] EXCEPT !.pc = "seals", !.prev = @ \o EventsAt(p)]
  OBVIOUS
<1>5. /\ r.pc = "seals" /\ r.req = proc[p].req /\ r.sid = proc[p].sid
      /\ r.hit = proc[p].hit /\ r.filling = proc[p].filling
      /\ r.prev = << <<"COMMAND_RECEIVED", proc[p].req.target>>, <<"FETCH", None>>,
                     <<"POLICY_EVALUATED", "allow">>, <<"FEATURE_EXTRACT", None>>,
                     <<IF proc[p].hit THEN "CACHE_HIT" ELSE "CACHE_MISS", None>>,
                     <<"ROUTE", None>>, <<"SEAL_EMIT", proc[p].req.values>>,
                     <<"VERIFY", None>> >>
  <2>1. r.prev = proc[p].prev \o EventsAt(p)
    BY <1>1, <1>4 DEF RunRecord
  <2>2. proc[p].prev \o EventsAt(p) =
          << <<"COMMAND_RECEIVED", proc[p].req.target>>, <<"FETCH", None>>,
             <<"POLICY_EVALUATED", "allow">>, <<"FEATURE_EXTRACT", None>>,
             <<IF proc[p].hit THEN "CACHE_HIT" ELSE "CACHE_MISS", None>>,
             <<"ROUTE", None>>, <<"SEAL_EMIT", proc[p].req.values>>,
             <<"VERIFY", None>> >>
    BY <1>2, <1>3, FiveAndThree
  <2>3. QED BY <1>1, <1>4, <2>1, <2>2 DEF RunRecord
<1>6. RunOK(r)
  BY <1>1, <1>5 DEF RunOK, Past, AfterWrite, SealedHistory
<1>7. LogEvents(p, "seals") /\ "seals" \in Active \union Ended /\ EventsAt(p) # << >>
  BY <1>3 DEF Emit, Active, Ended
<1>8. QED BY <1>2, <1>4, <1>6, <1>7, LogEventsKeeps
-----------------------------------------------------------------------------
(* The steps that do not log *)

\* The exception leaves log and files as they are.
LEMMA FeaturesRaiseKeeps ==
  ASSUME IInv, NEW p \in Proc, FeaturesRaise(p)
  PROVE  IInv'
<1>1. proc[p] \in RunRecord /\ RunOK(proc[p]) /\ proc[p].pc = "features"
  BY DEF IInv, Types, Progress, FeaturesRaise
<1>2. PICK r : r = [proc[p] EXCEPT !.pc = "raised"]
  OBVIOUS
<1>3. /\ r \in RunRecord
      /\ r.pc = "raised" /\ r.prev = proc[p].prev /\ r.req = proc[p].req
      /\ r.sid = proc[p].sid /\ r.hit = proc[p].hit /\ r.filling = proc[p].filling
  BY <1>1, <1>2 DEF RunRecord, Ended
<1>4. RunOK(r)
  BY <1>1, <1>3 DEF RunOK, Past, AfterWrite
<1>5. proc' = [proc EXCEPT ![p] = r] /\ UNCHANGED <<audit, disk, runs>>
  BY <1>2 DEF FeaturesRaise
<1>6. DOMAIN disk' = Paths /\ runs' \in 0..MaxRuns
  BY <1>5 DEF IInv, Types
<1>7. QED BY <1>3, <1>4, <1>5, <1>6, MoveKeeps

\* The lookup only notes its outcome.
LEMMA LookupKeeps ==
  ASSUME IInv, NEW p \in Proc, Lookup(p)
  PROVE  IInv'
<1>1. proc[p] \in RunRecord /\ RunOK(proc[p]) /\ proc[p].pc = "lookup"
  BY DEF IInv, Types, Progress, Lookup
<1>2. PICK hit \in BOOLEAN :
        proc' = [proc EXCEPT ![p].pc = "cached", ![p].hit = hit]
  BY DEF Lookup
<1>3. PICK r : r = [proc[p] EXCEPT !.pc = "cached", !.hit = hit]
  OBVIOUS
<1>4. /\ r \in RunRecord
      /\ r.pc = "cached" /\ r.prev = proc[p].prev /\ r.req = proc[p].req
      /\ r.sid = proc[p].sid /\ r.filling = proc[p].filling
  BY <1>1, <1>3 DEF RunRecord, Active
<1>5. RunOK(r)
  BY <1>1, <1>4 DEF RunOK, Past, AfterWrite
<1>6. proc' = [proc EXCEPT ![p] = r] /\ UNCHANGED <<audit, disk, runs>>
  BY <1>2, <1>3 DEF Lookup
<1>7. DOMAIN disk' = Paths /\ runs' \in 0..MaxRuns
  BY <1>6 DEF IInv, Types
<1>8. QED BY <1>4, <1>5, <1>6, <1>7, MoveKeeps

\* A file that is opened cannot be read.
LEMMA OpenFileKeeps ==
  ASSUME IInv, NEW p \in Proc, OpenFile(p)
  PROVE  IInv'
<1>1. proc[p] \in RunRecord /\ RunOK(proc[p]) /\ proc[p].pc \in DOMAIN AfterWrite
  BY DEF IInv, Types, Progress, OpenFile, Writing
<1>2. PICK r : r = [proc[p] EXCEPT !.filling = TRUE]
  OBVIOUS
<1>3. /\ r \in RunRecord
      /\ r.pc = proc[p].pc /\ r.prev = proc[p].prev /\ r.req = proc[p].req
      /\ r.sid = proc[p].sid /\ r.hit = proc[p].hit
  BY <1>1, <1>2 DEF RunRecord
<1>4. RunOK(r)
  BY <1>1, <1>3 DEF RunOK
<1>5. /\ proc' = [proc EXCEPT ![p] = r] /\ UNCHANGED <<audit, runs>>
      /\ disk' = [disk EXCEPT ![FileWritten(p)] = Torn]
  BY <1>2 DEF OpenFile
<1>6. DOMAIN disk' = Paths /\ runs' \in 0..MaxRuns
  BY <1>5 DEF IInv, Types
<1>7. ASSUME NEW path \in Paths, Whole(path)' PROVE disk'[path] = disk[path]
  BY <1>5, <1>7 DEF Whole, IInv, Types
<1>8. QED BY <1>3, <1>4, <1>5, <1>6, <1>7, MoveKeeps

\* What a run writes it is the author of: at each of these steps it has logged
\* all it is going to, and the config did not raise.
LEMMA ContentAuthored ==
  ASSUME IInv, NEW p \in Proc, Writing(p)
  PROVE  \E req \in Request, hit \in BOOLEAN, sid \in 1..MaxRuns :
           /\ ~ExtractRaises(req.values, req.config)
           /\ Authored(FileWritten(p), Content(p), req, hit, sid)
<1>1. proc[p] \in RunRecord /\ RunOK(proc[p])
  BY DEF IInv, Types, Progress
<1>2. proc[p].pc \in {"store", "seals", "c2pa_stub", "reports"}
  BY DEF Writing, AfterWrite
<1>3. PICK req \in Request, hit \in BOOLEAN, sid \in 1..MaxRuns :
        req = proc[p].req /\ hit = proc[p].hit /\ sid = proc[p].sid
  BY <1>1, <1>2 DEF RunRecord, RunOK
<1>4. ~ExtractRaises(req.values, req.config)
  BY <1>1, <1>2, <1>3 DEF RunOK
<1>5. Authored(FileWritten(p), Content(p), req, hit, sid)
  <2>1. CASE proc[p].pc = "store"
    <3>1. FileWritten(p) = CachePath(req) /\ Content(p) = CacheEntry(req)
      BY <1>3, <2>1 DEF FileWritten, Content
    <3>2. QED BY <3>1 DEF Authored
  <2>2. CASE proc[p].pc # "store"
    <3>1. proc[p].prev = SealedHistory(req, hit)
      BY <1>1, <1>2, <1>3, <2>2 DEF RunOK, Past
    <3>2. SealedHistory(req, hit) # << >>
      BY DEF SealedHistory
    <3>3. req.run \in RunIds
      BY RequestWords
    <3>4. SealedHistory(req, hit) \in Logged(req.run)
      BY <1>3, <3>1, <3>2, <3>3 DEF IInv, HeadsLogged
    <3>5. CASE proc[p].pc = "seals"
      <4>1. FileWritten(p) = SealPath(req) /\ Content(p) = SealFor(req, SealedHistory(req, hit), sid)
        BY <1>3, <3>1, <3>5 DEF FileWritten, Content, SealOf
      <4>2. QED BY <3>4, <4>1 DEF Authored
    <3>6. CASE proc[p].pc = "c2pa_stub"
      <4>1. FileWritten(p) = StubPath(req) /\ Content(p) = SealFor(req, SealedHistory(req, hit), sid)
        BY <1>3, <3>1, <3>6 DEF FileWritten, Content, SealOf
      <4>2. QED BY <3>4, <4>1 DEF Authored
    <3>7. CASE proc[p].pc = "reports"
      <4>1. /\ FileWritten(p) = ReportPath(req)
            /\ Content(p) = ReportFor(req, SealedHistory(req, hit), sid, hit)
        BY <1>3, <3>1, <3>7 DEF FileWritten, Content, ReportOf
      <4>2. QED BY <3>4, <4>1 DEF Authored
    <3>8. QED BY <1>2, <2>2, <3>5, <3>6, <3>7
  <2>3. QED BY <2>1, <2>2
<1>6. QED BY <1>4, <1>5

\* A file that was filled has its author's text, or cannot be read.
LEMMA FillFileKeeps ==
  ASSUME IInv, NEW p \in Proc, FillFile(p)
  PROVE  IInv'
<1>1. proc[p] \in RunRecord /\ RunOK(proc[p])
      /\ proc[p].pc \in {"store", "seals", "c2pa_stub", "reports"}
  BY DEF IInv, Types, Progress, FillFile, Writing, AfterWrite
<1>2. PICK r : r = [proc[p] EXCEPT !.pc = AfterWrite[@], !.filling = FALSE]
  OBVIOUS
<1>3. /\ r.pc = AfterWrite[proc[p].pc] /\ r.filling = FALSE
      /\ r.prev = proc[p].prev /\ r.req = proc[p].req
      /\ r.sid = proc[p].sid /\ r.hit = proc[p].hit
      /\ AfterWrite[proc[p].pc] \in Active \union Ended => r \in RunRecord
  BY <1>1, <1>2 DEF RunRecord
<1>4. r \in RunRecord /\ RunOK(r)
  <2>1. CASE proc[p].pc = "store"
    <3>1. AfterWrite[proc[p].pc] = "emit"
      BY <2>1 DEF AfterWrite
    <3>2. QED BY <1>1, <1>3, <2>1, <3>1 DEF RunOK, Past, Active
  <2>2. CASE proc[p].pc = "seals"
    <3>1. AfterWrite[proc[p].pc] = "c2pa_stub"
      BY <2>2 DEF AfterWrite
    <3>2. QED BY <1>1, <1>3, <2>2, <3>1 DEF RunOK, Past, Active
  <2>3. CASE proc[p].pc = "c2pa_stub"
    <3>1. AfterWrite[proc[p].pc] = "reports"
      BY <2>3 DEF AfterWrite
    <3>2. QED BY <1>1, <1>3, <2>3, <3>1 DEF RunOK, Past, Active
  <2>4. CASE proc[p].pc = "reports"
    <3>1. AfterWrite[proc[p].pc] = "done"
      BY <2>4 DEF AfterWrite
    <3>2. QED BY <1>1, <1>3, <2>4, <3>1 DEF RunOK, Past, Ended
  <2>5. QED BY <1>1, <2>1, <2>2, <2>3, <2>4
<1>5. proc' = [proc EXCEPT ![p] = r] /\ UNCHANGED <<audit, runs>>
  BY <1>2 DEF FillFile
<1>6. PICK text \in {Content(p), Torn} : disk' = [disk EXCEPT ![FileWritten(p)] = text]
  BY DEF FillFile
<1>7. DOMAIN disk' = Paths /\ runs' \in 0..MaxRuns
  BY <1>5, <1>6 DEF IInv, Types
<1>8. ASSUME NEW path \in Paths, Whole(path)', disk'[path] # disk[path]
      PROVE  path = FileWritten(p) /\ disk'[path] = Content(p)
  BY <1>6, <1>8 DEF Whole, IInv, Types
<1>9. \E req \in Request, hit \in BOOLEAN, sid \in 1..MaxRuns :
        /\ ~ExtractRaises(req.values, req.config)
        /\ Authored(FileWritten(p), Content(p), req, hit, sid)
  BY ContentAuthored DEF FillFile
<1>10. QED BY <1>3, <1>4, <1>5, <1>7, <1>8, <1>9, MoveKeeps

-----------------------------------------------------------------------------
(* The invariant and what follows from it *)

\* Nothing has happened at the beginning.
LEMMA InitIInv == Init => IInv
<1> SUFFICES ASSUME Init PROVE IInv
  OBVIOUS
<1>1. Idle \in RunRecord /\ RunOK(Idle) /\ Idle.prev = << >>
  BY BoundAssumption DEF Idle, RunRecord, RunOK, Ended, Genesis, Past
<1>2. Types
  <2>1. << >> \in Seq(LoggedLine) /\ \A i \in 1..(Len(<< >>) - 1) : FALSE
    OBVIOUS
  <2>2. << >> \in LogFile
    BY <2>1 DEF LogFile
  <2>3. QED BY <1>1, <2>2, BoundAssumption DEF Init, Types
<1>3. Progress /\ HeadsLogged
  BY <1>1 DEF Init, Progress, HeadsLogged
<1>4. FilesAuthored
  BY DEF Init, FilesAuthored, Whole
<1>5. QED BY <1>2, <1>3, <1>4 DEF IInv

\* Every step keeps the invariant, one lemma for each action.
LEMMA NextIInv == IInv /\ [Next]_vars => IInv'
<1> SUFFICES ASSUME IInv, [Next]_vars PROVE IInv'
  OBVIOUS
<1>1. CASE UNCHANGED vars
  BY <1>1 DEF vars, IInv, Types, Progress, HeadsLogged, FilesAuthored, Authored, Logged, Closed, Whole
<1>2. ASSUME NEW p \in Proc, NEW req \in Request, Start(p, req) PROVE IInv'
  BY <1>2, StartKeeps
<1>3. ASSUME NEW p \in Proc, Step(p) PROVE IInv'
  <2>1. CASE Received(p)
    BY <2>1, ReceivedKeeps
  <2>2. CASE Policy(p)
    BY <2>2, DeniedKeeps, AllowedKeeps
  <2>3. CASE Features(p)
    BY <2>3, FeaturesKeeps
  <2>4. CASE FeaturesRaise(p)
    BY <2>4, FeaturesRaiseKeeps
  <2>5. CASE Lookup(p)
    BY <2>5, LookupKeeps
  <2>6. CASE Cached(p)
    BY <2>6, CacheHitKeeps, CacheMissKeeps
  <2>7. CASE Emit(p)
    BY <2>7, EmitKeeps
  <2>8. CASE OpenFile(p)
    BY <2>8, OpenFileKeeps
  <2>9. CASE FillFile(p)
    BY <2>9, FillFileKeeps
  <2>10. QED BY <1>3, <2>1, <2>2, <2>3, <2>4, <2>5, <2>6, <2>7, <2>8, <2>9 DEF Step
<1>4. ASSUME NEW p \in Proc, Crash(p) PROVE IInv'
  BY <1>4, CrashKeeps
<1>5. QED BY <1>1, <1>2, <1>3, <1>4 DEF Next

\* Runs are where their steps took them, the heads they hold are in the log, and
\* what can be read was written by a run that had logged it.
THEOREM Invariant == Spec => []IInv
BY InitIInv, NextIInv, PTL DEF Spec

\* The invariant has the types that the run checks.
LEMMA TypeFollows == IInv => TypeOK
<1> SUFFICES ASSUME IInv PROVE TypeOK
  OBVIOUS
<1>1. ASSUME NEW p \in Proc
      PROVE  /\ proc[p].pc \in Active \union Ended
             /\ proc[p].pc = "idle" <=> proc[p].req = None
             /\ proc[p].pc # "idle" => proc[p].req \in Request
             /\ proc[p].filling => Writing(p)
  BY DEF IInv, Types, Progress, RunRecord, RunOK, Writing
<1>2. ASSUME NEW run \in RunIds, NEW i \in 1..(Len(audit[run]) - 1) PROVE audit[run][i].eol
  BY DEF IInv, Types, LogFile
<1>3. QED BY <1>1, <1>2 DEF TypeOK, IInv, Types

\* Every variable has its type, a process has a file open only at a step that writes
\* one, and in a log only the last line may lack its newline: however many runs,
\* whatever they are asked, and wherever they die, in the middle of a line too.
THEOREM TypeCorrect == Spec => []TypeOK
BY TypeFollows, Invariant, PTL

\* Where an entry of the cache lies it was computed from this artifact; with the
\* config hash compared as well, a hit is on the features that were asked for.
THEOREM CacheSound == Spec => []CacheHitSound
<1>1. IInv => CacheHitSound
  <2> SUFFICES ASSUME IInv, NEW req \in Request,
                      CacheReason(disk[CachePath(req)], req) = "hit"
               PROVE  disk[CachePath(req)] = CacheEntry(req)
    BY DEF CacheHitSound
  <2> DEFINE path == CachePath(req)
  <2>1. disk[path] \notin {Absent, Torn} /\ disk[path].cvh = req.config
    BY DEF CacheReason
  <2>2. path \in Paths /\ Whole(path)
    BY <2>1, RequestWords DEF Whole
  <2>3. PICK author \in Request, hit \in BOOLEAN, sid \in 1..MaxRuns :
          Authored(path, disk[path], author, hit, sid)
    BY <2>2 DEF IInv, FilesAuthored
  <2>4. path = CachePath(author) /\ disk[path] = CacheEntry(author)
    BY <2>3 DEF Authored, CachePath, SealPath, StubPath, ReportPath
  <2>5. author.values = req.values
    BY <2>4 DEF CachePath
  <2>6. author.config = req.config
    BY <2>1, <2>4 DEF CacheEntry
  <2>7. QED BY <2>4, <2>5, <2>6 DEF CacheEntry
<1>2. QED BY <1>1, Invariant, PTL

\* policy_version, which SealConfig adds, is nothing that features depend on.
LEMMA SealConfigSamplesAlike ==
  ASSUME NEW req \in Request
  PROVE  ExtractRaises(req.values, SealConfig(req)) = ExtractRaises(req.values, req.config)
BY RequestAssumption DEF ExtractRaises, SealConfig

\* A seal a run creates verifies against its artifact.
LEMMA SealVerifies ==
  ASSUME NEW req \in Request, NEW hit \in BOOLEAN, NEW sid \in 1..MaxRuns,
         ~ExtractRaises(req.values, req.config)
  PROVE  LET seal == SealFor(req, SealedHistory(req, hit), sid)
         IN  /\ VerifySeal(req.values, seal, None) = None
             /\ VerifySeal(req.values, seal, seal.head) = None
<1> DEFINE seal == SealFor(req, SealedHistory(req, hit), sid)
<1>1. seal.config = SealConfig(req) /\ seal.schema = "v1"
  BY DEF SealFor, CreateSeal, Payload
<1>2. seal.config # None /\ ~ExtractRaises(req.values, seal.config)
  BY <1>1, RequestAssumption, SealConfigSamplesAlike
<1>3. seal.epw # None
  BY TextAssumption
<1>4. seal.epw = EpwOf(Payload(req.values, seal), seal.issued)
  BY PayloadRecomputed DEF SealFor
<1>5. seal.head # Broken /\ seal.head = SealedHistory(req, hit)
  BY ZenonT(40), TextAssumption DEF SealFor, CreateSeal, Payload
<1> HIDE DEF seal
<1>6. AuditReason(seal, None) = None /\ AuditReason(seal, seal.head) = None
  BY <1>5 DEF AuditReason
<1>7. /\ seal.schema \in {None, "v1"}
      /\ ~(seal.epw # EpwOf(Payload(req.values, seal), seal.issued))
  BY <1>1, <1>4
<1>8. VerifySeal(req.values, seal, None) = None
  BY <1>2, <1>3, <1>6, <1>7 DEF VerifySeal
<1>9. VerifySeal(req.values, seal, seal.head) = None
  BY <1>2, <1>3, <1>6, <1>7 DEF VerifySeal
<1>10. QED BY <1>8, <1>9 DEF seal

\* What is known of a seal, a stub or a report that can be read: which run wrote
\* it, and that its history was logged.
LEMMA EvidenceAuthored ==
  ASSUME IInv, NEW path \in Paths, Whole(path), path[1] \in {"seals", "c2pa_stub", "reports"}
  PROVE  \E req \in Request, hit \in BOOLEAN, sid \in 1..MaxRuns :
           /\ ~ExtractRaises(req.values, req.config)
           /\ SealedHistory(req, hit) \in Logged(req.run) /\ req.run \in RunIds
           /\ \/ /\ path[1] \in {"seals", "c2pa_stub"} /\ path[2] = req.values
                 /\ disk[path] = SealFor(req, SealedHistory(req, hit), sid)
              \/ /\ path = <<"reports", req.run>>
                 /\ disk[path] = ReportFor(req, SealedHistory(req, hit), sid, hit)
<1>1. PICK req \in Request, hit \in BOOLEAN, sid \in 1..MaxRuns :
        /\ ~ExtractRaises(req.values, req.config)
        /\ Authored(path, disk[path], req, hit, sid)
  BY DEF IInv, FilesAuthored
<1>2. path # CachePath(req)
  BY DEF CachePath
<1>3. req.run \in RunIds
  BY RequestWords
<1>4. QED BY <1>1, <1>2, <1>3 DEF Authored, SealPath, StubPath, ReportPath

\* The history that is sealed, read event by event.
LEMMA SealedHistoryFacts ==
  ASSUME NEW req, NEW hit \in BOOLEAN
  PROVE  LET head == SealedHistory(req, hit)
         IN  /\ Len(head) = 8 /\ head[8] = <<"VERIFY", None>>
             /\ {<<"POLICY_EVALUATED", "allow">>, <<"SEAL_EMIT", req.values>>}
                  \subseteq Events(head)
             /\ hit <=> <<"CACHE_HIT", None>> \in Events(head)
<1> DEFINE head == SealedHistory(req, hit)
<1>1. /\ Len(head) = 8
      /\ head[1] = <<"COMMAND_RECEIVED", req.target>> /\ head[2] = <<"FETCH", None>>
      /\ head[3] = <<"POLICY_EVALUATED", "allow">> /\ head[4] = <<"FEATURE_EXTRACT", None>>
      /\ head[5] = <<IF hit THEN "CACHE_HIT" ELSE "CACHE_MISS", None>>
      /\ head[6] = <<"ROUTE", None>> /\ head[7] = <<"SEAL_EMIT", req.values>>
      /\ head[8] = <<"VERIFY", None>>
  BY DEF SealedHistory
<1> HIDE DEF head
<1>2. {<<"POLICY_EVALUATED", "allow">>, <<"SEAL_EMIT", req.values>>} \subseteq Events(head)
  <2>1. 3 \in 1..Len(head) /\ 7 \in 1..Len(head)
    BY <1>1
  <2>2. QED BY <1>1, <2>1 DEF Events
<1>3. ASSUME hit PROVE <<"CACHE_HIT", None>> \in Events(head)
  <2>1. 5 \in 1..Len(head)
    BY <1>1
  <2>2. QED BY <1>1, <1>3, <2>1 DEF Events
<1>4. ASSUME <<"CACHE_HIT", None>> \in Events(head) PROVE hit
  <2>1. PICK i \in 1..8 : head[i] = <<"CACHE_HIT", None>>
    BY <1>1, <1>4 DEF Events
  <2>2. i = 1 \/ i = 2 \/ i = 3 \/ i = 4 \/ i = 5 \/ i = 6 \/ i = 7 \/ i = 8
    OBVIOUS
  <2>3. head[i][1] = "CACHE_HIT"
    BY <2>1
  <2>4. i = 5
    BY <1>1, <2>2, <2>3
  <2>5. QED BY <1>1, <2>3, <2>4
<1>5. QED BY <1>1, <1>2, <1>3, <1>4 DEF head

\* A seal file that can be read verifies against the artifact it is filed under,
\* whatever runs overlapped, were denied, raised or died.
THEOREM SealsVerify == Spec => []StoredSealsVerify
<1>1. IInv => StoredSealsVerify
  <2> SUFFICES ASSUME IInv, NEW path \in Paths,
                      path[1] \in {"seals", "c2pa_stub"}, Whole(path)
               PROVE  VerifySeal(path[2], disk[path], None) = None
    BY DEF StoredSealsVerify
  <2>1. PICK req \in Request, hit \in BOOLEAN, sid \in 1..MaxRuns :
          /\ ~ExtractRaises(req.values, req.config)
          /\ path[2] = req.values
          /\ disk[path] = SealFor(req, SealedHistory(req, hit), sid)
    BY EvidenceAuthored
  <2>2. VerifySeal(req.values, SealFor(req, SealedHistory(req, hit), sid), None) = None
    BY <2>1, SealVerifies
  <2>3. QED BY <2>1, <2>2
<1>2. QED BY <1>1, Invariant, PTL

\* A seal, and what its hash stands for, have the head the seal was made for.
LEMMA SealForHead ==
  ASSUME NEW req, NEW head, NEW sid
  PROVE  SealFor(req, head, sid).head = head /\ SealFor(req, head, sid).epw.head = head
<1> DEFINE given == [config |-> SealConfig(req), head |-> head,
                     resonance |-> ComputeResonance(req.values, req.config),
                     routing |-> None, sandbox |-> None, digest |-> None,
                     cvh |-> SealConfig(req)]
           payload == Payload(req.values, given)
<1>1. payload.head = head
  BY DEF Payload
<1> HIDE DEF payload
<1>2. SealFor(req, head, sid).head = payload.head /\ SealFor(req, head, sid).epw = payload
  BY DEF SealFor, CreateSeal, EpwOf, payload
<1>3. QED BY <1>1, <1>2

-----------------------------------------------------------------------------
(* The runs implement Evidence *)

\* A history that continues another by one event, without that event.
LEMMA Predecessor ==
  ASSUME NEW s \in Seq(Event), NEW e \in Event
  PROVE  /\ Append(s, e) # << >> /\ Len(Append(s, e)) = Len(s) + 1
         /\ SubSeq(Append(s, e), 1, Len(Append(s, e)) - 1) = s
<1> DEFINE t == Append(s, e)
<1>1. /\ t \in Seq(Event) /\ Len(t) = Len(s) + 1 /\ Len(s) \in Nat
      /\ \A i \in 1..Len(s) : t[i] = s[i]
  BY AppendProperties
<1> HIDE DEF t
<1>2. Len(t) - 1 \in 0..Len(t) /\ Len(t) - 1 = Len(s)
  BY <1>1
<1>3. /\ SubSeq(t, 1, Len(t) - 1) \in Seq(Event) /\ Len(SubSeq(t, 1, Len(t) - 1)) = Len(s)
      /\ \A i \in 1..Len(s) : SubSeq(t, 1, Len(t) - 1)[i] = t[i]
  BY <1>1, <1>2, Prefix
<1>4. SubSeq(t, 1, Len(t) - 1) = s
  BY <1>1, <1>3, SeqEqual
<1>5. t # << >>
  BY <1>1
<1>6. QED BY <1>1, <1>4, <1>5 DEF t

\* What is added to a history is added to it one event at a time.
LEMMA ExtensionsContinue ==
  ASSUME NEW prev \in Seq(Event), NEW bodies \in Seq(Event), NEW after,
         prev = << >> \/ prev \in after, Extensions(prev, bodies) \subseteq after,
         NEW history \in Extensions(prev, bodies)
  PROVE  E!Continues(history, after)
<1>1. PICK i \in 1..Len(bodies) : history = prev \o SubSeq(bodies, 1, i)
  BY DEF Extensions
<1>2. PICK s : s = prev \o SubSeq(bodies, 1, i - 1)
  OBVIOUS
<1>3. i - 1 \in 0..Len(bodies) /\ bodies[i] \in Event
  BY <1>1
<1>4. SubSeq(bodies, 1, i - 1) \in Seq(Event)
  BY <1>3, Prefix
<1>5. s \in Seq(Event)
  BY <1>2, <1>4, ConcatProperties
<1>6. history = Append(s, bodies[i])
  <2>1. EventLine(prev \o SubSeq(bodies, 1, i - 1), bodies[i]).hash = prev \o SubSeq(bodies, 1, i)
    BY <1>1, HashOfPrefix
  <2>2. QED BY <1>1, <1>2, <2>1 DEF EventLine, HashOf
<1>7. history # << >> /\ Len(history) = Len(s) + 1 /\ SubSeq(history, 1, Len(history) - 1) = s
  BY <1>3, <1>5, <1>6, Predecessor
<1>8. s = << >> \/ s \in after
  <2>1. CASE i = 1
    <3>1. SubSeq(bodies, 1, i - 1) = << >>
      BY <1>3, <1>4, <2>1, Prefix
    <3>2. s = prev
      BY <1>2, <3>1, ConcatEmptySeq
    <3>3. QED BY <3>2
  <2>2. CASE i # 1
    <3>1. i - 1 \in 1..Len(bodies)
      BY <2>2
    <3>2. s \in Extensions(prev, bodies)
      BY <1>2, <3>1 DEF Extensions
    <3>3. QED BY <3>2
  <2>3. QED BY <2>1, <2>2
<1>9. s = << >> => Len(history) = 1
  BY <1>7
<1>10. QED BY <1>7, <1>8, <1>9 DEF E!Continues

\* A log that grows by what continues the history prev, which is in it, is one step
\* of its readers' world, or none if its text says no more than before.
LEMMA GrowingRecords ==
  ASSUME NEW own \in RunIds, NEW prev \in Seq(Event), NEW bodies \in Seq(Event),
         \A run \in RunIds \ {own} : Logged(run)' = Logged(run) /\ Readable(run)' = Readable(run),
         Logged(own)' = Logged(own) \union Extensions(prev, bodies),
         Readable(own) \subseteq Readable(own)',
         prev = << >> \/ prev \in Logged(own), disk' = disk
  PROVE  [E!Next]_E!evidenceVars
<1> DEFINE recorded == [run \in RunIds |-> Logged(run)]
           readable == [run \in RunIds |-> Readable(run)]
           shown == [path \in EvidencePaths |-> IF Whole(path) THEN disk[path].head ELSE None]
<1>1. PICK before, after, held, kept :
        before = Logged(own) /\ after = Logged(own)' /\ held = Readable(own) /\ kept = Readable(own)'
  OBVIOUS
<1>2. before \subseteq after /\ held \subseteq kept
  BY <1>1
<1>3. \A history \in after \ before : E!Continues(history, after)
  <2>1. Extensions(prev, bodies) \subseteq after /\ (prev = << >> \/ prev \in after)
    BY <1>1
  <2>2. \A history \in after \ before : history \in Extensions(prev, bodies)
    BY <1>1
  <2>3. QED BY <2>1, <2>2, ExtensionsContinue
<1>4. kept \subseteq after
  <2>1. Readable(own)' \subseteq Logged(own)'
    BY DEF Readable, Logged, Parses, LastEvent
  <2>2. QED BY <1>1, <2>1
<1>5. /\ recorded[own] = before /\ recorded'[own] = after
      /\ readable[own] = held /\ readable'[own] = kept
  BY <1>1
<1>6. recorded' = [recorded EXCEPT ![own] = after] /\ readable' = [readable EXCEPT ![own] = kept]
  BY <1>1
<1>7. shown' = shown
  BY DEF Whole, EvidencePaths
<1> HIDE DEF recorded, readable, shown
<1>8. CASE after = before /\ kept = held
  <2>1. recorded' = recorded /\ readable' = readable
    BY <1>5, <1>6, <1>8 DEF recorded, readable
  <2>2. QED BY <1>7, <2>1 DEF E!evidenceVars, recorded, readable, shown
<1>9. CASE after # before \/ kept # held
  <2>1. /\ recorded'[own] # recorded[own] \/ readable'[own] # readable[own]
        /\ shown' = shown
        /\ recorded[own] \subseteq recorded'[own]
        /\ \A history \in recorded'[own] \ recorded[own] : E!Continues(history, recorded'[own])
        /\ readable[own] \subseteq readable'[own] /\ readable'[own] \subseteq recorded'[own]
        /\ recorded' = [recorded EXCEPT ![own] = recorded'[own]]
        /\ readable' = [readable EXCEPT ![own] = readable'[own]]
    BY <1>2, <1>3, <1>4, <1>5, <1>6, <1>7, <1>9
  <2>2. E!Record(own)
    BY <2>1 DEF E!Record, recorded, readable, shown
  <2>3. QED BY <2>2 DEF E!Next
<1>10. QED BY <1>8, <1>9

\* A file that becomes unreadable is hidden evidence; one that becomes readable
\* shows a history that was logged; the cache is no evidence.
LEMMA WritingShows ==
  ASSUME IInv, NEW path \in Paths, NEW text,
         disk' = [disk EXCEPT ![path] = text], UNCHANGED audit,
         \/ text = Torn
         \/ \E req \in Request, hit \in BOOLEAN, sid \in 1..MaxRuns :
              /\ ~ExtractRaises(req.values, req.config)
              /\ Authored(path, text, req, hit, sid)
  PROVE  [E!Next]_E!evidenceVars
<1> DEFINE recorded == [run \in RunIds |-> Logged(run)]
           readable == [run \in RunIds |-> Readable(run)]
           shown == [place \in EvidencePaths |-> IF Whole(place) THEN disk[place].head ELSE None]
<1>1. recorded' = recorded /\ readable' = readable
  BY DEF Logged, Readable, Closed
<1>2. /\ disk'[path] = text
      /\ \A place \in EvidencePaths \ {path} : disk'[place] = disk[place]
  BY DEF EvidencePaths, IInv, Types
<1>3. CASE path \notin EvidencePaths
  <2>1. shown' = shown
    BY <1>2, <1>3 DEF Whole, EvidencePaths
  <2>2. QED BY <1>1, <2>1 DEF E!evidenceVars
<1>4. CASE path \in EvidencePaths /\ text \in {Absent, Torn}
  <2>1. /\ ~Whole(path)'
        /\ \A place \in EvidencePaths \ {path} :
             Whole(place)' = Whole(place) /\ disk'[place] = disk[place]
    BY <1>2, <1>4 DEF Whole
  <2>2. shown' = [shown EXCEPT ![path] = None]
    <3>1. shown' = [place \in EvidencePaths |->
                      IF place = path THEN None
                      ELSE IF Whole(place) THEN disk[place].head ELSE None]
      BY <2>1
    <3>2. QED BY <3>1
  <2>3. CASE shown[path] = None
    <3>1. shown' = shown
      BY <1>4, <2>2, <2>3
    <3>2. QED BY <1>1, <3>1 DEF E!evidenceVars
  <2>4. CASE shown[path] # None
    <3>1. E!Hide(path)
      BY <1>1, <2>2, <2>4 DEF E!Hide
    <3>2. QED BY <1>4, <3>1 DEF E!Next
  <2>5. QED BY <2>3, <2>4
<1>5. CASE path \in EvidencePaths /\ text \notin {Absent, Torn}
  <2>1. PICK req \in Request, hit \in BOOLEAN, sid \in 1..MaxRuns :
          /\ ~ExtractRaises(req.values, req.config)
          /\ Authored(path, text, req, hit, sid)
    BY <1>5
  <2>2. PICK head : head = SealedHistory(req, hit)
    OBVIOUS
  <2>3. path[1] \in {"seals", "c2pa_stub", "reports"} /\ req.run \in RunIds
    BY <1>5, RequestWords DEF EvidencePaths
  <2>4. path # CachePath(req)
    BY <2>3 DEF CachePath
  <2>5. /\ head \in Logged(req.run)
        /\ text.head = head
        /\ \/ path[1] \in {"seals", "c2pa_stub"} /\ path[2] = req.values
           \/ path = <<"reports", req.run>>
    <3>1. SealFor(req, head, sid).head = head /\ ReportFor(req, head, sid, hit).head = head
      BY DEF SealFor, ReportFor, CreateSeal, Payload
    <3>2. CASE path \in {SealPath(req), StubPath(req)} /\ text = SealFor(req, head, sid)
      BY <2>1, <2>2, <2>4, <3>1, <3>2 DEF Authored, SealPath, StubPath
    <3>3. CASE path = ReportPath(req) /\ text = ReportFor(req, head, sid, hit)
      BY <2>1, <2>2, <2>4, <3>1, <3>3 DEF Authored, ReportPath
    <3>4. QED BY <2>1, <2>2, <2>4, <3>2, <3>3 DEF Authored
  <2>6. Vouches(path, req.run, head)
    BY <2>2, <2>5, SealedHistoryFacts DEF Vouches
  <2>7. shown' = [shown EXCEPT ![path] = head]
    <3>1. /\ Whole(path)' /\ disk'[path].head = head
          /\ \A place \in EvidencePaths \ {path} :
               Whole(place)' = Whole(place) /\ disk'[place] = disk[place]
      BY <1>2, <1>5, <2>5 DEF Whole
    <3>2. shown' = [place \in EvidencePaths |->
                      IF place = path THEN head
                      ELSE IF Whole(place) THEN disk[place].head ELSE None]
      BY <3>1
    <3>3. QED BY <3>2
  <2>8. recorded[req.run] = Logged(req.run)
    BY <2>3
  <2>9. head # None
    BY <2>1, <2>2, TextAssumption
  <2>10. shown'[path] = head
    BY <1>5, <2>7
  <2>11. CASE shown[path] = head
    <3>1. shown' = shown
      BY <1>5, <2>7, <2>11
    <3>2. QED BY <1>1, <3>1 DEF E!evidenceVars
  <2>12. CASE shown[path] # head
    <3>1. /\ shown'[path] \notin {None, shown[path]}
          /\ shown' = [shown EXCEPT ![path] = shown'[path]]
          /\ \E log \in RunIds : shown'[path] \in recorded[log] /\ Vouches(path, log, shown'[path])
      BY <2>3, <2>5, <2>6, <2>7, <2>8, <2>9, <2>10, <2>12
    <3> HIDE DEF shown
    <3>2. E!Show(path)
      BY <1>1, <3>1 DEF E!Show, shown
    <3>3. QED BY <1>5, <3>2 DEF E!Next
  <2>13. QED BY <2>11, <2>12
<1>6. QED BY <1>3, <1>4, <1>5

\* Every step of a run is a step of its readers' world, or none.
LEMMA NextShows == IInv /\ [Next]_vars => [E!Next]_E!evidenceVars
<1> SUFFICES ASSUME IInv, [Next]_vars PROVE [E!Next]_E!evidenceVars
  OBVIOUS
<1>1. ASSUME UNCHANGED <<audit, disk>> PROVE [E!Next]_E!evidenceVars
  BY <1>1 DEF E!evidenceVars, Logged, Readable, Closed, Whole, EvidencePaths
<1>2. ASSUME NEW p \in Proc, proc[p].req \in Request
      PROVE  \E own \in RunIds, prev \in Seq(Event) :
               /\ own = proc[p].req.run /\ prev = proc[p].prev
               /\ prev = << >> \/ prev \in Logged(own)
  <2>1. PICK own \in RunIds : own = proc[p].req.run
    BY <1>2, RequestWords
  <2>2. PICK prev \in Seq(Event) : prev = proc[p].prev
    BY DEF IInv, Types, RunRecord
  <2>3. prev = << >> \/ prev \in Logged(own)
    BY <2>1, <2>2 DEF IInv, HeadsLogged
  <2>4. QED BY <2>1, <2>2, <2>3
<1>3. ASSUME NEW p \in Proc, NEW next, LogEvents(p, next), proc[p].req \in Request
      PROVE  [E!Next]_E!evidenceVars
  <2>1. PICK own \in RunIds, prev \in Seq(Event) :
          /\ own = proc[p].req.run /\ prev = proc[p].prev
          /\ prev = << >> \/ prev \in Logged(own)
    BY <1>2, <1>3
  <2>2. PICK bodies \in Seq(Event) : bodies = EventsAt(p)
    BY EventsAtType DEF IInv
  <2>3. audit' = [audit EXCEPT ![own] = LogAll(@, prev, bodies)] /\ disk' = disk
    BY <1>3, <2>1, <2>2 DEF LogEvents
  <2>4. /\ \A run \in RunIds \ {own} : Logged(run)' = Logged(run) /\ Readable(run)' = Readable(run)
        /\ Logged(own)' = Logged(own) \union Extensions(prev, bodies)
        /\ Readable(own) \subseteq Readable(own)'
    BY <2>3, AppendingLogs DEF IInv
  <2>5. QED BY <2>1, <2>3, <2>4, GrowingRecords
<1>4. ASSUME NEW p \in Proc, proc[p].pc # "idle" PROVE proc[p].req \in Request
  BY <1>4 DEF IInv, Types, Progress, RunRecord, RunOK
<1>5. ASSUME NEW p \in Proc, Step(p) PROVE [E!Next]_E!evidenceVars
  <2>1. CASE Received(p)
    BY <1>3, <1>4, <2>1 DEF Received
  <2>2. CASE Policy(p)
    BY <1>3, <1>4, <2>2 DEF Policy
  <2>3. CASE Features(p)
    BY <1>3, <1>4, <2>3 DEF Features
  <2>4. CASE FeaturesRaise(p)
    BY <1>1, <2>4 DEF FeaturesRaise
  <2>5. CASE Lookup(p)
    BY <1>1, <2>5 DEF Lookup
  <2>6. CASE Cached(p)
    BY <1>3, <1>4, <2>6 DEF Cached
  <2>7. CASE Emit(p)
    BY <1>3, <1>4, <2>7 DEF Emit
  <2>8. CASE OpenFile(p) \/ FillFile(p)
    <3>1. Writing(p) /\ UNCHANGED audit
      BY <2>8 DEF OpenFile, FillFile
    <3>2. FileWritten(p) \in Paths
      <4>1. proc[p].pc \in {"store", "seals", "c2pa_stub", "reports"}
        BY <3>1 DEF Writing, AfterWrite
      <4>2. proc[p].req \in Request
        BY <1>4, <4>1
      <4>3. QED BY <4>1, <4>2, RequestWords DEF FileWritten
    <3>3. PICK text \in {Content(p), Torn} : disk' = [disk EXCEPT ![FileWritten(p)] = text]
      BY <2>8 DEF OpenFile, FillFile
    <3>4. \/ text = Torn
          \/ \E req \in Request, hit \in BOOLEAN, sid \in 1..MaxRuns :
               /\ ~ExtractRaises(req.values, req.config)
               /\ Authored(FileWritten(p), text, req, hit, sid)
      BY <3>1, <3>3, ContentAuthored
    <3>5. PICK path \in Paths : path = FileWritten(p)
      BY <3>2
    <3>6. QED BY <3>1, <3>3, <3>4, <3>5, WritingShows
  <2>9. QED BY <1>5, <2>1, <2>2, <2>3, <2>4, <2>5, <2>6, <2>7, <2>8 DEF Step
<1>6. ASSUME NEW p \in Proc, Crash(p) PROVE [E!Next]_E!evidenceVars
  <2>1. proc[p].req \in Request
    BY <1>4, <1>6 DEF Crash, Active
  <2>2. PICK own \in RunIds, prev \in Seq(Event) :
          /\ own = proc[p].req.run /\ prev = proc[p].prev
          /\ prev = << >> \/ prev \in Logged(own)
    BY <1>2, <2>1
  <2>3. /\ \A run \in RunIds \ {own} : Logged(run)' = Logged(run) /\ Readable(run)' = Readable(run)
        /\ Readable(own) \subseteq Readable(own)'
    BY <1>6, <2>2, CrashLogs
  <2>4. PICK bodies \in Seq(Event) : Logged(own)' = Logged(own) \union Extensions(prev, bodies)
    BY <1>6, <2>2, CrashLogs
  <2>5. disk' = disk
    BY <1>6 DEF Crash
  <2>6. QED BY <2>2, <2>3, <2>4, <2>5, GrowingRecords
<1>7. ASSUME NEW p \in Proc, NEW req \in Request, Start(p, req) PROVE [E!Next]_E!evidenceVars
  BY <1>1, <1>7 DEF Start
<1>8. CASE UNCHANGED vars
  BY <1>1, <1>8 DEF vars
<1>9. QED BY <1>5, <1>6, <1>7, <1>8 DEF Next

\* Runs that overlap, are denied, raise or die, in the middle of a line too, take back
\* nothing that was logged and make nothing unreadable that could be read, and all
\* evidence that can be read commits to a history logged before it.
THEOREM Refinement == Spec => ImplementsEvidence
<1>1. Init => E!Init
  <2> SUFFICES ASSUME Init PROVE E!Init
    OBVIOUS
  <2>1. \A run \in RunIds : Logged(run) = {} /\ Readable(run) = {}
    <3>1. \A run \in RunIds : Closed(run) = {}
      BY DEF Init, Closed
    <3>2. QED BY <3>1 DEF Logged, Readable
  <2>2. \A path \in EvidencePaths : ~Whole(path)
    BY DEF Init, Whole, EvidencePaths
  <2>3. QED BY <2>1, <2>2 DEF E!Init
<1>2. QED BY <1>1, Invariant, NextShows, PTL DEF Spec, ImplementsEvidence, E!Spec

\* Each history in a log continues one that is in it, or is its first event.
Unbroken ==
  \A run \in RunIds : \A history \in Logged(run) : E!Continues(history, Logged(run))

LEMMA NextUnbroken == Unbroken /\ [E!Next]_E!evidenceVars => Unbroken'
<1> DEFINE recorded == [run \in RunIds |-> Logged(run)]
<1> SUFFICES ASSUME Unbroken, [E!Next]_E!evidenceVars, NEW run \in RunIds,
                    NEW history \in Logged(run)'
             PROVE  E!Continues(history, Logged(run)')
  BY DEF Unbroken, E!Continues
<1>1. PICK before, after : before = Logged(run) /\ after = Logged(run)'
  OBVIOUS
<1>2. recorded[run] = before /\ recorded'[run] = after
  BY <1>1
<1>3. \/ recorded' = recorded
      \/ \E log \in RunIds : E!Record(log)
  BY DEF E!Next, E!Show, E!Hide, E!evidenceVars
<1>4. before \subseteq after /\ \A h \in after \ before : E!Continues(h, after)
  <2>1. CASE recorded' = recorded
    BY <1>2, <2>1
  <2>2. ASSUME NEW log \in RunIds, E!Record(log)
        PROVE  before \subseteq after /\ \A h \in after \ before : E!Continues(h, after)
    <3>1. /\ recorded[log] \subseteq recorded'[log]
          /\ \A h \in recorded'[log] \ recorded[log] : E!Continues(h, recorded'[log])
          /\ recorded' = [recorded EXCEPT ![log] = recorded'[log]]
      BY <2>2 DEF E!Record
    <3>2. log # run => after = before
      BY <1>2, <3>1
    <3> HIDE DEF recorded
    <3>3. QED BY <1>2, <3>1, <3>2
  <2>3. QED BY <1>3, <2>1, <2>2
<1>5. CASE history \in before
  <2>1. E!Continues(history, before)
    BY <1>1, <1>5 DEF Unbroken
  <2>2. QED BY <1>1, <1>4, <2>1 DEF E!Continues
<1>6. CASE history \notin before
  BY <1>1, <1>4, <1>6
<1>7. QED BY <1>5, <1>6

LEMMA LastEventType ==
  ASSUME NEW line \in LoggedLine
  PROVE  LastEvent(line) \in Seq(Event)
<1>1. line.hash \in Seq(Event) /\ line.joined \in Seq(Seq(Event))
  BY DEF LoggedLine
<1>2. CASE line.joined = << >>
  BY <1>1, <1>2 DEF LastEvent
<1>3. CASE line.joined # << >>
  <2>1. Len(line.joined) \in 1..Len(line.joined)
    BY <1>1, <1>3
  <2>2. line.joined[Len(line.joined)] \in Seq(Event)
    BY <1>1, <2>1
  <2>3. QED BY <1>3, <2>2 DEF LastEvent
<1>4. QED BY <1>2, <1>3

\* A history that is in an unbroken log has all that it continues there.
LEMMA PrefixesLogged ==
  ASSUME Types, Unbroken, NEW run \in RunIds, NEW history \in Logged(run),
         NEW n \in 1..Len(history)
  PROVE  SubSeq(history, 1, n) \in Logged(run)
<1>1. PICK h \in Seq(Event) : h = history
  <2>1. audit[run] \in Seq(LoggedLine)
    BY DEF Types, LogFile
  <2>2. PICK i \in 1..Len(audit[run]) : history = LastEvent(audit[run][i])
    BY DEF Logged, Closed
  <2>3. audit[run][i] \in LoggedLine
    BY <2>1, <2>2
  <2>4. QED BY <2>2, <2>3, LastEventType
<1>2. PICK histories : histories = Logged(run)
  OBVIOUS
<1> DEFINE T == {d \in 0..(Len(h) - 1) : SubSeq(h, 1, Len(h) - d) \notin histories}
<1>3. Len(h) \in Nat /\ n \in 1..Len(h)
  BY <1>1
<1>4. SUFFICES ASSUME T # {} PROVE FALSE
  <2>1. Len(h) - n \in 0..(Len(h) - 1) /\ Len(h) - (Len(h) - n) = n
    BY <1>3
  <2>2. Len(h) - n \notin T
    BY <1>4
  <2>3. SubSeq(h, 1, n) \in histories
    BY <2>1, <2>2
  <2>4. QED BY <1>1, <1>2, <2>3
<1>5. PICK d \in T : \A other \in T : d <= other
  <2>1. T \subseteq Nat
    OBVIOUS
  <2> HIDE DEF T
  <2>2. QED BY <1>4, <2>1, LeastElement
<1>6. d \in 0..(Len(h) - 1) /\ d # 0
  <2>1. SubSeq(h, 1, Len(h)) = h /\ Len(h) - 0 = Len(h)
    BY <1>3, SubSeqFull
  <2>2. 0 \notin T
    BY <1>1, <1>2, <2>1
  <2>3. QED BY <1>5, <2>2
<1>7. PICK m \in 1..Len(h) : m = Len(h) - d + 1
  <2> HIDE DEF T
  <2>1. Len(h) - d + 1 \in 1..Len(h)
    BY <1>3, <1>6
  <2>2. QED BY <2>1
<1>8. PICK t \in Seq(Event) : t = SubSeq(h, 1, m)
  <2>1. m \in 0..Len(h)
    BY <1>7
  <2>2. QED BY <2>1, Prefix
<1>9. Len(t) = m /\ \A i \in 1..m : t[i] = h[i]
  BY <1>8, Prefix
<1>10. t \in histories
  <2>1. d - 1 \in 0..(Len(h) - 1) /\ d - 1 \notin T /\ Len(h) - (d - 1) = m
    BY <1>3, <1>5, <1>6, <1>7
  <2>2. QED BY <1>8, <2>1
<1>11. m - 1 \in 1..Len(h) /\ m # 1 /\ m - 1 = Len(h) - d /\ m - 1 \in 0..m
  BY <1>3, <1>5, <1>7
<1>12. SubSeq(t, 1, m - 1) = SubSeq(h, 1, m - 1)
  <2>1. /\ SubSeq(t, 1, m - 1) \in Seq(Event) /\ Len(SubSeq(t, 1, m - 1)) = m - 1
        /\ \A i \in 1..(m - 1) : SubSeq(t, 1, m - 1)[i] = t[i]
    BY <1>9, <1>11, Prefix
  <2>2. /\ SubSeq(h, 1, m - 1) \in Seq(Event) /\ Len(SubSeq(h, 1, m - 1)) = m - 1
        /\ \A i \in 1..(m - 1) : SubSeq(h, 1, m - 1)[i] = h[i]
    BY <1>11, Prefix
  <2>3. \A i \in 1..(m - 1) : SubSeq(t, 1, m - 1)[i] = SubSeq(h, 1, m - 1)[i]
    BY <1>9, <1>11, <2>1, <2>2
  <2>4. QED BY <2>1, <2>2, <2>3, SeqEqual
<1>13. SubSeq(t, 1, m - 1) \in histories
  BY <1>2, <1>9, <1>10, <1>11 DEF Unbroken, E!Continues
<1>14. QED BY <1>5, <1>11, <1>12, <1>13

\* Said of all events of the history.
LEMMA LoggedWhole ==
  ASSUME Types, Unbroken, NEW run \in RunIds, NEW history \in Logged(run)
  PROVE  HistoryIn(history, run)
BY PrefixesLogged DEF HistoryIn

\* Evidence never runs ahead of the log, wherever runs died before or meanwhile, in the
\* middle of a line too: the history that a seal or a report commits to is, event by
\* event, written in an audit file, a report's in that of its own run (an event may
\* share its line with what a dead append had begun), with the decision to allow and
\* the announcement of the seal in it.
THEOREM EvidenceLogged == Spec => []EvidenceIsLogged
<1>1. Init => Unbroken
  <2> SUFFICES ASSUME Init PROVE Unbroken
    OBVIOUS
  <2>1. \A run \in RunIds : Closed(run) = {}
    BY DEF Init, Closed
  <2>2. QED BY <2>1 DEF Unbroken, Logged
<1>2. IInv /\ Unbroken /\ [Next]_vars => Unbroken'
  BY NextShows, NextUnbroken
<1>3. IInv /\ Unbroken => EvidenceIsLogged
  <2> SUFFICES ASSUME IInv, Unbroken PROVE EvidenceIsLogged
    OBVIOUS
  <2>1. ASSUME NEW path \in Paths, path[1] \in {"seals", "c2pa_stub"}, Whole(path)
        PROVE  LET head == disk[path].head
               IN  /\ \E r \in RunIds : HistoryIn(head, r)
                   /\ {<<"POLICY_EVALUATED", "allow">>, <<"SEAL_EMIT", path[2]>>}
                        \subseteq Events(head)
                   /\ head[Len(head)] = <<"VERIFY", None>>
    <3>1. PICK req \in Request, hit \in BOOLEAN, sid \in 1..MaxRuns :
            /\ SealedHistory(req, hit) \in Logged(req.run) /\ req.run \in RunIds
            /\ path[2] = req.values
            /\ disk[path] = SealFor(req, SealedHistory(req, hit), sid)
      BY <2>1, EvidenceAuthored
    <3>2. disk[path].head = SealedHistory(req, hit)
      BY <3>1, SealForHead
    <3>3. HistoryIn(SealedHistory(req, hit), req.run)
      BY <3>1, LoggedWhole DEF IInv
    <3>4. QED BY <3>1, <3>2, <3>3, SealedHistoryFacts
  <2>2. ASSUME NEW path \in Paths, path[1] = "reports", Whole(path)
        PROVE  LET head == disk[path].head
               IN  /\ HistoryIn(head, path[2])
                   /\ disk[path].seal.head = head
                   /\ disk[path].hit <=> <<"CACHE_HIT", None>> \in Events(head)
    <3>1. PICK req \in Request, hit \in BOOLEAN, sid \in 1..MaxRuns :
            /\ SealedHistory(req, hit) \in Logged(req.run) /\ req.run \in RunIds
            /\ path = <<"reports", req.run>>
            /\ disk[path] = ReportFor(req, SealedHistory(req, hit), sid, hit)
      BY <2>2, EvidenceAuthored
    <3>2. /\ disk[path].head = SealedHistory(req, hit)
          /\ disk[path].hit = hit /\ path[2] = req.run
          /\ disk[path].seal = SealFor(req, SealedHistory(req, hit), sid).epw
      BY <3>1 DEF ReportFor
    <3>3. disk[path].seal.head = SealedHistory(req, hit)
      BY <3>2, SealForHead
    <3>4. HistoryIn(SealedHistory(req, hit), req.run)
      BY <3>1, LoggedWhole DEF IInv
    <3>5. QED BY <3>1, <3>2, <3>3, <3>4, SealedHistoryFacts
  <2>3. QED BY <2>1, <2>2 DEF EvidenceIsLogged
<1>4. QED BY <1>1, <1>2, <1>3, Invariant, PTL DEF Spec

-----------------------------------------------------------------------------
(* A run that is alone *)

Apart(req, other) == req.run # other.run /\ req.values # other.values

\* What a run has written so far is in place; the file it is writing is torn.
OwnFiles(r) ==
  /\ r.pc \in {"c2pa_stub", "reports", "done"} =>
       disk[SealPath(r.req)] = SealFor(r.req, r.prev, r.sid)
  /\ r.pc \in {"reports", "done"} =>
       disk[StubPath(r.req)] = SealFor(r.req, r.prev, r.sid)
  /\ r.pc = "done" =>
       disk[ReportPath(r.req)] = ReportFor(r.req, r.prev, r.sid, r.hit)
  /\ r.filling /\ r.pc = "seals" => disk[SealPath(r.req)] = Torn
  /\ r.filling /\ r.pc = "c2pa_stub" => disk[StubPath(r.req)] = Torn
  /\ r.filling /\ r.pc = "reports" => disk[ReportPath(r.req)] = Torn

\* A run that is alone has its log and its files to itself.
Undisturbed(p) ==
  proc[p].alone /\ proc[p].pc \in Active \union {"done"} =>
    /\ audit[proc[p].req.run] = LogAll(<< >>, << >>, proc[p].prev)
    /\ \A q \in Proc \ {p} : proc[q].pc \in Active => Apart(proc[q].req, proc[p].req)
    /\ OwnFiles(proc[p])

Solitude == \A p \in Proc : Undisturbed(p)

\* What others do leaves a run alone as it was, if they stay off its log and its
\* files and none that conflicts with it becomes active.
LEMMA UndisturbedKept ==
  ASSUME NEW p \in Proc, Undisturbed(p),
         NEW alone, proc'[p] = [proc[p] EXCEPT !.alone = alone], proc[p] \in RunRecord,
         alone /\ proc[p].pc \in Active \union {"done"} =>
           /\ proc[p].alone
           /\ audit'[proc[p].req.run] = audit[proc[p].req.run]
           /\ disk'[SealPath(proc[p].req)] = disk[SealPath(proc[p].req)]
           /\ disk'[StubPath(proc[p].req)] = disk[StubPath(proc[p].req)]
           /\ disk'[ReportPath(proc[p].req)] = disk[ReportPath(proc[p].req)]
           /\ \A q \in Proc \ {p} : proc'[q].pc \in Active =>
                \/ Apart(proc'[q].req, proc[p].req)
                \/ proc[q].pc \in Active /\ proc'[q].req = proc[q].req
  PROVE  Undisturbed(p)'
<1>1. PICK r : r = proc[p]
  OBVIOUS
<1>2. PICK s : s = proc'[p]
  OBVIOUS
<1>3. /\ s.pc = r.pc /\ s.req = r.req /\ s.prev = r.prev /\ s.sid = r.sid
      /\ s.hit = r.hit /\ s.filling = r.filling /\ s.alone = alone
  BY <1>1, <1>2 DEF RunRecord
<1>4. SUFFICES ASSUME alone, r.pc \in Active \union {"done"}
               PROVE  /\ audit'[r.req.run] = LogAll(<< >>, << >>, r.prev)
                      /\ \A q \in Proc \ {p} : proc'[q].pc \in Active => Apart(proc'[q].req, r.req)
                      /\ OwnFiles(s)'
  BY <1>2, <1>3 DEF Undisturbed
<1>5. /\ audit[r.req.run] = LogAll(<< >>, << >>, r.prev)
      /\ \A q \in Proc \ {p} : proc[q].pc \in Active => Apart(proc[q].req, r.req)
      /\ OwnFiles(r)
  BY <1>1, <1>4 DEF Undisturbed
<1>6. OwnFiles(s)'
  BY <1>1, <1>3, <1>4, <1>5 DEF OwnFiles
<1>7. QED BY <1>1, <1>4, <1>5, <1>6

\* The run itself goes on: its log is still all its own if it appended what it
\* says it did, and so are its files if they are what is expected of it there.
LEMMA UndisturbedMoves ==
  ASSUME NEW p \in Proc, Undisturbed(p), NEW r,
         proc'[p] = r, \A q \in Proc \ {p} : proc'[q] = proc[q],
         r.alone = proc[p].alone, r.req = proc[p].req, proc[p].pc \in Active,
         audit[proc[p].req.run] = LogAll(<< >>, << >>, proc[p].prev)
           => audit'[r.req.run] = LogAll(<< >>, << >>, r.prev),
         OwnFiles(proc[p]) => OwnFiles(r)'
  PROVE  Undisturbed(p)'
BY DEF Undisturbed

\* Paths of different requests differ as the requests do.
LEMMA PathsApart ==
  ASSUME NEW req, NEW other, Apart(req, other)
  PROVE  {CachePath(req), SealPath(req), StubPath(req), ReportPath(req)}
           \intersect {SealPath(other), StubPath(other), ReportPath(other)} = {}
<1>1. req.run # other.run /\ req.values # other.values
  BY DEF Apart
<1>2. ASSUME NEW path \in {CachePath(req), SealPath(req), StubPath(req), ReportPath(req)},
             NEW place \in {SealPath(other), StubPath(other), ReportPath(other)}
      PROVE  path # place
  BY <1>1 DEF CachePath, SealPath, StubPath, ReportPath
<1>3. QED BY <1>2

\* Where a step of an active run writes, and where it does not.
LEMMA StepWrites ==
  ASSUME IInv, NEW p \in Proc, Step(p) \/ Crash(p)
  PROVE  /\ proc[p].pc \in Active /\ proc[p].req \in Request
         /\ \A q \in Proc \ {p} : proc'[q] = proc[q]
         /\ proc'[p].pc \in Active => proc'[p].req = proc[p].req
         /\ \A run \in RunIds \ {proc[p].req.run} : audit'[run] = audit[run]
         /\ \A path : path \notin {CachePath(proc[p].req), SealPath(proc[p].req),
                               StubPath(proc[p].req), ReportPath(proc[p].req)}
              => disk'[path] = disk[path]
<1>1. proc[p].pc \in Active
  BY DEF Step, Crash, Received, Policy, Features, FeaturesRaise, Lookup, Cached, Emit,
         OpenFile, FillFile, Writing, AfterWrite, Active
<1>2. proc[p] \in RunRecord /\ proc[p].req \in Request /\ proc \in [Proc -> RunRecord]
  BY <1>1 DEF IInv, Types, Progress, RunRecord, RunOK, Active
<1>3. CASE Crash(p)
  <2>1. proc' = [proc EXCEPT ![p] = Idle] /\ disk' = disk /\ Idle.pc \notin Active
    BY <1>3 DEF Crash, Idle, Active
  <2>2. \A run \in RunIds \ {proc[p].req.run} : audit'[run] = audit[run]
    BY <1>3 DEF Crash, IInv, Types
  <2>3. QED BY <1>1, <1>2, <2>1, <2>2
<1>4. CASE \E next : LogEvents(p, next)
  BY <1>1, <1>2, <1>4 DEF LogEvents, RunRecord, IInv, Types
<1>5. CASE FeaturesRaise(p) \/ Lookup(p)
  BY <1>1, <1>2, <1>5 DEF FeaturesRaise, Lookup, RunRecord
<1>6. CASE OpenFile(p) \/ FillFile(p)
  <2>1. \E text : disk' = [disk EXCEPT ![FileWritten(p)] = text]
    BY <1>6 DEF OpenFile, FillFile
  <2>2. FileWritten(p) \in {CachePath(proc[p].req), SealPath(proc[p].req),
                           StubPath(proc[p].req), ReportPath(proc[p].req)}
    BY <1>6 DEF OpenFile, FillFile, Writing, AfterWrite, FileWritten
  <2>3. /\ audit' = audit /\ \A q \in Proc \ {p} : proc'[q] = proc[q]
        /\ proc'[p].req = proc[p].req
    BY <1>2, <1>6 DEF OpenFile, FillFile, RunRecord
  <2>4. QED BY <1>1, <1>2, <2>1, <2>2, <2>3
<1>7. (\E next : LogEvents(p, next)) \/ FeaturesRaise(p) \/ Lookup(p) \/ OpenFile(p)
      \/ FillFile(p) \/ Crash(p)
  BY DEF Step, Received, Policy, Features, Cached, Emit
<1>8. QED BY <1>3, <1>4, <1>5, <1>6, <1>7

\* A step of one run does not disturb another that is alone.
LEMMA OthersStep ==
  ASSUME IInv, Solitude, NEW p \in Proc, NEW q \in Proc \ {p}, Step(q) \/ Crash(q)
  PROVE  Undisturbed(p)'
<1>1. Undisturbed(p) /\ proc[p] \in RunRecord
  BY DEF Solitude, IInv, Types
<1>2. /\ proc[q].pc \in Active /\ proc[q].req \in Request
      /\ \A o \in Proc \ {q} : proc'[o] = proc[o]
      /\ proc'[q].pc \in Active => proc'[q].req = proc[q].req
      /\ \A run \in RunIds \ {proc[q].req.run} : audit'[run] = audit[run]
      /\ \A path : path \notin {CachePath(proc[q].req), SealPath(proc[q].req),
                            StubPath(proc[q].req), ReportPath(proc[q].req)}
           => disk'[path] = disk[path]
  BY StepWrites
<1>3. proc'[p] = [proc[p] EXCEPT !.alone = proc[p].alone]
  BY <1>1, <1>2 DEF RunRecord
<1>4. ASSUME proc[p].alone, proc[p].pc \in Active \union {"done"}
      PROVE  /\ audit'[proc[p].req.run] = audit[proc[p].req.run]
             /\ disk'[SealPath(proc[p].req)] = disk[SealPath(proc[p].req)]
             /\ disk'[StubPath(proc[p].req)] = disk[StubPath(proc[p].req)]
             /\ disk'[ReportPath(proc[p].req)] = disk[ReportPath(proc[p].req)]
  <2>1. Apart(proc[q].req, proc[p].req)
    BY <1>1, <1>2, <1>4 DEF Undisturbed
  <2>2. proc[p].req \in Request
    BY <1>4 DEF IInv, Types, Progress, RunRecord, RunOK, Active
  <2>3. proc[p].req.run \in RunIds \ {proc[q].req.run}
    BY <2>1, <2>2, RequestWords DEF Apart
  <2>4. {CachePath(proc[q].req), SealPath(proc[q].req), StubPath(proc[q].req),
         ReportPath(proc[q].req)}
          \intersect {SealPath(proc[p].req), StubPath(proc[p].req), ReportPath(proc[p].req)} = {}
    BY <2>1, PathsApart
  <2>5. QED BY <1>2, <2>3, <2>4
<1>5. \A o \in Proc \ {p} : proc'[o].pc \in Active =>
        proc[o].pc \in Active /\ proc'[o].req = proc[o].req
  BY <1>2
<1>6. QED BY <1>1, <1>3, <1>4, <1>5, UndisturbedKept

\* A call disturbs no run that stays alone; the new run is alone only if its log
\* is empty and no active run conflicts with it.
LEMMA StartDisturbsNone ==
  ASSUME IInv, Solitude, NEW p \in Proc, NEW req \in Request, Start(p, req)
  PROVE  Solitude'
<1>1. proc \in [Proc -> RunRecord] /\ audit' = audit /\ disk' = disk
  BY DEF IInv, Types, Start
<1>2. \A q \in Proc \ {p} : proc'[q] = [proc[q] EXCEPT !.alone = @ /\ ~Conflict(q, req)]
  BY DEF Start
<1>3. PICK alone \in BOOLEAN :
        /\ proc'[p] = [Idle EXCEPT !.pc = "received", !.req = req, !.sid = runs', !.alone = alone]
        /\ alone => /\ audit[req.run] = << >>
                    /\ \A o \in Proc \ {p} : ~(proc[o].pc \in Active /\ Conflict(o, req))
  BY <1>1 DEF Start
<1>4. ASSUME NEW q \in Proc, proc[q].pc \in Active \union {"done"}, ~Conflict(q, req)
      PROVE  Apart(req, proc[q].req) /\ Apart(proc[q].req, req)
  <2>1. proc[q].req \in Request
    BY <1>4 DEF IInv, Types, Progress, RunRecord, RunOK, Active
  <2>2. proc[q].req # None
    BY <2>1, RequestAssumption
  <2>3. QED BY <1>4, <2>2 DEF Conflict, Apart
<1>5. \A q \in Proc \ {p} : proc'[q].pc = proc[q].pc /\ proc'[q].req = proc[q].req
  BY <1>1, <1>2 DEF RunRecord
<1>6. proc'[p] = [pc |-> "received", req |-> req, prev |-> << >>, sid |-> runs',
                  hit |-> FALSE, filling |-> FALSE, alone |-> alone]
  BY <1>3 DEF Idle, Genesis
<1>7. Undisturbed(p)'
  <2>1. PICK r : r = proc'[p]
    OBVIOUS
  <2>2. r.pc = "received" /\ r.req = req /\ r.prev = << >> /\ ~r.filling /\ r.alone = alone
    BY <1>6, <2>1
  <2>3. ASSUME alone
        PROVE  /\ audit'[r.req.run] = LogAll(<< >>, << >>, r.prev)
               /\ \A q \in Proc \ {p} : proc'[q].pc \in Active => Apart(proc'[q].req, r.req)
    <3>1. audit[req.run] = << >>
      BY <1>3, <2>3
    <3>2. LogAll(<< >>, << >>, << >>) = << >>
      BY DEF LogAll
    <3>3. ASSUME NEW q \in Proc \ {p}, proc'[q].pc \in Active PROVE Apart(proc'[q].req, req)
      <4>1. proc[q].pc \in Active /\ proc'[q].req = proc[q].req
        BY <1>5, <3>3
      <4>2. ~Conflict(q, req)
        BY <1>3, <2>3, <4>1
      <4>3. QED BY <1>4, <4>1, <4>2
    <3>4. QED BY <1>1, <2>2, <3>1, <3>2, <3>3
  <2>4. OwnFiles(r)'
    BY <2>2 DEF OwnFiles
  <2>5. QED BY <2>1, <2>2, <2>3, <2>4 DEF Undisturbed
<1>8. ASSUME NEW q \in Proc \ {p} PROVE Undisturbed(q)'
  <2>1. Undisturbed(q) /\ proc[q] \in RunRecord
    BY <1>1 DEF Solitude
  <2>2. PICK still : still = (proc[q].alone /\ ~Conflict(q, req))
    OBVIOUS
  <2>3. proc'[q] = [proc[q] EXCEPT !.alone = still]
    BY <1>2, <2>2
  <2>4. ASSUME still, proc[q].pc \in Active \union {"done"},
               NEW o \in Proc \ {q}, proc'[o].pc \in Active
        PROVE  \/ Apart(proc'[o].req, proc[q].req)
               \/ proc[o].pc \in Active /\ proc'[o].req = proc[o].req
    <3>1. CASE o = p
      <4>1. ~Conflict(q, req)
        BY <2>2, <2>4
      <4>2. Apart(req, proc[q].req)
        BY <1>4, <2>4, <4>1
      <4>3. proc'[o].req = req
        BY <1>6, <3>1
      <4>4. QED BY <4>2, <4>3
    <3>2. CASE o # p
      BY <1>5, <2>4, <3>2
    <3>3. QED BY <3>1, <3>2
  <2>5. still => proc[q].alone
    BY <2>2
  <2>6. QED BY <1>1, <2>1, <2>3, <2>4, <2>5, UndisturbedKept
<1>9. QED BY <1>7, <1>8 DEF Solitude

\* A run that is alone appends to the log that it alone has written.
LEMMA OwnLog ==
  ASSUME IInv, Solitude, NEW p \in Proc, NEW next, LogEvents(p, next),
         next \notin {"c2pa_stub", "reports", "done"},
         proc[p].pc \in {"received", "policy", "features", "cached", "emit"}
  PROVE  Undisturbed(p)'
<1>1. /\ proc[p] \in RunRecord /\ ~proc[p].filling
      /\ proc[p].req \in Request /\ proc[p].pc \in Active
  BY DEF IInv, Types, Progress, RunRecord, RunOK, AfterWrite, Active
<1>2. PICK own \in RunIds : own = proc[p].req.run
  BY <1>1, RequestWords
<1>3. PICK prev \in Seq(Event) : prev = proc[p].prev
  BY <1>1 DEF RunRecord
<1>4. PICK bodies \in Seq(Event) : bodies = EventsAt(p)
  BY EventsAtType DEF IInv
<1>5. PICK r : r = [proc[p] EXCEPT !.pc = next, !.prev = prev \o bodies]
  OBVIOUS
<1>6. /\ r.pc = next /\ r.req = proc[p].req /\ r.prev = prev \o bodies
      /\ ~r.filling /\ r.alone = proc[p].alone
  BY <1>1, <1>5 DEF RunRecord
<1>7. /\ proc'[p] = r /\ \A q \in Proc \ {p} : proc'[q] = proc[q]
      /\ audit'[own] = LogAll(audit[own], prev, bodies)
  BY <1>2, <1>3, <1>4, <1>5 DEF LogEvents, IInv, Types
<1>8. ASSUME audit[own] = LogAll(<< >>, << >>, prev)
      PROVE  audit'[own] = LogAll(<< >>, << >>, r.prev)
  <2>1. PICK file : file = LogAll(<< >>, << >>, prev)
    OBVIOUS
  <2>2. LogAll(file, prev, bodies) = LogAll(<< >>, << >>, prev \o bodies)
    BY <2>1, LogAllTwice
  <2>3. audit'[own] = LogAll(file, prev, bodies)
    BY <1>7, <1>8, <2>1
  <2>4. PICK h : h = prev \o bodies
    OBVIOUS
  <2>5. QED BY <1>6, <2>2, <2>3, <2>4
<1>9. OwnFiles(r)'
  BY <1>6 DEF OwnFiles
<1>10. Undisturbed(p)
  BY DEF Solitude
<1>11. QED BY <1>1, <1>2, <1>3, <1>6, <1>7, <1>8, <1>9, <1>10, UndisturbedMoves

\* A run truncates the file it is about to write, and those it has written stay.
LEMMA OwnFilesOpen ==
  ASSUME IInv, NEW p \in Proc, OpenFile(p), OwnFiles(proc[p])
  PROVE  OwnFiles(proc[p])'
<1>1. /\ proc[p] \in RunRecord /\ ~proc[p].filling
      /\ proc[p].pc \in {"store", "seals", "c2pa_stub", "reports"}
  BY DEF IInv, Types, OpenFile, Writing, AfterWrite
<1>2. proc[p].req \in Request
  BY <1>1 DEF IInv, Progress, RunRecord, RunOK
<1>3. PICK r : r = [proc[p] EXCEPT !.filling = TRUE]
  OBVIOUS
<1>4. /\ r.pc = proc[p].pc /\ r.req = proc[p].req /\ r.prev = proc[p].prev
      /\ r.sid = proc[p].sid /\ r.hit = proc[p].hit
  BY <1>1, <1>3 DEF RunRecord
<1>5. proc'[p] = r /\ disk' = [disk EXCEPT ![FileWritten(p)] = Torn]
  BY <1>3 DEF OpenFile, IInv, Types
<1>6. {SealPath(r.req), StubPath(r.req), ReportPath(r.req)} \subseteq DOMAIN disk
  BY <1>2, <1>4, RequestWords DEF IInv, Types
<1>7. /\ SealPath(r.req) # StubPath(r.req) /\ SealPath(r.req) # ReportPath(r.req)
      /\ StubPath(r.req) # ReportPath(r.req)
  BY DEF SealPath, StubPath, ReportPath
<1>8. CASE proc[p].pc = "store"
  <2>1. OwnFiles(r)'
    BY <1>4, <1>8 DEF OwnFiles
  <2>2. QED BY <1>5, <2>1 DEF OwnFiles
<1>9. CASE proc[p].pc = "seals"
  <2>1. FileWritten(p) = SealPath(r.req)
    BY <1>4, <1>9 DEF FileWritten
  <2>2. disk'[SealPath(r.req)] = Torn
    BY <1>5, <1>6, <2>1
  <2>3. QED BY <1>4, <1>5, <1>9, <2>2 DEF OwnFiles
<1>10. CASE proc[p].pc = "c2pa_stub"
  <2>1. FileWritten(p) = StubPath(r.req)
    BY <1>4, <1>10 DEF FileWritten
  <2>2. disk'[StubPath(r.req)] = Torn /\ disk'[SealPath(r.req)] = disk[SealPath(r.req)]
    BY <1>5, <1>6, <1>7, <2>1
  <2>3. QED BY <1>4, <1>5, <1>10, <2>2 DEF OwnFiles
<1>11. CASE proc[p].pc = "reports"
  <2>1. FileWritten(p) = ReportPath(r.req)
    BY <1>4, <1>11 DEF FileWritten
  <2>2. /\ disk'[ReportPath(r.req)] = Torn /\ disk'[SealPath(r.req)] = disk[SealPath(r.req)]
        /\ disk'[StubPath(r.req)] = disk[StubPath(r.req)]
    BY <1>5, <1>6, <1>7, <2>1
  <2>3. QED BY <1>4, <1>5, <1>11, <2>2 DEF OwnFiles
<1>12. QED BY <1>1, <1>8, <1>9, <1>10, <1>11

\* A run finds the file as it left it, and fills it.
LEMMA OwnFilesFill ==
  ASSUME IInv, NEW p \in Proc, FillFile(p), OwnFiles(proc[p])
  PROVE  OwnFiles(proc[p])'
<1>1. /\ proc[p] \in RunRecord /\ proc[p].filling
      /\ proc[p].pc \in {"store", "seals", "c2pa_stub", "reports"}
  BY DEF IInv, Types, FillFile, Writing, AfterWrite
<1>2. proc[p].req \in Request
  BY <1>1 DEF IInv, Progress, RunRecord, RunOK
<1>3. PICK r : r = [proc[p] EXCEPT !.pc = AfterWrite[@], !.filling = FALSE]
  OBVIOUS
<1>4. /\ r.pc = AfterWrite[proc[p].pc] /\ r.req = proc[p].req /\ r.prev = proc[p].prev
      /\ r.sid = proc[p].sid /\ r.hit = proc[p].hit /\ ~r.filling
  BY <1>1, <1>3 DEF RunRecord
<1>5. PICK text \in {Content(p)} \union (IF Whole(FileWritten(p)) THEN {Torn} ELSE {}) :
        disk' = [disk EXCEPT ![FileWritten(p)] = text]
  BY DEF FillFile
<1>6. proc'[p] = r
  BY <1>3 DEF FillFile, IInv, Types
<1>7. {SealPath(r.req), StubPath(r.req), ReportPath(r.req)} \subseteq DOMAIN disk
  BY <1>2, <1>4, RequestWords DEF IInv, Types
<1>8. /\ SealPath(r.req) # StubPath(r.req) /\ SealPath(r.req) # ReportPath(r.req)
      /\ StubPath(r.req) # ReportPath(r.req)
  BY DEF SealPath, StubPath, ReportPath
<1>9. CASE proc[p].pc = "store"
  <2>1. r.pc = "emit"
    BY <1>4, <1>9 DEF AfterWrite
  <2>2. OwnFiles(r)'
    BY <1>4, <2>1 DEF OwnFiles
  <2>3. QED BY <1>6, <2>2 DEF OwnFiles
<1>10. CASE proc[p].pc = "seals"
  <2>1. r.pc = "c2pa_stub" /\ FileWritten(p) = SealPath(r.req)
        /\ Content(p) = SealFor(r.req, r.prev, r.sid)
    BY <1>4, <1>10 DEF AfterWrite, FileWritten, Content, SealOf
  <2>2. ~Whole(FileWritten(p))
    BY <1>1, <1>4, <1>10, <2>1 DEF OwnFiles, Whole
  <2>3. disk'[SealPath(r.req)] = SealFor(r.req, r.prev, r.sid)
    BY <1>5, <1>7, <2>1, <2>2
  <2>4. QED BY <1>4, <1>6, <2>1, <2>3 DEF OwnFiles
<1>11. CASE proc[p].pc = "c2pa_stub"
  <2>1. r.pc = "reports" /\ FileWritten(p) = StubPath(r.req)
        /\ Content(p) = SealFor(r.req, r.prev, r.sid)
    BY <1>4, <1>11 DEF AfterWrite, FileWritten, Content, SealOf
  <2>2. ~Whole(FileWritten(p)) /\ disk[SealPath(r.req)] = SealFor(r.req, r.prev, r.sid)
    BY <1>1, <1>4, <1>11, <2>1 DEF OwnFiles, Whole
  <2>3. disk'[StubPath(r.req)] = SealFor(r.req, r.prev, r.sid)
        /\ disk'[SealPath(r.req)] = disk[SealPath(r.req)]
    BY <1>5, <1>7, <1>8, <2>1, <2>2
  <2>4. QED BY <1>4, <1>6, <2>1, <2>2, <2>3 DEF OwnFiles
<1>12. CASE proc[p].pc = "reports"
  <2>1. r.pc = "done" /\ FileWritten(p) = ReportPath(r.req)
        /\ Content(p) = ReportFor(r.req, r.prev, r.sid, r.hit)
    BY <1>4, <1>12 DEF AfterWrite, FileWritten, Content, ReportOf
  <2>2. /\ ~Whole(FileWritten(p)) /\ disk[SealPath(r.req)] = SealFor(r.req, r.prev, r.sid)
        /\ disk[StubPath(r.req)] = SealFor(r.req, r.prev, r.sid)
    BY <1>1, <1>4, <1>12, <2>1 DEF OwnFiles, Whole
  <2>3. /\ disk'[ReportPath(r.req)] = ReportFor(r.req, r.prev, r.sid, r.hit)
        /\ disk'[SealPath(r.req)] = disk[SealPath(r.req)]
        /\ disk'[StubPath(r.req)] = disk[StubPath(r.req)]
    BY <1>5, <1>7, <1>8, <2>1, <2>2
  <2>4. QED BY <1>4, <1>6, <2>1, <2>2, <2>3 DEF OwnFiles
<1>13. QED BY <1>1, <1>9, <1>10, <1>11, <1>12

\* So a run that is alone stays undisturbed while it writes.
LEMMA OwnWrite ==
  ASSUME IInv, Solitude, NEW p \in Proc, OpenFile(p) \/ FillFile(p)
  PROVE  Undisturbed(p)'
<1>1. proc[p] \in RunRecord /\ proc[p].pc \in {"store", "seals", "c2pa_stub", "reports"}
  BY DEF IInv, Types, OpenFile, FillFile, Writing, AfterWrite
<1>2. PICK next, filling : proc' = [proc EXCEPT ![p].pc = next, ![p].filling = filling]
  <2>1. CASE OpenFile(p)
    <3>1. [proc EXCEPT ![p].filling = TRUE]
            = [proc EXCEPT ![p].pc = proc[p].pc, ![p].filling = TRUE]
      BY <1>1 DEF IInv, Types, RunRecord
    <3>2. QED BY <2>1, <3>1 DEF OpenFile
  <2>2. CASE FillFile(p)
    <3>1. proc' = [proc EXCEPT ![p].pc = AfterWrite[proc[p].pc], ![p].filling = FALSE]
      BY <2>2 DEF FillFile, IInv, Types
    <3>2. QED BY <3>1
  <2>3. QED BY <2>1, <2>2
<1>3. PICK r : r = [proc[p] EXCEPT !.pc = next, !.filling = filling]
  OBVIOUS
<1>4. r.req = proc[p].req /\ r.prev = proc[p].prev /\ r.alone = proc[p].alone
  BY <1>1, <1>3 DEF RunRecord
<1>5. /\ proc'[p] = r /\ \A q \in Proc \ {p} : proc'[q] = proc[q]
      /\ audit' = audit /\ proc[p].pc \in Active
  BY <1>1, <1>2, <1>3 DEF OpenFile, FillFile, IInv, Types, Active
<1>6. ASSUME OwnFiles(proc[p]) PROVE OwnFiles(r)'
  <2>1. OwnFiles(proc[p])'
    BY <1>6, OwnFilesOpen, OwnFilesFill
  <2>2. QED BY <1>5, <2>1 DEF OwnFiles
<1>7. Undisturbed(p)
  BY DEF Solitude
<1>8. QED BY <1>4, <1>5, <1>6, <1>7, UndisturbedMoves

\* Raising, looking up and dying write nothing but, at most, more of the log.
LEMMA OwnOther ==
  ASSUME IInv, Solitude, NEW p \in Proc, FeaturesRaise(p) \/ Lookup(p) \/ Crash(p)
  PROVE  Undisturbed(p)'
<1>1. proc[p] \in RunRecord /\ RunOK(proc[p]) /\ Undisturbed(p)
  BY DEF IInv, Types, Progress, Solitude
<1>2. CASE FeaturesRaise(p)
  <2>1. proc'[p].pc = "raised"
    BY <1>1, <1>2 DEF FeaturesRaise, RunRecord, IInv, Types
  <2>2. QED BY <2>1 DEF Undisturbed, Active
<1>3. CASE Lookup(p)
  <2>1. PICK hit : proc' = [proc EXCEPT ![p].pc = "cached", ![p].hit = hit]
    BY <1>3 DEF Lookup
  <2>2. PICK r : r = [proc[p] EXCEPT !.pc = "cached", !.hit = hit]
    OBVIOUS
  <2>3. /\ r.pc = "cached" /\ r.req = proc[p].req /\ r.prev = proc[p].prev
        /\ r.alone = proc[p].alone
    BY <1>1, <2>2 DEF RunRecord
  <2>4. /\ proc'[p] = r /\ \A q \in Proc \ {p} : proc'[q] = proc[q]
        /\ audit' = audit /\ proc[p].pc \in Active
    BY <1>3, <2>1, <2>2 DEF Lookup, IInv, Types, Active
  <2>5. OwnFiles(r)'
    BY <2>3 DEF OwnFiles
  <2>6. QED BY <1>1, <2>3, <2>4, <2>5, UndisturbedMoves
<1>4. CASE Crash(p)
  <2>1. proc'[p] = Idle
    BY <1>4 DEF Crash, IInv, Types
  <2>2. ~proc'[p].alone
    BY <2>1 DEF Idle
  <2>3. QED BY <2>2 DEF Undisturbed
<1>5. QED BY <1>2, <1>3, <1>4

\* Every step leaves the runs that are alone to themselves.
LEMMA NextSolitude == IInv /\ Solitude /\ [Next]_vars => Solitude'
<1> SUFFICES ASSUME IInv, Solitude, [Next]_vars PROVE Solitude'
  OBVIOUS
<1>1. CASE UNCHANGED vars
  BY <1>1 DEF vars, Solitude, Undisturbed, OwnFiles
<1>2. ASSUME NEW p \in Proc, NEW req \in Request, Start(p, req) PROVE Solitude'
  BY <1>2, StartDisturbsNone
<1>3. ASSUME NEW p \in Proc, Step(p) \/ Crash(p) PROVE Solitude'
  <2>1. ASSUME NEW q \in Proc \ {p} PROVE Undisturbed(q)'
    BY <1>3, OthersStep
  <2>2. Undisturbed(p)'
    <3>1. CASE Received(p)
      BY <3>1, OwnLog DEF Received
    <3>2. CASE Policy(p)
      BY <3>2, OwnLog DEF Policy
    <3>3. CASE Features(p)
      BY <3>3, OwnLog DEF Features
    <3>4. CASE Cached(p)
      BY <3>4, OwnLog DEF Cached
    <3>5. CASE Emit(p)
      BY <3>5, OwnLog DEF Emit
    <3>6. CASE OpenFile(p)
      BY <3>6, OwnWrite
    <3>7. CASE FillFile(p)
      BY <3>7, OwnWrite
    <3>8. CASE FeaturesRaise(p) \/ Lookup(p) \/ Crash(p)
      BY <3>8, OwnOther
    <3>9. QED BY <1>3, <3>1, <3>2, <3>3, <3>4, <3>5, <3>6, <3>7, <3>8 DEF Step
  <2>3. QED BY <2>1, <2>2 DEF Solitude
<1>4. QED BY <1>1, <1>2, <1>3 DEF Next

\* A log that one run has written from the start verifies, and its head is the
\* run's.
LEMMA OwnLogVerifies ==
  ASSUME NEW prev \in Seq(Event), prev # << >>
  PROVE  LET file == LogAll(<< >>, << >>, prev)
         IN  file # << >> /\ ChainOK(file) /\ HeadHash(file) = prev
<1> DEFINE file == LogAll(<< >>, << >>, prev)
<1>1. /\ Len(file) = Len(prev) /\ Len(prev) \in Nat /\ file \in Seq(LoggedLine)
      /\ \A i \in 1..Len(prev) : file[i] = EventLine(SubSeq(prev, 1, i - 1), prev[i])
  BY LogAllFromStart
<1> HIDE DEF file
<1>2. Len(prev) # 0
  OBVIOUS
<1>3. << >> \in Seq(Event)
  OBVIOUS
<1>4. ASSUME NEW i \in 1..Len(prev) PROVE file[i].hash = SubSeq(prev, 1, i)
  <2>1. EventLine(<< >> \o SubSeq(prev, 1, i - 1), prev[i]).hash = << >> \o SubSeq(prev, 1, i)
    BY <1>3, HashOfPrefix
  <2>2. i \in 0..Len(prev) /\ i - 1 \in 0..Len(prev)
    BY <1>1
  <2>3. SubSeq(prev, 1, i) \in Seq(Event) /\ SubSeq(prev, 1, i - 1) \in Seq(Event)
    BY <2>2, Prefix
  <2>4. /\ << >> \o SubSeq(prev, 1, i) = SubSeq(prev, 1, i)
        /\ << >> \o SubSeq(prev, 1, i - 1) = SubSeq(prev, 1, i - 1)
    BY <2>3, ConcatEmptySeq
  <2>5. QED BY <1>1, <2>1, <2>4
<1>5. ASSUME NEW i \in 1..Len(prev) PROVE LineAccepted(file, i)
  <2>1. /\ Parses(file[i]) /\ file[i].prev = SubSeq(prev, 1, i - 1)
        /\ file[i].hash = HashOf(file[i].prev, file[i].body)
    <3>1. PICK before : before = SubSeq(prev, 1, i - 1)
      OBVIOUS
    <3>2. file[i] = EventLine(before, prev[i])
      BY <1>1, <3>1
    <3>3. QED BY <3>1, <3>2 DEF EventLine, Parses
  <2>2. ExpectedPrev(file, i) = SubSeq(prev, 1, i - 1)
    <3>1. CASE i = 1
      <4>1. 0 \in 0..Len(prev) /\ i - 1 = 0
        BY <1>1, <3>1
      <4>2. SubSeq(prev, 1, i - 1) = << >>
        BY <4>1, Prefix
      <4>3. QED BY <3>1, <4>2 DEF ExpectedPrev, Genesis
    <3>2. CASE i # 1
      <4>1. i - 1 \in 1..Len(prev)
        BY <1>1, <3>2
      <4>2. QED BY <1>4, <3>2, <4>1 DEF ExpectedPrev
    <3>3. QED BY <3>1, <3>2
  <2>3. QED BY <2>1, <2>2 DEF LineAccepted
<1>6. HeadHash(file) = prev
  <2>1. Len(prev) \in 1..Len(prev) /\ file # << >>
    BY <1>1, <1>2
  <2>2. SubSeq(prev, 1, Len(prev)) = prev
    BY SubSeqFull
  <2>3. QED BY <1>1, <1>4, <2>1, <2>2 DEF HeadHash
<1>7. QED BY <1>1, <1>2, <1>5, <1>6 DEF ChainOK, file

\* What a run that is alone has when it is done verifies in full.
LEMMA LoneVerifies == IInv /\ Solitude => LoneRunVerifies
<1> SUFFICES ASSUME IInv, Solitude, NEW p \in Proc, proc[p].pc = "done", proc[p].alone
             PROVE  LET req  == proc[p].req
                        seal == disk[SealPath(req)]
                    IN  /\ \A path \in {SealPath(req), StubPath(req), ReportPath(req)} :
                             Whole(path)
                        /\ VerifySeal(req.values, seal, LogVerdict(req.run)) = None
                        /\ DualChannelReason(seal, disk[StubPath(req)]) = None
                        /\ disk[ReportPath(req)].seal = seal.epw
                        /\ disk[ReportPath(req)].head = LogVerdict(req.run)
  BY DEF LoneRunVerifies
<1>1. PICK req \in Request, hit \in BOOLEAN, sid \in 1..MaxRuns :
        req = proc[p].req /\ hit = proc[p].hit /\ sid = proc[p].sid
  BY DEF IInv, Types, Progress, RunRecord, RunOK
<1>2. PICK head \in Seq(Event) : head = proc[p].prev
  BY DEF IInv, Types, RunRecord
<1>3. ~ExtractRaises(req.values, req.config) /\ head = SealedHistory(req, hit)
  BY <1>1, <1>2 DEF IInv, Progress, RunOK, Past
<1>4. PICK seal : seal = SealFor(req, head, sid)
  OBVIOUS
<1>5. /\ disk[SealPath(req)] = seal /\ disk[StubPath(req)] = seal
      /\ disk[ReportPath(req)] = ReportFor(req, head, sid, hit)
      /\ audit[req.run] = LogAll(<< >>, << >>, head)
  BY <1>1, <1>2, <1>4 DEF Solitude, Undisturbed, OwnFiles
<1>6. /\ {seal, ReportFor(req, head, sid, hit)} \intersect {Absent, Torn} = {}
      /\ seal.epw # None
  BY <1>3, <1>4, TextAssumption
<1>7. LogVerdict(req.run) = head
  <2>1. head # << >>
    BY <1>3 DEF SealedHistory
  <2>2. QED BY <1>2, <1>5, <2>1, OwnLogVerifies DEF LogVerdict
<1>8. seal.head = head
  BY <1>4 DEF SealFor, CreateSeal, Payload
<1>9. VerifySeal(req.values, seal, head) = None
  BY <1>3, <1>4, <1>8, SealVerifies
<1>10. ReportFor(req, head, sid, hit).seal = seal.epw /\ ReportFor(req, head, sid, hit).head = head
  BY <1>4 DEF ReportFor
<1>11. \A path \in {SealPath(req), StubPath(req), ReportPath(req)} : Whole(path)
  BY <1>5, <1>6 DEF Whole
<1>12. DualChannelReason(seal, seal) = None
  BY <1>6 DEF DualChannelReason
<1>13. QED BY <1>1, <1>5, <1>7, <1>9, <1>10, <1>11, <1>12

LEMMA InitSolitude == Init => Solitude
BY DEF Init, Solitude, Undisturbed, Idle

\* A run under a fresh run id that nothing overlapped or followed ends with
\* evidence that verifies in full: seal with log, both channels, and report.
THEOREM LoneRun == Spec => []LoneRunVerifies
BY InitSolitude, LoneVerifies, Invariant, NextSolitude, PTL DEF Spec
=============================================================================
