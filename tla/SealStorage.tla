----------------------------- MODULE SealStorage -----------------------------
(***************************************************************************)
(* An artifact, its seal record and its audit log after the run that made  *)
(* them: any of the three may be changed in storage, one piece at a time,  *)
(* before verify_seal looks at them (src/hashen/provenance/seal.py).       *)
(***************************************************************************)
EXTENDS Seal

CONSTANTS Artifact,   \* contents an artifact file may have
          Config,     \* config vectors
          AuditHead,  \* audit head hashes
          Sandbox,    \* sandbox metadata, None included
          Routing,    \* routing paths
          Stray,      \* a value that belongs nowhere
          MaxEdits    \* bound: changes to what is stored

ASSUME StorageAssumption ==
  /\ Artifact \subseteq Seq(Byte)
  /\ None \in Sandbox /\ {None, Broken} \intersect (Config \union AuditHead) = {}
  /\ MaxEdits \in Nat
  /\ None \notin SealReasons
  /\ \A c \in Config : NumericConfig(c)

\* A hash can be told from a missing one, and what a run leaves from nothing.
ASSUME HashAssumption ==
  \A v \in Artifact, c \in Config, h \in AuditHead, s \in Sandbox :
    ~ExtractRaises(v, c) =>
      LET seal == CreateSeal(v, c, h, ComputeResonance(v, c), s, 1)
      IN  seal.epw # None /\ [values |-> v, record |-> seal, log |-> h] # None

VARIABLES values,   \* the artifact in storage
          record,   \* the seal record in storage; None before the run
          log,      \* what the audit log in storage verifies to
          sealed,   \* history: the three as the run left them
          edits     \* changes made to storage

vars == <<values, record, log, sealed, edits>>

Init ==
  /\ values \in Artifact
  /\ record = None
  /\ log = None
  /\ sealed = None
  /\ edits = 0

\* A run seals the artifact with the head of its audit log.
Issue(config, head, sandbox, issued) ==
  /\ sealed = None
  /\ ~ExtractRaises(values, config)
  /\ record' = CreateSeal(values, config, head, ComputeResonance(values, config),
                          sandbox, issued)
  /\ log' = head
  /\ sealed' = [values |-> values, record |-> record', log |-> head]
  /\ UNCHANGED <<values, edits>>

Edit ==
  /\ sealed # None
  /\ edits < MaxEdits
  /\ edits' = edits + 1
  /\ UNCHANGED sealed

ChangeArtifact(v) ==
  /\ Edit
  /\ values' = v
  /\ UNCHANGED <<record, log>>

\* The log is lost, or replaced by one that is broken or has another head.
ChangeLog(verdict) ==
  /\ Edit
  /\ log' = verdict
  /\ UNCHANGED <<values, record>>

\* What may end up in a field of the record: None when the key is dropped.
ValuesFor(field) ==
  CASE field = "schema"    -> {None, "v1", "v2"}
    [] field = "issued"    -> {None, 1, 2}
    [] field = "epw"       -> {None, Stray}
    [] field = "h1"        -> {None, << >>}
    [] field = "h2"        -> {None, Stray}
    [] field = "resonance" -> {None, <<0, 1>>}
    [] field = "routing"   -> {None} \union Routing
    [] field = "config"    -> {None} \union Config
    [] field = "head"      -> {None} \union AuditHead
    [] field = "sandbox"   -> Sandbox
    [] field = "digest"    -> {None, Stray}
    [] field = "cvh"       -> {None, Stray}

ChangeRecord(field, stray) ==
  /\ Edit
  /\ record' = [record EXCEPT ![field] = stray]
  /\ UNCHANGED <<values, log>>

Next ==
  \/ \E c \in Config, h \in AuditHead, s \in Sandbox : Issue(c, h, s, 1)
  \/ \E v \in Artifact : ChangeArtifact(v)
  \/ \E verdict \in {None, Broken} \union AuditHead : ChangeLog(verdict)
  \/ sealed # None
     /\ \E field \in DOMAIN sealed.record : \E stray \in ValuesFor(field) :
          ChangeRecord(field, stray)

Spec == Init /\ [][Next]_vars

-----------------------------------------------------------------------------
(* Properties *)

Verdict == VerifySeal(values, record, log)

\* Every reason is one of the documented codes; of the record in storage each field
\* is the run's, or something that a change put there.
TypeOK ==
  /\ values \in Artifact
  /\ log \in {None, Broken} \union AuditHead
  /\ edits \in 0..MaxEdits
  /\ sealed = None => record = None /\ log = None
  /\ sealed # None =>
       /\ DOMAIN record = DOMAIN sealed.record
       /\ \A field \in DOMAIN record :
            record[field] \in ValuesFor(field) \union {sealed.record[field]}
       /\ Verdict \in SealReasons \union {None}

\* What the run stored verifies, and keeps verifying in storage nothing has
\* changed: recomputation reproduces the stored resonance, the routing path,
\* the sandbox metadata and the config with its hash.
FreshSealVerifies ==
  sealed # None /\ values = sealed.values /\ record = sealed.record /\ log = sealed.log
    => Verdict = None

\* What a verdict vouches for.  When a record with the run's EPW hash verifies,
\* config, audit head, routing path, sandbox metadata and policy digest are the
\* run's; the artifact has the run's H1 subset and entropy; and the audit log,
\* if there is one, is intact and ends in the run's last event.
VerdictVouches ==
  sealed # None /\ Verdict = None /\ record.epw = sealed.record.epw =>
    /\ \A f \in {"config", "head", "sandbox", "digest"} :
         record[f] = sealed.record[f]
    /\ record.routing \in {None, sealed.record.routing}
    /\ record.resonance \in {None, sealed.record.resonance}
    /\ record.cvh # None
    /\ ExtractH1Subset(values, record.config) = sealed.record.h1
    /\ EntropyH2(values, record.config) = sealed.record.h2
    /\ log \in {None, sealed.log}

\* A reason points at what was changed: AUDIT_CHAIN_BROKEN at the log or the
\* recorded head, EPW_MISMATCH at the artifact or a field the hash covers (never
\* at the time of issue), and the run's own config never raises on the run's
\* artifact.
ReasonPointsAtChange ==
  sealed # None =>
    /\ Verdict = "AUDIT_CHAIN_BROKEN" =>
         log # sealed.log \/ record.head # sealed.record.head
    /\ Verdict = "EPW_MISMATCH" =>
         \/ values # sealed.values
         \/ \E f \in DOMAIN record \ {"issued", "schema", "h1", "h2"} :
              record[f] # sealed.record[f]
    /\ Verdict = "raises" =>
         values # sealed.values \/ record.config # sealed.record.config

\* No byte escapes the features by arithmetic.  The H1 subset has as many values
\* as its limit asks for, or all there are: no length of artifact makes the
\* sampling step skip past the end too early.  And every byte is counted in some
\* bin, the ones at and outside the ends of the range included.
FeaturesCoverArtifact ==
  \A c \in Config :
    /\ c.size # None /\ c.size > 0 =>
         Len(ExtractH1Subset(values, c)) = IF Len(values) < c.size THEN Len(values) ELSE c.size
    /\ SumFunction(Histogram(values, c)) = Len(values)

\* docs/TECHNICAL_POSITIONING.md: "Changing a single byte in the artifact (with
\* the same config) changes the hash"; so verification of a changed artifact
\* fails.
ModifiedArtifactDetected ==
  sealed # None /\ values # sealed.values => Verdict # None
=============================================================================
