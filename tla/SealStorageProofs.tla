--------------------------- MODULE SealStorageProofs ---------------------------
(***************************************************************************)
(* Proofs about SealStorage: what a verdict, and a reason, says about the  *)
(* artifact, the record and the log, for all artifacts, configs and        *)
(* sequences of changes.                                                   *)
(***************************************************************************)
EXTENDS SealStorage, SealProofs

\* The record that a run makes of these.
Fresh(v, c, h, s) == CreateSeal(v, c, h, ComputeResonance(v, c), s, 1)

Fields == {"schema", "issued", "epw", "h1", "h2", "resonance", "routing", "config",
           "head", "sandbox", "digest", "cvh"}

\* What was sealed is a run's record of an artifact and its log's head.
SealedByRun ==
  sealed # None =>
    \E v \in Artifact, c \in Config, h \in AuditHead, s \in Sandbox :
      /\ ~ExtractRaises(v, c)
      /\ sealed = [values |-> v, record |-> Fresh(v, c, h, s), log |-> h]

\* The record keeps its fields, whatever is done to it.
FieldsKept == sealed # None => DOMAIN record = Fields

IInv == TypeOK /\ SealedByRun /\ FieldsKept

\* The fields of a fresh record.
LEMMA FreshFields ==
  ASSUME NEW v \in Artifact, NEW c \in Config, NEW h \in AuditHead, NEW s \in Sandbox,
         ~ExtractRaises(v, c)
  PROVE  LET r == Fresh(v, c, h, s)
         IN  /\ r.schema = "v1" /\ r.config = c /\ c # None /\ r.epw # None
             /\ r.head = h /\ h # Broken /\ h # None
             /\ r.epw = Payload(v, r) /\ r.cvh = c /\ r.routing = << >>
             /\ r.epw.config = c /\ r.epw.head = h /\ r.epw.sandbox = r.sandbox
             /\ r.epw.digest = r.digest /\ r.epw.resonance = r.resonance
             /\ r.epw.h1 = r.h1 /\ r.epw.h2 = r.h2 /\ r.epw.routing = r.routing
             /\ r.epw.cvh = c
             /\ DOMAIN r = Fields
<1>1. c # None /\ h # Broken /\ h # None
  BY StorageAssumption
<1>2. Fresh(v, c, h, s).epw # None
  BY HashAssumption DEF Fresh
<1>3. Fresh(v, c, h, s).epw = Payload(v, Fresh(v, c, h, s))
  BY PayloadRecomputed DEF Fresh, EpwOf
<1> DEFINE payload == Payload(v, [config |-> c, head |-> h, resonance |-> ComputeResonance(v, c),
                     routing |-> None, sandbox |-> s, digest |-> None, cvh |-> c])
<1>4. /\ payload.config = c /\ payload.head = h /\ payload.routing = << >> /\ payload.cvh = c
  BY <1>1 DEF Payload
<1> HIDE DEF payload
<1>5. Fresh(v, c, h, s) =
        [schema |-> "v1", issued |-> 1, epw |-> payload,
         h1 |-> payload.h1, h2 |-> payload.h2, resonance |-> payload.resonance,
         routing |-> payload.routing, config |-> payload.config,
         head |-> payload.head, sandbox |-> payload.sandbox,
         digest |-> payload.digest, cvh |-> payload.cvh]
  BY DEF Fresh, CreateSeal, EpwOf, payload
<1>6. QED BY <1>1, <1>2, <1>3, <1>4, <1>5 DEF Fields

\* A change leaves what was sealed, and of the record every field but at most one.
LEMMA ChangeKeeps ==
  ASSUME sealed # None, TypeOK, Next, sealed' = sealed
  PROVE  /\ values' \in Artifact /\ log' \in {None, Broken} \union AuditHead
         /\ edits' \in 0..MaxEdits /\ DOMAIN record' = DOMAIN record
         /\ \A field \in DOMAIN record :
              record'[field] \in ValuesFor(field) \union {sealed.record[field]}
<1> USE DEF TypeOK
<1>1. ASSUME NEW field \in DOMAIN sealed.record, NEW stray \in ValuesFor(field),
             ChangeRecord(field, stray)
      PROVE  /\ DOMAIN record' = DOMAIN record
             /\ \A f \in DOMAIN record :
                  record'[f] \in ValuesFor(f) \union {sealed.record[f]}
  <2>1. record' = [record EXCEPT ![field] = stray]
    BY <1>1 DEF ChangeRecord
  <2>2. ASSUME NEW f \in DOMAIN record
        PROVE  record'[f] = IF f = field THEN stray ELSE record[f]
    BY <2>1, <2>2
  <2>3. QED BY <1>1, <2>1, <2>2
<1>2. /\ values' \in Artifact /\ log' \in {None, Broken} \union AuditHead
      /\ edits' \in 0..MaxEdits
  BY StorageAssumption DEF Next, Issue, ChangeArtifact, ChangeLog, ChangeRecord, Edit
<1>3. ASSUME record' = record
      PROVE  /\ DOMAIN record' = DOMAIN record
             /\ \A f \in DOMAIN record :
                  record'[f] \in ValuesFor(f) \union {sealed.record[f]}
  BY <1>3
<1>4. QED BY <1>1, <1>2, <1>3 DEF Next, Issue, ChangeArtifact, ChangeLog

\* What was sealed was sealed by a run, and the record has its fields, each the
\* run's or something that a change put there.
LEMMA Invariant == Spec => []IInv
<1>1. Init => IInv
  BY StorageAssumption DEF Init, IInv, TypeOK, SealedByRun, FieldsKept
<1>2. IInv /\ [Next]_vars => IInv'
  <2> SUFFICES ASSUME IInv, [Next]_vars PROVE IInv'
    OBVIOUS
  <2> USE DEF IInv
  <2>0. (Verdict \in SealReasons \union {None})'
    BY DEF Verdict, VerifySeal, AuditReason, SealReasons
  <2>1. ASSUME NEW c \in Config, NEW h \in AuditHead, NEW s \in Sandbox, Issue(c, h, s, 1)
        PROVE  IInv'
    <3>1. /\ values \in Artifact /\ edits \in 0..MaxEdits
          /\ values' = values /\ edits' = edits /\ log' = h
      BY <2>1 DEF TypeOK, Issue
    <3>2. /\ ~ExtractRaises(values, c) /\ record' = Fresh(values, c, h, s)
          /\ sealed' = [values |-> values, record |-> Fresh(values, c, h, s), log |-> h]
      BY <2>1 DEF Issue, Fresh
    <3>3. DOMAIN Fresh(values, c, h, s) = Fields
      BY <3>1, <3>2, FreshFields
    <3>4. sealed' # None
      BY <3>1, <3>2, HashAssumption DEF Fresh
    <3>5. SealedByRun' /\ FieldsKept'
      BY <3>1, <3>2, <3>3 DEF SealedByRun, FieldsKept
    <3>6. sealed'.record = record'
      BY <3>2
    <3>7. TypeOK'
      BY <2>0, <3>1, <3>4, <3>6 DEF TypeOK
    <3>8. QED BY <3>5, <3>7
  <2>2. ASSUME sealed' = sealed, sealed # None, Next
        PROVE  IInv'
    <3>1. SealedByRun' /\ FieldsKept'
      BY <2>2, ChangeKeeps DEF SealedByRun, FieldsKept
    <3>2. TypeOK'
      BY <2>0, <2>2, ChangeKeeps DEF TypeOK
    <3>3. QED BY <3>1, <3>2
  <2>3. ASSUME Next, \A c \in Config, h \in AuditHead, s \in Sandbox : ~Issue(c, h, s, 1)
        PROVE  sealed' = sealed /\ sealed # None
    BY <2>3 DEF Next, ChangeArtifact, ChangeLog, ChangeRecord, Edit
  <2>4. ASSUME UNCHANGED vars PROVE IInv'
    BY <2>0, <2>4 DEF vars, TypeOK, SealedByRun, FieldsKept
  <2>5. QED BY <2>1, <2>2, <2>3, <2>4
<1>3. QED BY <1>1, <1>2, PTL DEF Spec

\* Whatever is done to what a run stored, each field of the record is the run's or
\* what a change put there, and every verdict is one of the documented codes.
THEOREM StorageTypeCorrect == Spec => []TypeOK
BY Invariant, PTL DEF IInv

\* For every artifact and config, the H1 subset is as long as its limit asks for,
\* and every byte is counted in some bin.
THEOREM FeaturesCover == Spec => []FeaturesCoverArtifact
<1>1. TypeOK => FeaturesCoverArtifact
  <2> SUFFICES ASSUME TypeOK, NEW c \in Config
               PROVE  /\ c.size # None /\ c.size > 0 =>
                           Len(ExtractH1Subset(values, c))
                             = IF Len(values) < c.size THEN Len(values) ELSE c.size
                      /\ SumFunction(Histogram(values, c)) = Len(values)
    BY DEF FeaturesCoverArtifact
  <2>1. values \in Seq(Byte) /\ NumericConfig(c)
    BY StorageAssumption DEF TypeOK
  <2>2. SumFunction(Histogram(values, c)) = Len(values)
    BY <2>1, HistogramTotal
  <2>3. ASSUME c.size # None, c.size > 0
        PROVE  Len(ExtractH1Subset(values, c))
                 = IF Len(values) < c.size THEN Len(values) ELSE c.size
    <3>1. c.size \in Nat \ {0}
      BY <2>1, <2>3 DEF NumericConfig
    <3>2. QED BY <2>1, <2>3, <3>1, SubsetSize
  <2>4. QED BY <2>2, <2>3
<1>2. QED BY <1>1, Invariant, PTL DEF IInv

\* What the run stored verifies for as long as nothing changes it.
THEOREM FreshVerifies == Spec => []FreshSealVerifies
<1>1. SealedByRun => FreshSealVerifies
  <2> SUFFICES ASSUME SealedByRun, sealed # None, values = sealed.values,
                      record = sealed.record, log = sealed.log
               PROVE  VerifySeal(values, record, log) = None
    BY DEF FreshSealVerifies, Verdict
  <2>1. PICK c \in Config, h \in AuditHead, s \in Sandbox :
          /\ values \in Artifact /\ ~ExtractRaises(values, c)
          /\ record = Fresh(values, c, h, s) /\ log = h
    BY DEF SealedByRun
  <2>2. /\ record.schema = "v1" /\ record.config = c /\ record.config # None
        /\ record.epw # None /\ record.head = h /\ h # Broken
        /\ record.epw = Payload(values, record)
    BY <2>1, FreshFields
  <2>3. AuditReason(record, log) = None
    BY <2>1, <2>2 DEF AuditReason
  <2>4. ~(record.epw # EpwOf(Payload(values, record), record.issued))
    BY <2>2 DEF EpwOf
  <2>5. QED BY <2>1, <2>2, <2>3, <2>4 DEF VerifySeal
<1>2. QED BY <1>1, Invariant, PTL DEF IInv

\* A verdict on a record with the run's hash vouches for config, head, sandbox
\* metadata and digest, for the artifact's features, and for the log.
THEOREM Vouches == Spec => []VerdictVouches
<1>1. SealedByRun => VerdictVouches
  <2> SUFFICES ASSUME SealedByRun, sealed # None,
                      VerifySeal(values, record, log) = None, record.epw = sealed.record.epw
               PROVE  /\ \A f \in {"config", "head", "sandbox", "digest"} :
                           record[f] = sealed.record[f]
                      /\ record.routing \in {None, sealed.record.routing}
                      /\ record.resonance \in {None, sealed.record.resonance}
                      /\ record.cvh # None
                      /\ ExtractH1Subset(values, record.config) = sealed.record.h1
                      /\ EntropyH2(values, record.config) = sealed.record.h2
                      /\ log \in {None, sealed.log}
    BY DEF VerdictVouches, Verdict
  <2>1. PICK v \in Artifact, c \in Config, h \in AuditHead, s \in Sandbox :
          /\ ~ExtractRaises(v, c)
          /\ sealed = [values |-> v, record |-> Fresh(v, c, h, s), log |-> h]
    BY DEF SealedByRun
  <2>2. PICK fresh : fresh = sealed.record
    OBVIOUS
  <2>3. /\ fresh.config = c /\ c # None /\ fresh.head = h
        /\ fresh.epw.config = c /\ fresh.epw.head = h /\ fresh.epw.sandbox = fresh.sandbox
        /\ fresh.epw.digest = fresh.digest /\ fresh.epw.resonance = fresh.resonance
        /\ fresh.epw.h1 = fresh.h1 /\ fresh.epw.h2 = fresh.h2
        /\ fresh.epw.routing = fresh.routing /\ fresh.epw.cvh = c
    BY <2>1, <2>2, FreshFields
  <2>4. PICK payload : payload = Payload(values, record)
    OBVIOUS
  <2>5. /\ AuditReason(record, log) = None
        /\ ~(record.epw # EpwOf(Payload(values, record), record.issued))
    BY StorageAssumption DEF VerifySeal, SealReasons
  <2>6. fresh.epw = payload
    BY <2>2, <2>4, <2>5 DEF EpwOf
  <2>7. /\ payload.h1 = ExtractH1Subset(values, record.config)
        /\ payload.h2 = EntropyH2(values, record.config)
        /\ payload.config = record.config /\ payload.head = record.head
        /\ payload.sandbox = record.sandbox /\ payload.digest = record.digest
        /\ record.routing # None => payload.routing = record.routing
        /\ record.resonance # None => payload.resonance = record.resonance
        /\ record.cvh = None => payload.cvh = None
    BY <2>4, PayloadFields
  <2>8. log = None \/ log = record.head
    BY <2>5, StorageAssumption DEF AuditReason, SealReasons
  <2>9. /\ record["config"] = fresh["config"] /\ record["head"] = fresh["head"]
        /\ record["sandbox"] = fresh["sandbox"] /\ record["digest"] = fresh["digest"]
    BY <2>3, <2>6, <2>7
  <2>10. /\ record.routing \in {None, fresh.routing} /\ record.cvh # None
         /\ record.resonance \in {None, fresh.resonance}
    BY <2>3, <2>6, <2>7
  <2>11. log \in {None, sealed.log}
    BY <2>1, <2>3, <2>8, <2>9
  <2>12. QED BY <2>2, <2>3, <2>6, <2>7, <2>9, <2>10, <2>11
<1>2. QED BY <1>1, Invariant, PTL DEF IInv

\* A reason to reject is never given without a change of what it names.
THEOREM ReasonsPoint == Spec => []ReasonPointsAtChange
<1>1. SealedByRun /\ FieldsKept => ReasonPointsAtChange
  <2> SUFFICES ASSUME SealedByRun, FieldsKept, sealed # None PROVE ReasonPointsAtChange
    BY DEF ReasonPointsAtChange
  <2>1. PICK v \in Artifact, c \in Config, h \in AuditHead, s \in Sandbox :
          /\ ~ExtractRaises(v, c)
          /\ sealed = [values |-> v, record |-> Fresh(v, c, h, s), log |-> h]
    BY DEF SealedByRun
  <2>2. PICK fresh : fresh = sealed.record
    OBVIOUS
  <2>3. /\ fresh.config = c /\ fresh.head = h /\ h # Broken /\ fresh.epw = Payload(v, fresh)
    BY <2>1, <2>2, FreshFields
  <2>4. ASSUME Verdict = "AUDIT_CHAIN_BROKEN"
        PROVE  log # sealed.log \/ record.head # fresh.head
    <3>1. AuditReason(record, log) # None
      BY <2>4, StorageAssumption DEF Verdict, VerifySeal, SealReasons
    <3>2. log = Broken \/ log # record.head
      BY <3>1 DEF AuditReason
    <3>3. QED BY <2>1, <2>3, <3>2
  <2>5. ASSUME Verdict = "EPW_MISMATCH", values = v,
               \A f \in Fields \ {"issued", "schema", "h1", "h2"} : record[f] = fresh[f]
        PROVE  FALSE
    <3>1. record.epw # EpwOf(Payload(values, record), record.issued)
      BY <2>5, StorageAssumption DEF Verdict, VerifySeal, AuditReason, SealReasons
    <3>2. /\ record.config = fresh.config /\ record.head = fresh.head
          /\ record.resonance = fresh.resonance /\ record.routing = fresh.routing
          /\ record.sandbox = fresh.sandbox /\ record.digest = fresh.digest
          /\ record.cvh = fresh.cvh /\ record.epw = fresh.epw
      BY <2>5 DEF Fields
    <3>3. Payload(values, record) = Payload(v, fresh)
      BY <2>5, <3>2 DEF Payload
    <3>4. QED BY <2>3, <3>1, <3>2, <3>3 DEF EpwOf
  <2>6. ASSUME Verdict = "raises"
        PROVE  values # v \/ record.config # fresh.config
    <3>1. ExtractRaises(values, record.config)
      BY <2>6, StorageAssumption DEF Verdict, VerifySeal, AuditReason, SealReasons
    <3>2. QED BY <2>1, <2>3, <3>1
  <2>7. DOMAIN record = Fields
    BY DEF FieldsKept
  <2>8. sealed.values = v
    BY <2>1
  <2>9. QED BY <2>2, <2>4, <2>5, <2>6, <2>7, <2>8 DEF ReasonPointsAtChange
<1>2. QED BY <1>1, Invariant, PTL DEF IInv
=============================================================================
