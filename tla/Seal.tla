-------------------------------- MODULE Seal --------------------------------
(***************************************************************************)
(* The seal of an artifact (EPW): what create_seal computes and hashes,    *)
(* and what verify_seal recomputes from the artifact and the stored record *)
(* (src/hashen/provenance/seal.py).                                        *)
(*                                                                         *)
(* The EPW hash, a SHA-256 of canonical JSON, is collision-free here: it   *)
(* is the payload itself.                                                  *)
(***************************************************************************)
EXTENDS Analytics

CONSTANT Broken   \* what a log that does not verify has instead of a head

\* compute_deterministic_payload: the features are computed from the artifact,
\* everything else is taken as given.  None stands for an omitted key.
Payload(values, given) ==
  [h1        |-> ExtractH1Subset(values, given.config),
   h2        |-> EntropyH2(values, given.config),
   resonance |-> IF given.resonance = None
                   THEN ComputeResonance(values, given.config)
                   ELSE given.resonance,
   routing   |-> IF given.routing = None THEN << >> ELSE given.routing,
   config    |-> given.config,
   head      |-> given.head,
   sandbox   |-> given.sandbox,
   digest    |-> given.digest,
   cvh       |-> IF given.cvh = None THEN None ELSE given.config]

\* A plausible bug: the hash also covers the envelope.
EpwOfEnvelope(payload, issued) == <<payload, issued>>

\* compute_epw_hash; issued_at is no part of what is hashed.
EpwOf(payload, issued) == payload

\* A plausible bug: the hash of the config is hashed but not stored.
CreateSealHashNotStored(values, config, head, resonance, sandbox, issued) ==
  LET payload == Payload(values,
        [config |-> config, head |-> head, resonance |-> resonance,
         routing |-> None, sandbox |-> sandbox, digest |-> None, cvh |-> config])
  IN  [schema |-> "v1", issued |-> issued, epw |-> EpwOf(payload, issued),
       h1 |-> payload.h1, h2 |-> payload.h2, resonance |-> payload.resonance,
       routing |-> payload.routing, config |-> payload.config,
       head |-> payload.head, sandbox |-> payload.sandbox,
       digest |-> payload.digest, cvh |-> None]

\* create_seal: the payload, with its hash and the time of issue.
CreateSeal(values, config, head, resonance, sandbox, issued) ==
  LET payload == Payload(values,
        [config |-> config, head |-> head, resonance |-> resonance,
         routing |-> None, sandbox |-> sandbox, digest |-> None, cvh |-> config])
  IN  [schema |-> "v1", issued |-> issued, epw |-> EpwOf(payload, issued),
       h1 |-> payload.h1, h2 |-> payload.h2, resonance |-> payload.resonance,
       routing |-> payload.routing, config |-> payload.config,
       head |-> payload.head, sandbox |-> payload.sandbox,
       digest |-> payload.digest, cvh |-> payload.cvh]

\* A plausible bug: a chain that verifies is good enough, whatever its head.
AuditReasonAnyHead(record, log) ==
  IF log = Broken THEN "AUDIT_CHAIN_BROKEN" ELSE None

\* The audit checks: log is None when there is no file at the given path,
\* Broken, or the head hash of the chain in the file.
AuditReason(record, log) ==
  IF log # None /\ (log = Broken \/ log # record.head)
    THEN "AUDIT_CHAIN_BROKEN" ELSE None

\* The reason codes of verify_seal, and the exception that may leave it.
SealReasons ==
  {"CONFIG_VECTOR_MISSING", "REQUIRED_FIELD_MISSING", "SCHEMA_VERSION_UNSUPPORTED",
   "AUDIT_CHAIN_BROKEN", "EPW_MISMATCH", "raises"}

\* A plausible bug: a mismatch goes under a code that is not documented.
VerifySealOtherCode(values, record, log) ==
  IF record.config # None /\ record.epw # None /\ record.schema \in {None, "v1"}
       /\ AuditReason(record, log) = None /\ ~ExtractRaises(values, record.config)
    THEN IF record.epw # EpwOf(Payload(values, record), record.issued)
           THEN "SEAL_MISMATCH" ELSE None
    ELSE "REQUIRED_FIELD_MISSING"

\* verify_seal: None when the seal verifies, else why it does not; "raises"
\* when an exception leaves it.
VerifySeal(values, record, log) ==
  IF record.config = None THEN "CONFIG_VECTOR_MISSING"
  ELSE IF record.epw = None THEN "REQUIRED_FIELD_MISSING"
  ELSE IF record.schema \notin {None, "v1"} THEN "SCHEMA_VERSION_UNSUPPORTED"
  ELSE IF AuditReason(record, log) # None THEN AuditReason(record, log)
  ELSE IF ExtractRaises(values, record.config) THEN "raises"
  ELSE IF record.epw # EpwOf(Payload(values, record), record.issued)
    THEN "EPW_MISMATCH"
  ELSE None

\* verify_dual_channel_consistency on two files that exist and parse.
DualChannelReason(sidecar, stub) ==
  IF sidecar.epw = None \/ stub.epw = None THEN "REQUIRED_FIELD_MISSING"
  ELSE IF sidecar.epw # stub.epw THEN "DUAL_CHANNEL_MISMATCH"
  ELSE None
=============================================================================
