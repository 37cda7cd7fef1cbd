------------------------------- MODULE Policy -------------------------------
(***************************************************************************)
(* The compliance policy: eight rules over the context of an action, each  *)
(* returning reasons with a severity, and the decision they amount to      *)
(* (src/hashen/compliance/rules.py, policy.py).  Messages, versions and    *)
(* the time of evaluation are left out, and a rule's list of reasons is    *)
(* the set of them: nothing depends on their order.                        *)
(***************************************************************************)
EXTENDS Naturals

CONSTANT None   \* an absent value

Strictness == {"permissive", "standard", "strict"}

Action == {"run", "export", "share", "purge", "delete"}

\* Text of white space only: given, but empty once it is stripped.
Blank == "blank"

(***************************************************************************)
(* RunContext: what is done (action, strictness), the two retention times  *)
(* (raw, derived), legal_hold (hold) and what is known of the data.  Only  *)
(* the values that some rule tells apart are in the sets.                  *)
(***************************************************************************)
RunContext ==
  [action : Action, strictness : Strictness, hold : BOOLEAN,
   raw : Nat \cup {None}, derived : Nat \cup {None},
   class : {None, Blank, "internal", "restricted"},
   source : {None, "user_provided", "partner"}, pii : {None, "unknown", "yes"},
   consent : {None, "consent", "legitimate_interest"}, lawful : {None, "contract"},
   purpose : {None, Blank, "fraud"}, sharing : {None, "no_export", "other"}]

-----------------------------------------------------------------------------
(* The rules *)

\* One reason when the condition holds, none otherwise.
When(condition, code, severity) ==
  IF condition THEN {[code |-> code, severity |-> severity]} ELSE {}

Removes(ctx) == ctx.action \in {"purge", "delete"}

NoBasis(ctx) == ctx.consent = None /\ ctx.lawful = None

\* A plausible bug: the two severities are swapped.
RetentionRequiredSwapped(ctx) ==
  When(/\ ctx.strictness # "permissive"
       /\ ~(Removes(ctx) /\ ctx.hold)
       /\ ctx.raw = None /\ ctx.derived = None,
       "MISSING_RETENTION", IF ctx.strictness = "strict" THEN "warning" ELSE "error")

RetentionRequired(ctx) ==
  When(/\ ctx.strictness # "permissive"
       /\ ~(Removes(ctx) /\ ctx.hold)
       /\ ctx.raw = None /\ ctx.derived = None,
       "MISSING_RETENTION", IF ctx.strictness = "strict" THEN "error" ELSE "warning")

\* A plausible bug: only one of the two actions that remove is looked for.
LegalHoldConflictPurgeOnly(ctx) ==
  When(ctx.action = "purge" /\ ctx.hold, "LEGAL_HOLD_CONFLICT", "error")

LegalHoldConflict(ctx) ==
  When(Removes(ctx) /\ ctx.hold, "LEGAL_HOLD_CONFLICT", "error")

\* Here a purpose of white space counts as given.
PiiHandling(ctx) ==
  When(/\ ctx.pii = "yes"
       /\ NoBasis(ctx) \/ (ctx.strictness = "strict" /\ ctx.purpose = None),
       "PII_HANDLING_ABSENT", IF ctx.strictness = "strict" THEN "error" ELSE "warning")

ClassificationKnown(ctx) ==
  When(ctx.strictness = "strict" /\ ctx.class \in {None, Blank},
       "UNKNOWN_CLASSIFICATION_STRICT", "error")

ConsentUserData(ctx) ==
  When(ctx.source = "user_provided" /\ NoBasis(ctx), "CONSENT_BASIS_ABSENT", "warning")

PurposeStrict(ctx) ==
  When(ctx.strictness = "strict" /\ ctx.purpose \in {None, Blank},
       "PURPOSE_ABSENT_STRICT", "error")

\* The classification adds a reason only where the restriction forbids anyway.
SharingExport(ctx) ==
  When(ctx.action \in {"export", "share"}
         /\ ctx.sharing \in {"internal_only", "no_export", "no_share"},
       IF ctx.action = "share" THEN "SHARING_FORBIDDEN" ELSE "EXPORT_FORBIDDEN", "error")
  \cup
  When(/\ ctx.action = "export" /\ ctx.strictness = "strict"
       /\ ctx.class \in {"restricted", "confidential"} /\ ctx.sharing = "no_export",
       "EXPORT_FORBIDDEN", "error")

\* A plausible bug: it is enough that one of the two times is there.
ReportComplianceFieldsBoth(ctx) ==
  When(/\ ctx.action = "run" /\ ctx.strictness = "strict"
       /\ ctx.raw = None /\ ctx.derived = None,
       "REPORT_FIELDS_INCOMPLETE", "warning")

ReportComplianceFields(ctx) ==
  When(/\ ctx.action = "run" /\ ctx.strictness = "strict"
       /\ ctx.raw = None \/ ctx.derived = None,
       "REPORT_FIELDS_INCOMPLETE", "warning")

-----------------------------------------------------------------------------
(* The decision *)

Reasons(ctx) ==
  UNION {RetentionRequired(ctx), LegalHoldConflict(ctx), PiiHandling(ctx),
         ClassificationKnown(ctx), ConsentUserData(ctx), PurposeStrict(ctx),
         SharingExport(ctx), ReportComplianceFields(ctx)}

Evaluate(ctx) ==
  IF \E r \in Reasons(ctx) : r.severity = "error" THEN "deny"
  ELSE IF \E r \in Reasons(ctx) : r.severity = "warning" THEN "warn"
  ELSE "allow"

\* How far a strictness goes, and how far a decision does.
Rank(x) ==
  CASE x \in {"permissive", "allow"} -> 0
    [] x \in {"standard", "warn"}    -> 1
    [] x \in {"strict", "deny"}      -> 2
=============================================================================
