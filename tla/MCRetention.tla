---------------------------- MODULE MCRetention ----------------------------
(* Small instance of Retention: a run with complete metadata under legal    *)
(* hold, one with the defaults of the command line, and one whose metadata  *)
(* and hold are in a context of the caller's, with no retention times among *)
(* the keyword arguments; and one with one retention time and no hold.      *)
EXTENDS Retention

Complete ==
  [action |-> "run", strictness |-> "strict", hold |-> TRUE, raw |-> 1, derived |-> 2,
   class |-> "restricted", source |-> "partner", pii |-> "yes",
   consent |-> "consent", lawful |-> None, purpose |-> "fraud", sharing |-> "no_export"]

Default ==
  [Complete EXCEPT !.strictness = "standard", !.hold = FALSE, !.class = None,
                   !.source = None, !.pii = None, !.consent = None,
                   !.purpose = None, !.sharing = None]

Own == [Complete EXCEPT !.consent = None, !.lawful = "contract"]

NoTimes == [Complete EXCEPT !.hold = FALSE, !.raw = None, !.derived = None]

OneTime == [Complete EXCEPT !.hold = FALSE, !.derived = None]

MCRequest ==
  {[args |-> Complete, context |-> None], [args |-> Default, context |-> None],
   [args |-> NoTimes, context |-> Own], [args |-> OneTime, context |-> None]}

MCCleanupFlags == [raw : {1}, hold : BOOLEAN]

MCStatusFlags == [raw : {1}, derived : {2}, hold : BOOLEAN]
=============================================================================
