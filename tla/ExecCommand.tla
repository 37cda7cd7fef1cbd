----------------------------- MODULE ExecCommand -----------------------------
(***************************************************************************)
(* "hashen exec validate" and "hashen exec run" (src/hashen/cli/main.py):  *)
(* each builds a posture from the default one and its flags, with a copy   *)
(* of the code of its own; the one validates a script under it, the other  *)
(* calls run_script.  The limits of time, memory and processor time are    *)
(* left out: no check of a script looks at them.                           *)
(***************************************************************************)
EXTENDS Runner

CONSTANTS DefaultPosture, \* default_posture()
          ExecArgs        \* command lines: see ArgsType

\* The script at the path, whether the user is root, and the flags.
ArgsType ==
  [script : ScriptType, root : BOOLEAN, mode : KnownModes, network : BOOLEAN,
   write : BOOLEAN, spawn : BOOLEAN, imports : SUBSET STRING, maxOutput : Nat \cup {None},
   strict : BOOLEAN]

ASSUME ExecAssumption == DefaultPosture \in PostureType /\ ExecArgs \subseteq ArgsType

\* The posture of "exec validate": a flag that is given overrides the default, and
\* imports are added to it.
ValidatePosture(args) ==
  [DefaultPosture EXCEPT
     !.mode = args.mode, !.network = @ \/ args.network, !.write = @ \/ args.write,
     !.spawn = @ \/ args.spawn, !.imports = @ \cup args.imports,
     !.maxOutput = IF args.maxOutput = None THEN @ ELSE args.maxOutput]

ExecValidate(args) == ValidateSource(args.script, ValidatePosture(args))

\* A plausible bug: a flag is added to the code of one command only.
RunPostureNoNetwork(args) ==
  [DefaultPosture EXCEPT
     !.mode = args.mode, !.write = @ \/ args.write,
     !.spawn = @ \/ args.spawn, !.imports = @ \cup args.imports,
     !.maxOutput = IF args.maxOutput = None THEN @ ELSE args.maxOutput]

\* The posture of "exec run".
RunPosture(args) ==
  [DefaultPosture EXCEPT
     !.mode = args.mode, !.network = @ \/ args.network, !.write = @ \/ args.write,
     !.spawn = @ \/ args.spawn, !.imports = @ \cup args.imports,
     !.maxOutput = IF args.maxOutput = None THEN @ ELSE args.maxOutput]

\* The call of run_script; the command has no flag for a hash.
ExecRun(args) ==
  LET posture == RunPosture(args)
  IN  [script |-> args.script, posture |-> posture, mode |-> posture.mode,
       strict |-> args.strict, sha |-> None, maxStdout |-> posture.maxOutput,
       root |-> args.root]

-----------------------------------------------------------------------------
(* Properties *)

\* What "exec validate" says foretells what "exec run" does with the same flags:
\* no script runs that it rejects, none is rejected as a violation that it lets
\* through, and one that it rejects is never turned away for the lack of a hash
\* it could not have been given, unless strict.
ValidateForetellsRun ==
  \A args \in ExecArgs : main.call = ExecRun(args) =>
    /\ Started => ExecValidate(args) = {}
    /\ main.result.reason = "SANDBOX_POLICY_VIOLATION" => ExecValidate(args) \notin {{}, {"raises"}}
    /\ main.pc = "returned" /\ ExecValidate(args) # {} /\ ~args.strict =>
         main.result.reason \in
           {"EXECUTION_DISABLED", "EXECUTION_MODE_UNSUPPORTED", "SANDBOX_POLICY_VIOLATION"}
=============================================================================
