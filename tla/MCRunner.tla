------------------------------ MODULE MCRunner ------------------------------
(***************************************************************************)
(* Small instance of Runner and ExecCommand: two calls that are let        *)
(* through, one of them from the command line, and calls that differ from  *)
(* one of them in what should get them rejected.                           *)
(***************************************************************************)
EXTENDS ExecCommand

Node(kind, name) == [kind |-> kind, name |-> name]

Imported(names) ==
  [size |-> 1, parse |-> "tree", count |-> 1, nodes |-> {Node("import", name) : name \in names}]

Default ==
  [mode |-> "isolated_subprocess", network |-> FALSE, write |-> FALSE, spawn |-> FALSE,
   imports |-> {"math"}, maxSource |-> 1, maxNodes |-> 1, maxOutput |-> 1,
   maxProcesses |-> 0]

\* Everything is on the allowlist, and no permission is given.
AllImports ==
  [Default EXCEPT !.imports = {"math", "socket", "os", "subprocess", "pickle"}]

\* By root, strict, under the default posture, with a limit on stdout of its own.
Plain ==
  [script |-> Imported({"math", None}), posture |-> Default, mode |-> None,
   strict |-> TRUE, sha |-> "equal", maxStdout |-> 2, root |-> TRUE]

\* By another user, from the command line, with flags that permit much.
WideArgs ==
  [script |-> Imported({"socket", "subprocess"}), root |-> FALSE, mode |-> "restricted_local",
   network |-> TRUE, write |-> FALSE, spawn |-> TRUE, maxOutput |-> None, strict |-> FALSE,
   imports |-> {"socket", "os", "subprocess", "pickle"}]

\* Flags that are not enough for the script, that permit its import but not what it
\* is for, that no script can be run with; and scripts no flag helps.
MCExecArgs ==
  {WideArgs}
  \cup {[WideArgs EXCEPT !.network = FALSE], [WideArgs EXCEPT !.imports = {"socket"}],
        [WideArgs EXCEPT !.strict = TRUE], [WideArgs EXCEPT !.mode = "disabled"]}
  \cup {[WideArgs EXCEPT !.script = Imported({name})] : name \in {"os", "pickle"}}
  \cup {[WideArgs EXCEPT !.script.parse = parse] : parse \in {"syntax", "raises"}}

RejectedScripts ==
  {Imported({name}) : name \in {"socket", "os", "subprocess", "pickle", "abc"}}
  \cup {[Imported({}) EXCEPT !.nodes = {node}] :
          node \in {Node("call", "open"), Node("attr", "__dict__"), Node("name", "__name__")}}
  \cup {[Imported({}) EXCEPT !.size = 2], [Imported({}) EXCEPT !.count = 2],
        [Imported({}) EXCEPT !.parse = "syntax"], [Imported({}) EXCEPT !.parse = "raises"]}

MCCall ==
  {Plain}
  \cup {[Plain EXCEPT !.script = script, !.posture = posture] :
          script \in RejectedScripts, posture \in {Default, AllImports}}
  \cup {ExecRun(args) : args \in MCExecArgs}
  \cup {[Plain EXCEPT !.mode = mode] : mode \in {"disabled", "container_unsupported", "other"}}
  \cup {[Plain EXCEPT !.sha = sha] : sha \in {None, "different"}}

MCDunder == DangerousAttrs \cup {"__builtins__", "__import__", "__name__"}

MCMaxWritten == [s \in Stream |-> IF s = "out" THEN 3 ELSE 1]
=============================================================================
