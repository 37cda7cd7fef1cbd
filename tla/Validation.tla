----------------------------- MODULE Validation -----------------------------
(***************************************************************************)
(* What the runner asks of a script before it starts it: validate_source   *)
(* (src/hashen/sandbox/validation.py) under a posture (posture.py).        *)
(***************************************************************************)
EXTENDS Naturals

CONSTANTS None,   \* a value that is not given
          Dunder  \* the names that start and end in two underscores

(***************************************************************************)
(* A script, once a leading byte order mark is stripped: its size in bytes *)
(* (size), what ast.parse makes of it, the number of nodes of its tree     *)
(* (count), and those nodes that some check looks at.  A node is a module  *)
(* named by an import (in "from . import x" it has no name), a name that   *)
(* is called, an attribute or a name.  An imported "a.b" is module "a".    *)
(*                                                                         *)
(* A posture has the mode, the three permissions (network, write, spawn),  *)
(* the modules allowed (imports), and the limits that the runner uses.     *)
(***************************************************************************)
NodeKind == {"import", "call", "attr", "name"}

DenylistImports ==
  {"pickle", "shelve", "marshal", "ctypes", "builtins", "__builtins__", "importlib", "inspect"}

BlockedCallNames ==
  {"eval", "exec", "compile", "open", "input", "__import__", "globals", "locals", "vars",
   "dir", "getattr", "setattr", "delattr", "breakpoint", "help"}

DangerousAttrs ==
  {"__class__", "__mro__", "__subclasses__", "__getattribute__", "__dict__",
   "__globals__", "__code__", "__closure__", "__func__"}

NetworkImports    == {"socket", "http", "urllib", "ssl", "ftplib", "requests"}
SubprocessImports == {"subprocess", "multiprocessing"}
FsImports         == {"os", "pathlib", "shutil"}

ASSUME DunderAssumption == DangerousAttrs \cup {"__builtins__", "__import__"} \subseteq Dunder

Imports(script) == {node.name : node \in {n \in script.nodes : n.kind = "import"}} \ {None}

Found(condition, code) == IF condition THEN {code} ELSE {}

\* A plausible bug: the allowlist is looked at first.
ImportListViolationsAllowFirst(name, posture) ==
  IF name \in posture.imports THEN {}
  ELSE IF name \in DenylistImports THEN {"IMPORT_DENYLISTED"} ELSE {"IMPORT_NOT_ALLOWED"}

\* Modules on the denylist are denied whatever the allowlist says.
ImportListViolations(name, posture) ==
  IF name \in DenylistImports THEN {"IMPORT_DENYLISTED"}
  ELSE Found(name \notin posture.imports, "IMPORT_NOT_ALLOWED")

\* A plausible bug: the permission is not negated.
PermissionViolationsInverted(name, posture) ==
  Found(posture.network /\ name \in NetworkImports, "NETWORK_NOT_ALLOWED")
  \cup Found(~posture.spawn /\ name \in SubprocessImports, "SUBPROCESS_NOT_ALLOWED")
  \cup Found(~posture.write /\ name \in FsImports, "FILESYSTEM_WRITE_NOT_ALLOWED")

PermissionViolations(name, posture) ==
  Found(~posture.network /\ name \in NetworkImports, "NETWORK_NOT_ALLOWED")
  \cup Found(~posture.spawn /\ name \in SubprocessImports, "SUBPROCESS_NOT_ALLOWED")
  \cup Found(~posture.write /\ name \in FsImports, "FILESYSTEM_WRITE_NOT_ALLOWED")

NodeViolations(node) ==
  Found(node.kind = "call" /\ node.name \in BlockedCallNames, "BUILTIN_BLOCKED")
  \cup Found(node.kind = "attr" /\ node.name \in DangerousAttrs, "DANGEROUS_ATTR")
  \cup Found(node.kind \in {"attr", "name"} /\ node.name \in Dunder, "DUNDER_REFLECTION")

\* validate_source: the codes of the violations; the limits come first and end
\* it, a text that Python cannot parse too.  "raises" is no code: a text nested
\* too deeply makes ast.parse raise something else than a SyntaxError.
ValidateSource(script, posture) ==
  IF script.size > posture.maxSource THEN {"COMPLEXITY_LIMIT"}
  ELSE IF script.parse = "syntax" THEN {"SYNTAX_ERROR"}
  ELSE IF script.parse = "raises" THEN {"raises"}
  ELSE IF script.count > posture.maxNodes THEN {"COMPLEXITY_LIMIT"}
  ELSE (UNION {ImportListViolations(name, posture) \cup PermissionViolations(name, posture)
                 : name \in Imports(script)})
       \cup (UNION {NodeViolations(node) : node \in script.nodes})
=============================================================================
