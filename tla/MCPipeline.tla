----------------------------- MODULE MCPipeline -----------------------------
(* Small instance of Pipeline: see the README for what each request is for. *)
EXTENDS Pipeline, TLC

Vector(size, bins) ==
  [size |-> size, min |-> None, max |-> None, bins |-> bins, scale |-> 1,
   policy |-> FALSE]

Call(run, values, bins, denied) ==
  [run |-> run, values |-> values, target |-> "t", config |-> Vector(1, bins),
   denied |-> denied]

a == <<0, 1>>

\* The same artifact under two run ids and two configs that sample it alike, a
\* denied call, and a config that raises.
MCRequest ==
  {Call("r1", a, 2, FALSE), Call("r2", a, 4, FALSE), Call("r2", a, 2, TRUE),
   [Call("r2", a, 2, FALSE) EXCEPT !.config = Vector(0, 2)]}

Processes == Permutations(Proc)
=============================================================================
