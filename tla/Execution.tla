------------------------------ MODULE Execution ------------------------------
(***************************************************************************)
(* What the caller of run_script relies on: it is answered once.  Either   *)
(* the call is refused and nothing runs, or the script is started once,    *)
(* after the call was accepted and before the answer, and the answer is    *)
(* about a process that has ended and tells of no output it has not        *)
(* produced.  Runner is shown to implement this.                           *)
(***************************************************************************)
EXTENDS Naturals

CONSTANTS Call,           \* the calls
          Stream,         \* the streams of output
          Result,         \* the results that a call may have
          None,           \* there is none
          Refusal(_),     \* why a call is refused; "raises" if by an exception
          Honest(_, _, _) \* Honest(call, produced, result): the output it tells of

VARIABLES call,      \* the call that was made
          process,   \* the script's process: how far it has come
          produced,  \* the output of the script and of what it started, per stream
          answer     \* what the caller got: an exception or a result

executionVars == <<call, process, produced, answer>>

Init ==
  /\ call = None
  /\ process = "none"
  /\ produced = [s \in Stream |-> 0]
  /\ answer = None

\* There is an answer now; a result is fine exactly if it has no reason not to be.
Answered ==
  /\ answer = None
  /\ answer' \in [raised : BOOLEAN, result : Result]
  /\ ~answer'.raised => (answer'.result.ok <=> answer'.result.reason = None)
  /\ UNCHANGED <<process, produced>>

\* An answer that no script was run for: not fine, and no output.
Unrun(c) ==
  /\ process = "none"
  /\ ~answer'.raised => ~answer'.result.ok /\ Honest(c, produced, answer'.result)

Accept(c) ==
  /\ call = None /\ Refusal(c) = None
  /\ call' = c
  /\ UNCHANGED <<process, produced, answer>>

Refuse(c) ==
  /\ call = None /\ Refusal(c) # None
  /\ call' = c
  /\ Answered /\ Unrun(c)
  /\ answer'.raised <=> Refusal(c) = "raises"
  /\ ~answer'.raised => answer'.result.reason = Refusal(c)

Waiting == call # None /\ answer = None

Start ==
  /\ Waiting /\ process = "none"
  /\ process' = "running"
  /\ UNCHANGED <<call, produced, answer>>

\* The script could not be started.
GiveUp ==
  /\ Waiting /\ Answered /\ Unrun(call)
  /\ UNCHANGED call

\* Output may go on after the answer: of a process the script has started.
Produce(s) ==
  /\ process # "none"
  /\ produced' = [produced EXCEPT ![s] = @ + 1]
  /\ UNCHANGED <<call, process, answer>>

End ==
  /\ process = "running"
  /\ process' \in {"succeeded", "failed"}
  /\ UNCHANGED <<call, produced, answer>>

\* The script was run to its end, which may be a violent one.
Answer ==
  /\ Waiting /\ process \in {"succeeded", "failed"}
  /\ Answered /\ ~answer'.raised
  /\ Honest(call, produced, answer'.result)
  /\ answer'.result.ok => process = "succeeded"
  /\ UNCHANGED call

Next ==
  \/ \E c \in Call : Accept(c) \/ Refuse(c)
  \/ Start \/ GiveUp \/ End \/ Answer
  \/ \E s \in Stream : Produce(s)

Spec == Init /\ [][Next]_executionVars
=============================================================================
