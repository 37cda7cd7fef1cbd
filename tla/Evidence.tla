------------------------------ MODULE Evidence ------------------------------
(***************************************************************************)
(* What whoever reads a root directory relies on, whatever runs are at     *)
(* work or die in it: a log only ever grows, event by event, and a piece   *)
(* of evidence that can be read commits to a history that was in a log     *)
(* before the evidence was there.  Not all that is in a log can be read    *)
(* back: an event may be written behind what a dead append has left.  But  *)
(* what could be read once stays so.  Pipeline implements this, and so     *)
(* does Bundle.                                                            *)
(***************************************************************************)
EXTENDS Naturals, Sequences

CONSTANTS Log,              \* the logs, by name
          Place,            \* where evidence is kept
          None,             \* there is none that can be read
          Vouches(_, _, _)  \* Vouches(place, log, history): it may be kept there

VARIABLES recorded,  \* the histories whose last event is written in each log
          readable,  \* those of them whose last event has a line of its own
          shown      \* the history that the evidence at each place commits to

evidenceVars == <<recorded, readable, shown>>

Init ==
  /\ recorded = [log \in Log |-> {}]
  /\ readable = [log \in Log |-> {}]
  /\ shown = [place \in Place |-> None]

\* A history is its predecessor and one more event.
Continues(history, histories) ==
  history # << >> /\ (Len(history) = 1 \/ SubSeq(history, 1, Len(history) - 1) \in histories)

\* Histories are never taken back, and none comes without those it continues.
Record(log) ==
  /\ recorded'[log] # recorded[log] \/ readable'[log] # readable[log]
  /\ UNCHANGED shown
  /\ recorded[log] \subseteq recorded'[log]
  /\ \A history \in recorded'[log] \ recorded[log] : Continues(history, recorded'[log])
  /\ readable[log] \subseteq readable'[log] /\ readable'[log] \subseteq recorded'[log]
  /\ recorded' = [recorded EXCEPT ![log] = recorded'[log]]
  /\ readable' = [readable EXCEPT ![log] = readable'[log]]

\* Evidence appears at a place, or other evidence than before: its history is in a
\* log, and may be kept there.
Show(place) ==
  /\ shown'[place] \notin {None, shown[place]}
  /\ shown' = [shown EXCEPT ![place] = shown'[place]]
  /\ \E log \in Log : shown'[place] \in recorded[log] /\ Vouches(place, log, shown'[place])
  /\ UNCHANGED <<recorded, readable>>

Hide(place) ==
  /\ shown[place] # None
  /\ shown' = [shown EXCEPT ![place] = None]
  /\ UNCHANGED <<recorded, readable>>

Next ==
  \/ \E log \in Log : Record(log)
  \/ \E place \in Place : Show(place) \/ Hide(place)

Spec == Init /\ [][Next]_evidenceVars
=============================================================================
