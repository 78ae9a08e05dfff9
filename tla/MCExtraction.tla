----------------------------- MODULE MCExtraction -----------------------------
(* Instances of Extraction for TLC. *)
EXTENDS Extraction, TLC

CONSTANTS contacts, deals

OneType == { << contacts >>, Omitted }

TwoTypes == { << contacts, deals >> }

\* The bound of the races: no heartbeat ages, so that crash detection finds nothing.
RacesSpec == Init /\ [][Next /\ heartbeat' # "stale"]_vars

Symmetry == Permutations(Workers) \cup Permutations(Handlers)
===============================================================================
