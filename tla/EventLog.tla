------------------------------ MODULE EventLog ------------------------------
(* What the audit writers of the gateways promise together: an event is held   *)
(* from its writing until it is stored or dropped, each once and for good, and *)
(* no stored event is stored again, dropped or taken out.                      *)
CONSTANT Events

VARIABLES
  held,     \* events some writer answers for
  stored,   \* events in the table
  dropped   \* events that will never be there

logVars == <<held, stored, dropped>>

LogInit == held = {} /\ stored = {} /\ dropped = {}

Accept(e) ==
  /\ e \notin held \cup stored \cup dropped
  /\ held' = held \cup {e}
  /\ UNCHANGED <<stored, dropped>>

Store(S) ==
  /\ S \subseteq held
  /\ held' = held \ S /\ stored' = stored \cup S
  /\ UNCHANGED dropped

Drop(S) ==
  /\ S \subseteq held
  /\ held' = held \ S /\ dropped' = dropped \cup S
  /\ UNCHANGED stored

LogNext ==
  \/ \E e \in Events : Accept(e)
  \/ \E S \in SUBSET held : Store(S) \/ Drop(S)

LogSpec == LogInit /\ [][LogNext]_logVars
=============================================================================
