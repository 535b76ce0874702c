-------------------------------- MODULE Circuit --------------------------------
(***************************************************************************)
(* What the circuit breaker promises its callers, with neither a failure   *)
(* list nor a probing flag.                                                *)
(*                                                                         *)
(* A closed circuit lets anyone in.  Opening it shuts the door for a whole *)
(* cool-off, counted from the last time it opened; the first caller after  *)
(* that goes in alone and leaves the door shut behind it.  Only a reported *)
(* success closes the circuit, and the only report that can open it is a   *)
(* failure.                                                                *)
(***************************************************************************)
EXTENDS Integers

CONSTANTS Calls, OpenFor

VARIABLES circuit,  \* closed, open or half_open
          waited,   \* time since the circuit last opened, up to OpenFor
          inside    \* the callers that were let in and have not left

vars == <<circuit, waited, inside>>

Init == circuit = "closed" /\ waited = 0 /\ inside = {}

Enter(c) ==
  /\ c \notin inside
  /\ circuit = "closed"
  /\ inside' = inside \cup {c}
  /\ UNCHANGED <<circuit, waited>>

Probe(c) ==
  /\ c \notin inside
  /\ circuit = "open" /\ waited = OpenFor
  /\ circuit' = "half_open"
  /\ inside' = inside \cup {c}
  /\ UNCHANGED waited

Leave(c) == c \in inside /\ inside' = inside \ {c}

LeaveWell(c) == Leave(c) /\ circuit' = "closed" /\ UNCHANGED waited

LeaveAndOpen(c) ==
  /\ Leave(c)
  /\ circuit \in {"closed", "half_open"}
  /\ circuit' = "open" /\ waited' = 0

\* A failure below the threshold, one that finds the circuit open already, or
\* a departure nobody reports.
LeaveQuietly(c) == Leave(c) /\ UNCHANGED <<circuit, waited>>

Tick ==
  /\ waited < OpenFor
  /\ waited' = waited + 1
  /\ UNCHANGED <<circuit, inside>>

Next ==
  \/ \E c \in Calls : Enter(c) \/ Probe(c)
  \/ \E c \in Calls : LeaveWell(c) \/ LeaveAndOpen(c) \/ LeaveQuietly(c)
  \/ Tick

Spec == Init /\ [][Next]_vars
=============================================================================
