-------------------------------- MODULE Ledger --------------------------------
(***************************************************************************)
(* What metering promises: a usage record the gateway has taken on is let  *)
(* go only when it is billed or when its loss has been counted.  A row may *)
(* turn up at any time, even for a record that was given up on, but is     *)
(* never taken back.                                                       *)
(***************************************************************************)
EXTENDS Naturals

CONSTANT Records

VARIABLES held,    \* the records the gateway answers for
          billed,  \* the records that have a row
          lost     \* how many losses were counted

vars == <<held, billed, lost>>

Init == held = {} /\ billed = {} /\ lost = 0

Meter(r) ==
  /\ r \notin held \cup billed
  /\ held' = held \cup {r}
  /\ UNCHANGED <<billed, lost>>

TurnAway == lost' = lost + 1 /\ UNCHANGED <<held, billed>>

Settle(r) ==
  /\ r \in held \cap billed
  /\ held' = held \ {r}
  /\ UNCHANGED <<billed, lost>>

\* The row is written, with or without the gateway hearing of it.
Bill(r) ==
  /\ billed' = billed \cup {r}
  /\ held' \in {held, held \ {r}}
  /\ UNCHANGED lost

WriteOff(r) ==
  /\ r \in held
  /\ held' = held \ {r}
  /\ lost' = lost + 1
  /\ UNCHANGED billed

Next ==
  \/ \E r \in Records : Meter(r) \/ Settle(r) \/ Bill(r) \/ WriteOff(r)
  \/ TurnAway

Spec == Init /\ [][Next]_vars
=============================================================================
