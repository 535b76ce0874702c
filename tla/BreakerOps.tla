------------------------------ MODULE BreakerOps ------------------------------
(***************************************************************************)
(* The circuit breaker of gateway/internal/routing/breaker.go as pure      *)
(* operators on one breakerEntry.  Every method of Breaker takes the lock, *)
(* reads and writes one entry, and releases the lock, so each is one       *)
(* function of the entry.                                                  *)
(*                                                                         *)
(* Time is kept as ages instead of instants: the code only ever asks       *)
(* whether now - openedAt has reached openFor and whether a failure is     *)
(* younger than window, so an age is capped at the bound it is compared    *)
(* with.  That needs no horizon, and the state space stays finite.         *)
(***************************************************************************)
EXTENDS Lists

CONSTANTS Threshold,  \* failures inside the window that open the breaker
          Window,     \* how long a failure counts
          OpenFor     \* the cool-off of an open breaker

\* NewBreaker replaces a threshold below one and a non-positive duration by the
\* defaults, so no breaker has any of the three at zero.
ASSUME BreakerSettings ==
  /\ Threshold \in Nat \ {0}
  /\ Window \in Nat \ {0}
  /\ OpenFor \in Nat \ {0}

States == {"closed", "open", "half_open"}

Entry == [failures : Seq(0..Window),  \* ages, oldest first; Window = aged out
          state    : States,
          openAge  : 0..OpenFor,      \* now - openedAt
          probing  : BOOLEAN]

\* A key that is not in the map behaves as one whose entry is in this state:
\* Allow admits it, Success leaves it alone and Failure creates it.
Fresh == [failures |-> <<>>, state |-> "closed", openAge |-> 0, probing |-> FALSE]

-----------------------------------------------------------------------------
(* Allow *)

CoolingOff(e) == e.openAge < OpenFor

Allows(e) ==
  \/ e.state = "closed"
  \/ e.state = "open" /\ ~CoolingOff(e)
  \/ e.state = "half_open" /\ ~e.probing

\* The entry after Allow: the first caller past the cool-off becomes the probe.
AfterAllow(e) ==
  IF e.state = "closed" \/ ~Allows(e)
  THEN e
  ELSE [e EXCEPT !.state = "half_open", !.probing = TRUE]

-----------------------------------------------------------------------------
(* Success and Failure *)

AfterSuccess(e) ==
  [e EXCEPT !.state = "closed", !.probing = FALSE, !.failures = <<>>]

LiveIgnoresAge(f) == f

\* The failures still inside the window.
Live(f) == Picked(f, {i \in DOMAIN f : f[i] < Window})

Reopened(e) == [e EXCEPT !.state = "open", !.openAge = 0, !.probing = FALSE]

Counted(e) ==
  LET kept == Append(Live(e.failures), 0)
  IN  IF Len(kept) >= Threshold /\ e.state = "closed"
      THEN [e EXCEPT !.failures = kept, !.state = "open", !.openAge = 0]
      ELSE [e EXCEPT !.failures = kept]

AfterFailureOldDeadline(e) ==
  IF e.state = "half_open"
  THEN [e EXCEPT !.state = "open", !.probing = FALSE]
  ELSE Counted(e)

\* A failure in half-open re-opens at once, whoever reports it.  Otherwise the
\* list is pruned and extended, and only a closed breaker trips on it.
AfterFailure(e) == IF e.state = "half_open" THEN Reopened(e) ELSE Counted(e)

-----------------------------------------------------------------------------
(* The clock, and what /v1/health and the gauge report *)

\* One tick older, but never past the bound the age is compared with.
Older(age, cap) == IF age < cap THEN age + 1 ELSE cap

Aged(e) ==
  [e EXCEPT !.failures = [i \in DOMAIN e.failures |-> Older(e.failures[i], Window)],
            !.openAge = Older(@, OpenFor)]

\* State and Snapshot: an open breaker past its cool-off reads as half-open.
Reported(e) ==
  IF e.state = "open" /\ ~CoolingOff(e) THEN "half_open" ELSE e.state
=============================================================================
