-------------------------------- MODULE Breaker --------------------------------
(***************************************************************************)
(* One key of the circuit breaker under concurrent callers.                *)
(*                                                                         *)
(* A caller is one pass of the loop in Dispatcher.Dispatch: it asks Allow, *)
(* makes the upstream call without holding the lock, and reports Success   *)
(* or Failure, or leaves without reporting either.  In between, other      *)
(* callers and the clock may do anything.                                  *)
(***************************************************************************)
EXTENDS BreakerOps

CONSTANT Calls  \* the requests that may be inside the breaker at once

VARIABLES entry,  \* the breakerEntry of this key
          inside  \* the callers Allow has admitted and that have not left

vars == <<entry, inside>>

Init == entry = Fresh /\ inside = {}

\* Breaker.Allow returning true.  A refused caller leaves nothing behind.
Admit(c) ==
  /\ c \notin inside
  /\ Allows(entry)
  /\ entry' = AfterAllow(entry)
  /\ inside' = inside \cup {c}

\* The caller got an answer and calls Breaker.Success.
Succeed(c) ==
  /\ c \in inside
  /\ entry' = AfterSuccess(entry)
  /\ inside' = inside \ {c}

\* The candidate failed and the caller calls Breaker.Failure.
Fail(c) ==
  /\ c \in inside
  /\ entry' = AfterFailure(entry)
  /\ inside' = inside \ {c}

\* Dispatch leaves the iteration without a report: the provider turned out to be
\* unusable, or the failure was the request's own and is returned as it is.
Abandon(c) ==
  /\ c \in inside
  /\ inside' = inside \ {c}
  /\ UNCHANGED entry

\* Time passes for the failure list and for the cool-off.
Tick == entry' = Aged(entry) /\ UNCHANGED inside

Next ==
  \/ \E c \in Calls : Admit(c)
  \/ \E c \in Calls : Succeed(c)
  \/ \E c \in Calls : Fail(c)
  \/ \E c \in Calls : Abandon(c)
  \/ Tick

Spec == Init /\ [][Next]_vars

-----------------------------------------------------------------------------
(* Properties *)

\* Every field of breakerEntry keeps its type and ages stay within their caps.
TypeOK == entry \in Entry /\ inside \subseteq Calls

\* A closed breaker never sits on a full threshold of failures: the Failure that
\* reaches it is the one that opens it, so no later call finds an overdue trip.
ClosedBelowThreshold == entry.state = "closed" => Len(entry.failures) < Threshold

\* Half-open and probing are the same thing.  No path leaves a half-open entry
\* with probing cleared, so the second branch of Allow's half-open case is never
\* taken and a half-open breaker admits nobody at all until someone reports.
HalfOpenIffProbing == (entry.state = "half_open") <=> entry.probing

\* The list stays oldest first, however callers interleave; pruning it by
\* dropping a prefix is therefore the same as filtering it.
OldestFirst ==
  \A i, j \in DOMAIN entry.failures : i <= j => entry.failures[i] >= entry.failures[j]

\* What keeps the breaker sound between any two calls.
BreakerInv == ClosedBelowThreshold /\ HalfOpenIffProbing /\ OldestFirst

\* The inductive invariant of the proofs.
IInv == TypeOK /\ BreakerInv

\* What the gauge and GET /v1/health say is what the next caller would meet: a
\* breaker reported closed admits, and one reported open refuses.
HealthIsTruthful ==
  /\ Reported(entry) = "closed" => Allows(entry)
  /\ Reported(entry) = "open" => ~Allows(entry)

\* The breaker keeps the promise of Circuit: the probing flag and the failure
\* list implement the cool-off and the closed door of a half-open circuit.
Promise == INSTANCE Circuit WITH circuit <- entry.state, waited <- entry.openAge
KeepsPromise == Promise!Spec
=============================================================================
