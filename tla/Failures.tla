------------------------------- MODULE Failures -------------------------------
(***************************************************************************)
(* The dispatcher with a history of the failures its requests met, kept    *)
(* apart from the list the breaker keeps: how many there were in the last  *)
(* tick, in the last two, and so on up to the window.                      *)
(***************************************************************************)
EXTENDS Dispatch

VARIABLE recent  \* [candidate -> failures since its last success, by how recent]

\* h[n] is the number of failures that are younger than n.
Nothing == [n \in 1..Window |-> 0]
OneMore(h) == [n \in 1..Window |-> h[n] + 1]
Shifted(h) == [n \in 1..Window |-> IF n = 1 THEN 0 ELSE h[n - 1]]

InWindow(h) == h[Window]

\* A request that was calling c is answered by it, or gives it up.
Works(c) == \E r \in Requests : req[r].pc = "call" /\ Cand(r) = c /\ req'[r].pc = "served"
Breaks(c) == \E r \in Requests : req[r].pc = "call" /\ Cand(r) = c /\ req'[r] = Onward(req[r])

\* Only the clock leaves the requests and the providers alone.
Remember ==
  recent' = [c \in Candidates |->
    IF UNCHANGED <<req, enabled>> THEN Shifted(recent[c])
    ELSE IF Works(c) THEN Nothing
    ELSE IF Breaks(c) THEN OneMore(recent[c])
    ELSE recent[c]]

HInit == Init /\ recent = [c \in Candidates |-> Nothing]

HNext == Next /\ Remember

HSpec == HInit /\ [][HNext]_<<vars, recent>> /\ Gateway

\* Failure trips a closed breaker exactly when the threshold is met by failures that
\* requests met within the window and after the last success: never sooner, so a
\* slow trickle of errors cannot accumulate, and never later.
TripsExactlyOnThreshold ==
  [][\A c \in Candidates : entries[c].state = "closed" =>
       (entries'[c].state = "open" <=>
          InWindow(recent'[c]) > InWindow(recent[c]) /\ InWindow(recent'[c]) >= Threshold)]_<<vars, recent>>
=============================================================================
