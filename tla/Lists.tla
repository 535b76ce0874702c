-------------------------------- MODULE Lists ---------------------------------
(***************************************************************************)
(* The loop that builds a list from another: what it passes over is left   *)
(* out, what it keeps is appended in the order it comes.                   *)
(***************************************************************************)
EXTENDS Integers, Sequences

\* The elements of s at the positions in K.
Picked(s, K) ==
  LET kept[i \in 0..Len(s)] ==
        IF i = 0 THEN <<>>
        ELSE IF i \in K THEN Append(kept[i - 1], s[i]) ELSE kept[i - 1]
  IN  kept[Len(s)]
=============================================================================
