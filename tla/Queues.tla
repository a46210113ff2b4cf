-------------------------------- MODULE Queues --------------------------------
(***************************************************************************)
(* The plain queues between the stages, std::vector and std::deque in the  *)
(* code, are sequences, oldest first.                                      *)
(***************************************************************************)
EXTENDS Integers, Sequences

\* The elements of queue s that are in the set, in their order: the loops that
\* keep, move or select part of a queue.
Those(s, set) ==
  LET kept[n \in 0 .. Len(s)] ==
        IF n = 0 THEN <<>>
        ELSE IF s[n] \in set THEN Append(kept[n - 1], s[n]) ELSE kept[n - 1]
  IN kept[Len(s)]
===============================================================================
