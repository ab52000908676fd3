-------------------------------- MODULE Logs --------------------------------
(***************************************************************************)
(* filter and reduce of the logs that packages/shared keeps, as functions  *)
(* of how much of the log was looked at: unlike SelectSeq and the folds of *)
(* sequences, they can be unfolded in a proof.                             *)
(***************************************************************************)
EXTENDS Naturals, Sequences

\* filter: the entries of a log that are among these, in their order.
Among(log, these) ==
  LET kept[i \in 0 .. Len(log)] ==
        IF i = 0 THEN <<>>
        ELSE IF log[i] \in these THEN Append(kept[i - 1], log[i])
        ELSE kept[i - 1]
  IN kept[Len(log)]

\* reduce: the sum of a log of numbers.
SumUp(numbers) ==
  LET sum[i \in 0 .. Len(numbers)] == IF i = 0 THEN 0 ELSE sum[i - 1] + numbers[i]
  IN sum[Len(numbers)]
=============================================================================
