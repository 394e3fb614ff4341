-------------------------------- MODULE Lists --------------------------------
(* What the code writes as a loop over a list. *)
EXTENDS Integers, SequencesExt

\* The rows of s that are in S, in their order.
Among(s, S) ==
  LET upTo[k \in 0 .. Len(s)] ==
        IF k = 0 THEN << >>
        ELSE IF s[k] \in S THEN Append(upTo[k - 1], s[k]) ELSE upTo[k - 1]
  IN  upTo[Len(s)]

Total(numbers) ==
  LET upTo[k \in 0 .. Len(numbers)] == IF k = 0 THEN 0 ELSE upTo[k - 1] + numbers[k]
  IN  upTo[Len(numbers)]

Including(s, e) == IF e \in ToSet(s) THEN s ELSE Append(s, e)

\* The values of s, in the order they first appear.
Distinct(s) ==
  LET upTo[k \in 0 .. Len(s)] == IF k = 0 THEN << >> ELSE Including(upTo[k - 1], s[k])
  IN  upTo[Len(s)]
===============================================================================
