------------------------------- MODULE Lists --------------------------------
(* Filters of lists. *)
EXTENDS Naturals, Sequences

\* s.filter(x => x in K)
Only(s, K) ==
    LET first[n \in 0..Len(s)] ==
          IF n = 0 THEN <<>>
          ELSE IF s[n] \in K THEN Append(first[n - 1], s[n]) ELSE first[n - 1]
    IN first[Len(s)]
=============================================================================
