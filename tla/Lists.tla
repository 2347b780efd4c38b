--------------------------------- MODULE Lists ---------------------------------
(***************************************************************************)
(* Array.prototype.filter, which the browser's reducer, its page and the   *)
(* import's script make their lists with, as a recursive function.         *)
(***************************************************************************)
EXTENDS Naturals, SequencesExt

\* The elements of s that are kept, in their order.
Only(s, kept) ==
  LET only[n \in 0 .. Len(s)] ==
        IF n = 0 THEN <<>> ELSE IF s[n] \in kept THEN Append(only[n - 1], s[n]) ELSE only[n - 1]
  IN only[Len(s)]
===============================================================================
