-------------------------------- MODULE Folding --------------------------------
(***************************************************************************)
(* Selection from a sequence and a sum, as recursive functions: SelectSeq  *)
(* and the folds over sets have no facts that a proof could cite.          *)
(***************************************************************************)
EXTENDS Integers, Sequences

AppendIf(t, e, S) == IF e \in S THEN Append(t, e) ELSE t

\* The elements of q that are in S, in their order.
Only(q, S) ==
  LET upto[i \in 0 .. Len(q)] == IF i = 0 THEN << >> ELSE AppendIf(upto[i - 1], q[i], S)
  IN IF q = << >> THEN << >> ELSE upto[Len(q)]

\* f[0] + ... + f[n - 1]
SumOf(f, n) ==
  LET upto[i \in 0 .. n] == IF i = 0 THEN 0 ELSE upto[i - 1] + f[i - 1]
  IN upto[n]

================================================================================
