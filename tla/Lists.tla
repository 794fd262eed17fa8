------------------------------- MODULE Lists -------------------------------
(***************************************************************************)
(* The filter loop that the program uses everywhere: append to a new slice *)
(* what passes a test.                                                     *)
(***************************************************************************)
EXTENDS Integers, Sequences, SequencesExt

\* The members of T among the first n of s, in their order.
ThoseUpTo(s, T) ==
    LET F[n \in 0 .. Len(s)] ==
          IF n = 0 THEN <<>> ELSE IF s[n] \in T THEN Append(F[n - 1], s[n]) ELSE F[n - 1]
    IN  F

Those(s, T) == ThoseUpTo(s, T)[Len(s)]

\* The sum of the numbers of s.
SumUpTo(s) ==
    LET S[n \in 0 .. Len(s)] == IF n = 0 THEN 0 ELSE S[n - 1] + s[n] IN S

SumOf(s) == SumUpTo(s)[Len(s)]

\* In s, an m comes before every n.
Precedes(s, m, n) == \A k \in 1 .. Len(s) : s[k] = n => \E j \in 1 .. k - 1 : s[j] = m
=============================================================================
