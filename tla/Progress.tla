------------------------------ MODULE Progress ------------------------------
(***************************************************************************)
(* Measures of what is left to do: tuples of naturals, the coarsest part   *)
(* first, compared lexicographically.  A behaviour of which every step     *)
(* lowers one is finite.                                                   *)
(***************************************************************************)
EXTENDS Naturals, Sequences

IsMeasure(s) == s \in Seq(Nat)

Precedes(s, t) ==
  \E i \in 1..Len(t) : s[i] < t[i] /\ \A j \in 1..(i - 1) : s[j] = t[j]

=============================================================================
