----------------------------- MODULE MCPlugins -----------------------------
(* Constants of the runs of Plugins.                                       *)
EXTENDS Plugins, TLC

CONSTANTS k1, k2, v1, v2, r1, r2

Announce(s, signs, pub) == [src |-> s, signs |-> signs, key |-> k1, pub |-> pub, ignore |-> FALSE]

\* A comment that publishes the author's key and another key signs, two of the
\* author's, a source to be ignored, and one whose token signs an older one than
\* the last, on a page of its own.
MCLog == <<
  [src |-> "f", signs |-> 0, key |-> k2, pub |-> k1, ignore |-> FALSE],
  Announce("a", 0, None),
  Announce("c", 2, None),
  [src |-> "i", signs |-> 3, key |-> k1, pub |-> None, ignore |-> TRUE],
  Announce("x", 3, None)>>

\* The pages and the reloads are alike.
Symmetry == Permutations(Views) \cup Permutations(Reloads)
=============================================================================
