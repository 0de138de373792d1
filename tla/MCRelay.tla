------------------------------ MODULE MCRelay ------------------------------
(* The instances of Relay that TLC checks. *)
EXTENDS Relay

CONSTANTS c1, c2, k1, k2, k3

\* Two joins of one pinned key, of two pinned keys, and of a pinned and an
\* unknown one: the joins and the pinned keys may be exchanged.
MCKeys == {[c \in Client |-> IF c = c1 THEN k1 ELSE k] : k \in {k1, k2, k3}}

\* Two pinned keys.
MCTwoKeys == {[c \in Client |-> IF c = c1 THEN k1 ELSE k2]}
=============================================================================
