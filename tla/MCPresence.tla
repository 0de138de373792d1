----------------------------- MODULE MCPresence -----------------------------
(* The instance of Presence where registrations overlap. *)
EXTENDS Presence, TLC

\* Watchers are interchangeable: no definition of Presence names one.
WatcherSymmetry == Permutations(Watcher)
=============================================================================
