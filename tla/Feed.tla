-------------------------------- MODULE Feed --------------------------------
(***************************************************************************)
(* What the session layer relies on when it asks a backend for a feed: the *)
(* contract of server.Backend.Attach and server.Feed                       *)
(* (internal/server/backend.go).  Attach models the session layer's side;  *)
(* Helper and Encoder implement the contract, for simulators and for the   *)
(* browser.                                                                *)
(***************************************************************************)
EXTENDS Naturals

VARIABLES
  cancelled,  \* the feed's ctx is cancelled
  dead,       \* what produces the video has ended
  feed,       \* Attach under way, its feed, or how it ended
  frames      \* how many frames were received from Frames()

vars == <<cancelled, dead, feed, frames>>

TypeOK ==
  /\ cancelled \in BOOLEAN
  /\ dead \in BOOLEAN
  /\ feed \in {"idle", "starting", "live", "failed", "over"}
  /\ frames \in Nat

Init ==
  /\ cancelled = FALSE
  /\ dead = FALSE
  /\ feed \in {"idle", "starting"}
  /\ frames = 0

\* The session layer gives the feed up.
Cancel ==
  /\ feed # "idle"
  /\ cancelled' = TRUE
  /\ UNCHANGED <<dead, feed, frames>>

\* The pipeline fails.
Die ==
  /\ feed # "idle"
  /\ dead' = TRUE
  /\ UNCHANGED <<cancelled, feed, frames>>

\* Attach returns a feed, whose pipeline may already have failed, ...
Attached ==
  /\ feed = "starting"
  /\ feed' = "live"
  /\ UNCHANGED <<cancelled, dead, frames>>

\* ... or an error, by when it has released all it held.
AttachFailed ==
  /\ feed = "starting"
  /\ feed' = "failed"
  /\ dead' = TRUE
  /\ UNCHANGED <<cancelled, frames>>

Receive ==
  /\ feed = "live"
  /\ frames' = frames + 1
  /\ UNCHANGED <<cancelled, dead, feed>>

\* Frames() is closed: only when the feed dies, and for good.
Over ==
  /\ feed = "live"
  /\ cancelled \/ dead
  /\ feed' = "over"
  /\ UNCHANGED <<cancelled, dead, frames>>

Next == Cancel \/ Die \/ Attached \/ AttachFailed \/ Receive \/ Over

\* Attach returns once it is cancelled, and Frames() is closed once the feed
\* is cancelled or dead.
Fairness ==
  /\ WF_vars(cancelled /\ (Attached \/ AttachFailed))
  /\ WF_vars(Over)

Spec == Init /\ [][Next]_vars /\ Fairness
=============================================================================
