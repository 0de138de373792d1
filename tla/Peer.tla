-------------------------------- MODULE Peer --------------------------------
(***************************************************************************)
(* A peer of the daemon, in its two parts: Session makes it, Bulk is what  *)
(* its channel carries once it is connected.  All they share is that the   *)
(* channel dies with its session, at any moment, which Bulk allows for     *)
(* (Hangup); so a behaviour is of one part or of the other.                *)
(***************************************************************************)
EXTENDS Session, Bulk

VARIABLE part

peerVars == <<part, sessionVars, bulkVars>>

PeerInit == part \in {"session", "bulk"} /\ SessionInit /\ BulkInit

PeerNext ==
  \/ part = "session" /\ SessionNext /\ UNCHANGED <<part, bulkVars>>
  \/ part = "bulk" /\ BulkNext /\ UNCHANGED <<part, sessionVars>>

PeerSpec == PeerInit /\ [][PeerNext]_peerVars /\ BulkFairness
-----------------------------------------------------------------------------
\* Both parts keep their types, and no buffer outgrows its cap (remote.go:328,
\* peer.go:185).
PeerTypeOK == SessionTypeOK /\ BulkTypeOK
=============================================================================
