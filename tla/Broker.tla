------------------------------- MODULE Broker -------------------------------
(***************************************************************************)
(* The signalling broker, in two of its services: Presence tells watchers  *)
(* which daemons are there, Turn decides who is handed a relay.  They run  *)
(* in one process and share no state, so what holds of either holds of     *)
(* both together, and a behaviour is of the one or of the other.           *)
(***************************************************************************)
EXTENDS Presence, Turn

VARIABLE service

brokerVars == <<service, presenceVars, turnVars>>

BrokerInit == service \in {"presence", "turn"} /\ PresenceInit /\ TurnInit

BrokerNext ==
  \/ service = "presence" /\ PresenceNext /\ UNCHANGED <<service, turnVars>>
  \/ service = "turn" /\ TurnNext /\ UNCHANGED <<service, presenceVars>>

BrokerSpec == BrokerInit /\ [][BrokerNext]_brokerVars /\ PresenceFairness
-----------------------------------------------------------------------------
\* Both services keep their types, and f.mu is with the join that is fetching
\* (cfturn.go:66-67).
BrokerTypeOK == PresenceTypeOK /\ TurnTypeOK
=============================================================================
