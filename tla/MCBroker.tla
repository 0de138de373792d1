------------------------------ MODULE MCBroker ------------------------------
(* The instance of Broker that TLC checks. *)
EXTENDS Broker, TLC

CONSTANTS c1, c2, k1, k2

\* The joins of two subscribers.
MCKeyOf == (c1 :> k1) @@ (c2 :> k2)

\* The first key subscribes, cancels within the same second and again later;
\* the second key subscribes once.
MCReports == {[key |-> k1, issued |-> 2, expires |-> 7],
              [key |-> k1, issued |-> 3, expires |-> 2],
              [key |-> k1, issued |-> 4, expires |-> 3],
              [key |-> k2, issued |-> 1, expires |-> 6]}
=============================================================================
