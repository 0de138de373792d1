--------------------------- MODULE PresenceProofs ---------------------------
(***************************************************************************)
(* Proofs about Presence, for every number of watchers and registrations:  *)
(* as long as registrations do not overlap, a watcher that nothing is on   *)
(* its way to shows what b.daemons says.                                   *)
(***************************************************************************)
EXTENDS Presence, TLAPS

\* Nobody is registered and nobody watches at first.
LEMMA InitIInv == PresenceInit => IInv
  BY PresenceAssumption
  DEF PresenceInit, IInv, PresenceTypeOK, OrderInv, SlotInv, WatchersInv, HeardInv, Reg, NoSlot, State, Telling

\* Every step keeps every variable in its type.
LEMMA TypeStep ==
  ASSUME PresenceTypeOK, [PresenceNext]_presenceVars
  PROVE  PresenceTypeOK'
  <1> USE PresenceAssumption DEF PresenceTypeOK, Reg, NoSlot, State, Telling
  <1>1. ASSUME NEW d \in Reg, Register(d) PROVE PresenceTypeOK'
    BY <1>1 DEF Register
  <1>2. ASSUME NEW d \in Reg, notifyPresence(d) PROVE PresenceTypeOK'
    BY <1>2 DEF notifyPresence
  <1>3. ASSUME NEW d \in Reg, NEW w \in Watcher, sendPresence(d, w) PROVE PresenceTypeOK'
    BY <1>3 DEF sendPresence, Write
  <1>4. ASSUME NEW d \in Reg, Told(d) PROVE PresenceTypeOK'
    BY <1>4 DEF Told
  <1>5. ASSUME NEW d \in Reg, Drop(d) PROVE PresenceTypeOK'
    BY <1>5 DEF Drop
  <1>6. ASSUME NEW w \in Watcher, serveWatcher(w) PROVE PresenceTypeOK'
    BY <1>6 DEF serveWatcher, Registered
  <1>7. ASSUME NEW w \in Watcher, Snapshot(w) PROVE PresenceTypeOK'
    BY <1>7 DEF Snapshot, Write
  <1>8. ASSUME NEW w \in Watcher, Leave(w) PROVE PresenceTypeOK'
    BY <1>8 DEF Leave
  <1>9. CASE UNCHANGED presenceVars
    BY <1>9 DEF presenceVars
  <1> QED
    BY <1>1, <1>2, <1>3, <1>4, <1>5, <1>6, <1>7, <1>8, <1>9 DEF PresenceNext, Tell

\* A registration starts only after the earlier ones did.
LEMMA OrderStep ==
  ASSUME PresenceTypeOK, OrderInv, [PresenceNext]_presenceVars
  PROVE  OrderInv'
  <1> USE PresenceAssumption DEF PresenceTypeOK, OrderInv, Reg, Telling
  <1>1. ASSUME NEW d \in Reg, Register(d) PROVE OrderInv'
    BY <1>1 DEF Register
  <1>2. ASSUME NEW d \in Reg, notifyPresence(d) \/ Told(d) \/ Drop(d) PROVE OrderInv'
    BY <1>2 DEF notifyPresence, Told, Drop
  <1>3. ASSUME NEW d \in Reg, NEW w \in Watcher, sendPresence(d, w) PROVE OrderInv'
    BY <1>3 DEF sendPresence, Write
  <1>4. ASSUME NEW w \in Watcher, serveWatcher(w) \/ Snapshot(w) \/ Leave(w) PROVE OrderInv'
    BY <1>4 DEF serveWatcher, Snapshot, Write, Leave
  <1>5. CASE UNCHANGED presenceVars
    BY <1>5 DEF presenceVars
  <1> QED
    BY <1>1, <1>2, <1>3, <1>4, <1>5 DEF PresenceNext, Tell

\* Without overlap the only registration that may be telling is the one that
\* moved the slot last.
LEMMA SlotStep ==
  ASSUME ~Overlap, PresenceTypeOK, OrderInv, SlotInv, WatchersInv, [PresenceNext]_presenceVars
  PROVE  SlotInv'
  <1> USE PresenceAssumption DEF PresenceTypeOK, SlotInv, WatchersInv, Reg, NoSlot, State, Telling
  <1>1. ASSUME NEW d \in Reg, Register(d) PROVE SlotInv'
    <2>1. \A e \in Reg : e # d => reg[e] \notin Telling
      BY <1>1 DEF Register, OrderInv
    <2> QED
      BY <1>1, <2>1 DEF Register
  <1>2. ASSUME NEW d \in Reg, notifyPresence(d) PROVE SlotInv'
    BY <1>2 DEF notifyPresence
  <1>3. ASSUME NEW d \in Reg, NEW w \in Watcher, sendPresence(d, w) PROVE SlotInv'
    BY <1>3 DEF sendPresence, Write
  <1>4. ASSUME NEW d \in Reg, Told(d) PROVE SlotInv'
    <2>1. CASE reg[d] = "online"
      BY <1>4, <2>1 DEF Told
    <2>2. CASE reg[d] = "offline"
      BY <1>4, <2>2 DEF Told
    <2> QED
      BY <1>4, <2>1, <2>2 DEF Told
  <1>5. ASSUME NEW d \in Reg, Drop(d) PROVE SlotInv'
    <2>1. CASE daemons = d
      BY <1>5, <2>1 DEF Drop
    <2>2. CASE daemons # d
      BY <1>5, <2>2 DEF Drop
    <2> QED
      BY <2>1, <2>2
  <1>6. ASSUME NEW w \in Watcher, serveWatcher(w) PROVE SlotInv'
    BY <1>6 DEF serveWatcher
  <1>7. ASSUME NEW w \in Watcher, Snapshot(w) PROVE SlotInv'
    BY <1>7 DEF Snapshot, Write
  <1>8. ASSUME NEW w \in Watcher, Leave(w) PROVE SlotInv'
    BY <1>8 DEF Leave
  <1>9. CASE UNCHANGED presenceVars
    BY <1>9 DEF presenceVars
  <1> QED
    BY <1>1, <1>2, <1>3, <1>4, <1>5, <1>6, <1>7, <1>8, <1>9 DEF PresenceNext, Tell

\* A watcher is in b.watchers from its snapshot to the close of its socket.
LEMMA WatchersStep ==
  ASSUME PresenceTypeOK, WatchersInv, [PresenceNext]_presenceVars
  PROVE  WatchersInv'
  <1> USE DEF PresenceTypeOK, WatchersInv
  <1>1. ASSUME NEW d \in Reg, Register(d) \/ notifyPresence(d) \/ Told(d) \/ Drop(d) PROVE WatchersInv'
    BY <1>1 DEF Register, notifyPresence, Told, Drop
  <1>2. ASSUME NEW d \in Reg, NEW w \in Watcher, sendPresence(d, w) PROVE WatchersInv'
    BY <1>2 DEF sendPresence, Write
  <1>3. ASSUME NEW w \in Watcher, serveWatcher(w) \/ Snapshot(w) \/ Leave(w) PROVE WatchersInv'
    BY <1>3 DEF serveWatcher, Snapshot, Write, Leave
  <1>4. CASE UNCHANGED presenceVars
    BY <1>4 DEF presenceVars
  <1> QED
    BY <1>1, <1>2, <1>3, <1>4 DEF PresenceNext, Tell

\* No step makes a watcher's last word stale without leaving something on its
\* way to it.
LEMMA HeardStep ==
  ASSUME PresenceTypeOK, SlotInv, WatchersInv, HeardInv, [PresenceNext]_presenceVars
  PROVE  HeardInv'
  <1> USE PresenceAssumption
      DEF PresenceTypeOK, WatchersInv, HeardInv, LastWord, Quiet, Registered, Reg, NoSlot, State, Telling
  <1>1. ASSUME NEW d \in Reg, Register(d) PROVE HeardInv'
    BY <1>1 DEF Register
  <1>2. ASSUME NEW d \in Reg, notifyPresence(d) PROVE HeardInv'
    BY <1>2 DEF notifyPresence, SlotInv
  <1>3. ASSUME NEW d \in Reg, NEW w \in Watcher, sendPresence(d, w) PROVE HeardInv'
    <2> SUFFICES ASSUME NEW v \in Watcher, watch'[v] \in {"snapshot", "live"}
                 PROVE  LastWord(v)' = Registered' \/ ~Quiet(v)' \/ v \in broken'
      OBVIOUS
    <2>1. /\ reg[d] \in {"online", "offline"} /\ watch[w] # "snapshot"
          /\ targets' = [targets EXCEPT ![d] = @ \ {w}]
          /\ UNCHANGED <<daemons, watchers, reg, watch, snap>>
          /\ IF watch[w] = "live" THEN Write(w, reg[d]) ELSE UNCHANGED <<broken, view>>
      BY <1>3 DEF sendPresence
    <2>2. broken \subseteq broken'
      BY <2>1 DEF Write
    <2>3. CASE v = w
      <3>1. watch[w] = "live" /\ Write(w, reg[d])
        BY <2>1, <2>3
      <3>2. CASE view' = [view EXCEPT ![w] = reg[d]]
        BY <2>1, <2>3, <3>2 DEF SlotInv
      <3>3. CASE broken' = broken \cup {w}
        BY <2>3, <3>3
      <3> QED
        BY <3>1, <3>2, <3>3 DEF Write
    <2>4. CASE v # w
      <3>1. view'[v] = view[v] /\ watch[v] = watch'[v] /\ snap'[v] = snap[v]
        BY <2>1, <2>4 DEF Write
      <3>2. Quiet(v)' => Quiet(v)
        BY <2>1, <2>4
      <3> QED
        BY <2>1, <2>2, <3>1, <3>2
    <2> QED
      BY <2>3, <2>4
  <1>4. ASSUME NEW d \in Reg, Told(d) PROVE HeardInv'
    BY <1>4 DEF Told
  <1>5. ASSUME NEW d \in Reg, Drop(d) PROVE HeardInv'
    BY <1>5 DEF Drop
  <1>6. ASSUME NEW w \in Watcher, serveWatcher(w) PROVE HeardInv'
    BY <1>6 DEF serveWatcher
  <1>7. ASSUME NEW w \in Watcher, Snapshot(w) PROVE HeardInv'
    BY <1>7 DEF Snapshot, Write
  <1>8. ASSUME NEW w \in Watcher, Leave(w) PROVE HeardInv'
    BY <1>8 DEF Leave
  <1>9. CASE UNCHANGED presenceVars
    BY <1>9 DEF presenceVars
  <1> QED
    BY <1>1, <1>2, <1>3, <1>4, <1>5, <1>6, <1>7, <1>8, <1>9 DEF PresenceNext, Tell
-----------------------------------------------------------------------------
\* Every variable has its type, also where registrations overlap.
THEOREM TypeCorrect == PresenceSpec => []PresenceTypeOK
  <1>1. PresenceInit => PresenceTypeOK
    BY InitIInv DEF IInv
  <1>2. PresenceTypeOK /\ [PresenceNext]_presenceVars => PresenceTypeOK'
    BY TypeStep
  <1> QED
    BY <1>1, <1>2, PTL DEF PresenceSpec

\* Without overlapping registrations, a watcher that nothing is on its way to
\* and whose socket takes writes shows what b.daemons says (presence.go:54-69,
\* broker.go:188-197).
THEOREM ViewsSettle == ~Overlap /\ PresenceSpec => []ViewSettles
  <1> SUFFICES ASSUME ~Overlap PROVE PresenceSpec => []ViewSettles
    OBVIOUS
  <1>1. PresenceInit => IInv
    BY InitIInv
  <1>2. IInv /\ [PresenceNext]_presenceVars => IInv'
    BY TypeStep, OrderStep, SlotStep, WatchersStep, HeardStep DEF IInv
  <1>3. IInv => ViewSettles
    BY DEF IInv, HeardInv, ViewSettles, LastWord
  <1> QED
    BY <1>1, <1>2, <1>3, PTL DEF PresenceSpec
=============================================================================
