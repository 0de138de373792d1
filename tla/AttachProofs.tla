---------------------------- MODULE AttachProofs ----------------------------
(***************************************************************************)
(* Proofs about Attach, for every set of devices, every set of goroutines  *)
(* that end the session and every bound on the number of requests: IInv is *)
(* inductive, and the safety properties of Attach follow from it.          *)
(***************************************************************************)
EXTENDS Attach, TLAPS

\* A session starts with nothing attached, attaching or claimed.
LEMMA InitIInv == Init => IInv
  <1> SUFFICES ASSUME Init PROVE IInv
    OBVIOUS
  <1> USE AttachAssumption DEF Init, Channel, Agent, Gen, NoFeed, Starting, Ended, Told
  <1>1. TypeOK
    BY DEF TypeOK
  <1>2. AgentInv /\ GenInv
    BY DEF AgentInv, GenInv, Claiming
  <1>3. StageInv /\ OwnerInv /\ NoOrphanFeed
    BY DEF StageInv, OwnerInv, NoOrphanFeed, HeldBy, HeldByAttach, HeldByPump
  <1>4. PendingExact /\ PowerInv
    BY DEF PendingExact, PowerInv, InFlight
  <1>5. RouteInv
    BY DEF RouteInv
  <1> QED
    BY <1>1, <1>2, <1>3, <1>4, <1>5 DEF IInv

\* Every step keeps the types.
LEMMA TypeStep ==
        /\ TypeOK
        /\ [Next]_vars
     => TypeOK'
  <1> SUFFICES ASSUME TypeOK, [Next]_vars PROVE TypeOK'
    OBVIOUS
  <1> USE AttachAssumption DEF TypeOK, Channel, Agent, Gen, NoFeed, Starting, Ended, Told,
     dispatch, agents, attempts, feeds
  <1>1. ASSUME NEW c \in Channel, BadRequest(c) PROVE TypeOK'
    BY <1>1 DEF BadRequest, Reply
  <1>2. ASSUME NEW c \in Channel, NEW u \in Device, doAttach(c, u) PROVE TypeOK'
    BY <1>2 DEF doAttach, Begin, Goto, AfterClaim, claimAttach
  <1>3. ASSUME NEW c \in Channel, NEW u \in Device, doBoot(c, u) PROVE TypeOK'
    BY <1>3 DEF doBoot, Begin, Goto
  <1>4. ASSUME NEW c \in Channel, NEW o \in {"shutdown", "restart"}, NEW u \in Device,
             PowerCheck(c, o, u) PROVE TypeOK'
    BY <1>4 DEF PowerCheck, Begin, Goto, streaming
  <1>5. ASSUME NEW c \in Channel, doDetach(c) PROVE TypeOK'
    BY <1>5 DEF doDetach, Begin, Goto, AfterClaim, claimAttach
  <1>6. ASSUME restartAttachment PROVE TypeOK'
    BY <1>6 DEF restartAttachment, Begin, Goto, claimAttach
  <1>7. ASSUME NEW a \in Agent, stopAttachment(a) PROVE TypeOK'
    BY <1>7 DEF stopAttachment, Goto, AfterClaim, claimAttach
  <1>8. ASSUME NEW a \in Agent, Release(a) PROVE TypeOK'
    BY <1>8 DEF Release, Goto, Close
  <1>9. ASSUME NEW c \in Channel, AttachGo(c) PROVE TypeOK'
    BY <1>9 DEF AttachGo, Reply, Spawn, Finish, Goto
  <1>10. ASSUME NEW c \in Channel, DetachReply(c) PROVE TypeOK'
    BY <1>10 DEF DetachReply, Reply, Finish, Goto
  <1>11. ASSUME doQuality PROVE TypeOK'
    BY <1>11 DEF doQuality, Spawn, Finish, Goto
  <1>12. ASSUME NEW c \in Channel, PowerGo(c) PROVE TypeOK'
    BY <1>12 DEF PowerGo, Reply, Goto
  <1>13. ASSUME NEW c \in Channel, PowerOff(c) PROVE TypeOK'
    <2>1. CASE op[c] = "restart" /\ Goto(c, "boot") /\ UNCHANGED <<bulkLifecycle, op, arg, claimed>>
      BY <1>13, <2>1 DEF PowerOff, Goto
    <2>2. CASE Finish(c) /\ Reply(c)
      BY <1>13, <2>2 DEF PowerOff, Reply, Finish, Goto
    <2> QED
      BY <1>13, <2>1, <2>2 DEF PowerOff
  <1>14. ASSUME NEW c \in Channel, PowerOn(c) PROVE TypeOK'
    BY <1>14 DEF PowerOn, Reply, Finish, Goto
  <1>15. ASSUME NEW t \in Teardowns, EndSession(t) PROVE TypeOK'
    BY <1>15 DEF EndSession, Begin, Goto
  <1>16. ASSUME NEW g \in Gen, BackendReturns(g) PROVE TypeOK'
    BY <1>16 DEF BackendReturns
  <1>17. ASSUME NEW g \in Gen, Watchdog(g) PROVE TypeOK'
    BY <1>17 DEF Watchdog
  <1>18. ASSUME NEW g \in Gen, attachWithin(g) PROVE TypeOK'
    <2>1. CASE stage[g] = "feed" /\ ~expired[g]
      BY <1>18, <2>1 DEF attachWithin
    <2>2. CASE stage[g] = "feed" /\ expired[g]
      <3>1. /\ stage' = [stage EXCEPT ![g] = "fail"] /\ cancelled' = [cancelled EXCEPT ![g] = TRUE]
            /\ feed' = Close(g, "dropped") /\ expired' = [expired EXCEPT ![g] = FALSE]
            /\ UNCHANGED <<base, dispatch, bulkLifecycle, agents, dev, route, pump>>
        BY <1>18, <2>2 DEF attachWithin
      <3>2. feed' \in [Gen -> {"none", "open", "dropped", "taken", "died", "reclosed"}]
        BY <3>1 DEF Close
      <3> QED
        BY <3>1, <3>2
    <2>3. CASE stage[g] = "error"
      BY <1>18, <2>3 DEF attachWithin
    <2> QED
      BY <1>18, <2>1, <2>2, <2>3 DEF attachWithin
  <1>19. ASSUME NEW g \in Gen, attachAs(g) PROVE TypeOK'
    <2>1. CASE gen = g
      <3>1. /\ att' = g /\ pending' = NoDevice /\ stage' = [stage EXCEPT ![g] = "announce"]
            /\ pump' = [pump EXCEPT ![g] = "running"]
            /\ UNCHANGED <<base, gen, bulkLifecycle, agents, dev, route, expired, cancelled, feed>>
        BY <1>19, <2>1 DEF attachAs
      <3> QED
        BY <3>1
    <2>2. CASE gen # g
      <3>1. /\ stage' = [stage EXCEPT ![g] = "drop"] /\ UNCHANGED <<att, pending, pump>>
            /\ UNCHANGED <<base, gen, bulkLifecycle, agents, dev, route, expired, cancelled, feed>>
        BY <1>19, <2>2 DEF attachAs
      <3> QED
        BY <3>1
    <2> QED
      BY <2>1, <2>2
  <1>20. ASSUME NEW g \in Gen, DropFeed(g) PROVE TypeOK'
    BY <1>20 DEF DropFeed, Close
  <1>21. ASSUME NEW g \in Gen, failAttach(g) PROVE TypeOK'
    BY <1>21 DEF failAttach
  <1>22. ASSUME NEW g \in Gen, TerminalReply(g) PROVE TypeOK'
    BY <1>22 DEF TerminalReply, Reply
  <1>23. ASSUME NEW g \in Gen, PumpStops(g) PROVE TypeOK'
    BY <1>23 DEF PumpStops
  <1>24. ASSUME NEW g \in Gen, PumpRetires(g) PROVE TypeOK'
    BY <1>24 DEF PumpRetires
  <1>25. ASSUME NEW g \in Gen, PumpCloses(g) PROVE TypeOK'
    BY <1>25 DEF PumpCloses, Close
  <1>26. ASSUME NEW g \in Gen, StreamEnded(g) PROVE TypeOK'
    BY <1>26 DEF StreamEnded
  <1>27. CASE UNCHANGED vars
    BY <1>27 DEF vars
  <1> HIDE DEF TypeOK, Channel, Agent, Gen, NoFeed, Starting, Ended, Told, dispatch,
     agents, attempts, feeds
  <1> QED
    BY <1>1, <1>2, <1>3, <1>4, <1>5, <1>6, <1>7, <1>8, <1>9, <1>10, <1>11, <1>12, <1>13,
       <1>14, <1>15, <1>16, <1>17, <1>18, <1>19, <1>20, <1>21, <1>22, <1>23, <1>24, <1>25,
       <1>26, <1>27
       DEF Next, Request, Continue, Teardown, AttachStep, PumpStep, Agent, Channel

\* Every step keeps program counters and requests together.
LEMMA AgentStep ==
        /\ TypeOK
        /\ AgentInv
        /\ GenInv
        /\ StageInv
        /\ OwnerInv
        /\ [Next]_vars
     => AgentInv'
  <1> SUFFICES ASSUME TypeOK, AgentInv, GenInv, StageInv, OwnerInv, [Next]_vars PROVE AgentInv'
    OBVIOUS
  <1> USE AttachAssumption DEF TypeOK, AgentInv, Channel, Agent, Gen, NoFeed, dispatch,
     agents, attempts, feeds
  <1>1. ASSUME NEW c \in Channel, BadRequest(c) PROVE AgentInv'
    BY <1>1 DEF BadRequest, Reply
  <1>2. ASSUME NEW c \in Channel, NEW u \in Device, doAttach(c, u) PROVE AgentInv'
    BY <1>2 DEF doAttach, Begin, Goto, AfterClaim, claimAttach
  <1>3. ASSUME NEW c \in Channel, NEW u \in Device, doBoot(c, u) PROVE AgentInv'
    BY <1>3 DEF doBoot, Begin, Goto
  <1>4. ASSUME NEW c \in Channel, NEW o \in {"shutdown", "restart"}, NEW u \in Device,
             PowerCheck(c, o, u) PROVE AgentInv'
    BY <1>4 DEF PowerCheck, Begin, Goto, streaming
  <1>5. ASSUME NEW c \in Channel, doDetach(c) PROVE AgentInv'
    BY <1>5 DEF doDetach, Begin, Goto, AfterClaim, claimAttach
  <1>6. ASSUME restartAttachment PROVE AgentInv'
    <2>1. att \in Gen /\ dev[att] \in Device
      BY <1>6 DEF restartAttachment, GenInv, StageInv, OwnerInv, HeldByAttach, Starting,
         Ended
    <2> QED
      BY <1>6, <2>1 DEF restartAttachment, Begin, Goto, claimAttach
  <1>7. ASSUME NEW a \in Agent, stopAttachment(a) PROVE AgentInv'
    BY <1>7 DEF stopAttachment, Goto, AfterClaim, claimAttach
  <1>8. ASSUME NEW a \in Agent, Release(a) PROVE AgentInv'
    BY <1>8 DEF Release, Goto, Close
  <1>9. ASSUME NEW c \in Channel, AttachGo(c) PROVE AgentInv'
    BY <1>9 DEF AttachGo, Reply, Spawn, Finish, Goto
  <1>10. ASSUME NEW c \in Channel, DetachReply(c) PROVE AgentInv'
    BY <1>10 DEF DetachReply, Reply, Finish, Goto
  <1>11. ASSUME doQuality PROVE AgentInv'
    BY <1>11 DEF doQuality, Spawn, Finish, Goto
  <1>12. ASSUME NEW c \in Channel, PowerGo(c) PROVE AgentInv'
    BY <1>12 DEF PowerGo, Reply, Goto
  <1>13. ASSUME NEW c \in Channel, PowerOff(c) PROVE AgentInv'
    <2>1. CASE op[c] = "restart" /\ Goto(c, "boot") /\ UNCHANGED <<bulkLifecycle, op, arg, claimed>>
      BY <1>13, <2>1 DEF PowerOff, Goto
    <2>2. CASE Finish(c) /\ Reply(c)
      BY <1>13, <2>2 DEF PowerOff, Reply, Finish, Goto
    <2> QED
      BY <1>13, <2>1, <2>2 DEF PowerOff
  <1>14. ASSUME NEW c \in Channel, PowerOn(c) PROVE AgentInv'
    BY <1>14 DEF PowerOn, Reply, Finish, Goto
  <1>15. ASSUME NEW t \in Teardowns, EndSession(t) PROVE AgentInv'
    BY <1>15 DEF EndSession, Begin, Goto
  <1>16. ASSUME NEW g \in Gen,
                \/ BackendReturns(g)
                \/ Watchdog(g)
                \/ attachWithin(g)
                \/ attachAs(g)
                \/ DropFeed(g)
                \/ failAttach(g)
                \/ TerminalReply(g)
                \/ PumpStops(g)
                \/ PumpRetires(g)
                \/ PumpCloses(g)
                \/ StreamEnded(g)
         PROVE AgentInv'
    BY <1>16 DEF BackendReturns, Watchdog, attachWithin, Close, attachAs, DropFeed,
       failAttach, TerminalReply, Reply, PumpStops, PumpRetires, PumpCloses, StreamEnded
  <1>17. CASE UNCHANGED vars
    BY <1>17 DEF vars
  <1> HIDE DEF TypeOK, AgentInv, Channel, Agent, Gen, NoFeed, dispatch, agents, attempts,
     feeds
  <1> QED
    BY <1>1, <1>2, <1>3, <1>4, <1>5, <1>6, <1>7, <1>8, <1>9, <1>10, <1>11, <1>12, <1>13,
       <1>14, <1>15, <1>16, <1>17
       DEF Next, Request, Continue, Teardown, AttachStep, PumpStep, Agent, Channel

\* Every step keeps generations unique.
LEMMA GenStep ==
        /\ TypeOK
        /\ AgentInv
        /\ GenInv
        /\ [Next]_vars
     => GenInv'
  <1> SUFFICES ASSUME TypeOK, AgentInv, GenInv, [Next]_vars PROVE GenInv'
    OBVIOUS
  <1> USE AttachAssumption DEF TypeOK, AgentInv, GenInv, Claiming, Channel, Agent, Gen,
     NoFeed, dispatch, agents, attempts, feeds
  <1>1. ASSUME NEW c \in Channel,
                \/ BadRequest(c)
                \/ DetachReply(c)
                \/ PowerGo(c)
                \/ PowerOn(c)
         PROVE GenInv'
    BY <1>1 DEF BadRequest, Reply, DetachReply, Finish, Goto, PowerGo, PowerOn
  <1>2. ASSUME NEW c \in Channel, NEW u \in Device, doAttach(c, u) PROVE GenInv'
    BY <1>2 DEF doAttach, Begin, Goto, AfterClaim, claimAttach
  <1>3. ASSUME NEW c \in Channel, NEW u \in Device, doBoot(c, u) PROVE GenInv'
    BY <1>3 DEF doBoot, Begin, Goto
  <1>4. ASSUME NEW c \in Channel, NEW o \in {"shutdown", "restart"}, NEW u \in Device,
             PowerCheck(c, o, u) PROVE GenInv'
    BY <1>4 DEF PowerCheck, Begin, Goto, streaming
  <1>5. ASSUME NEW c \in Channel, doDetach(c) PROVE GenInv'
    BY <1>5 DEF doDetach, Begin, Goto, AfterClaim, claimAttach
  <1>6. ASSUME restartAttachment PROVE GenInv'
    BY <1>6 DEF restartAttachment, Begin, Goto, claimAttach
  <1>7. ASSUME NEW a \in Agent, stopAttachment(a) PROVE GenInv'
    <2>1. op[a] \notin {"attach", "quality"} /\ op' = op
      BY <1>7 DEF stopAttachment
    <2>2. \A c \in Channel : Claiming(c)' => Claiming(c) /\ claimed'[c] = claimed[c]
      BY <1>7, <2>1 DEF stopAttachment, Goto, claimAttach
    <2>3. gen' = gen + 1 /\ (\A b \in Agent : claimed'[b] =< gen + 1) /\ UNCHANGED <<stage, dev>>
      BY <1>7 DEF stopAttachment, claimAttach
    <2> QED
      BY <2>2, <2>3
  <1>8. ASSUME NEW a \in Agent, Release(a) PROVE GenInv'
    BY <1>8 DEF Release, Goto, Close
  <1>9. ASSUME NEW c \in Channel, AttachGo(c) PROVE GenInv'
    BY <1>9 DEF AttachGo, Reply, Spawn, Finish, Goto
  <1>10. ASSUME doQuality PROVE GenInv'
    BY <1>10 DEF doQuality, Spawn, Finish, Goto
  <1>11. ASSUME NEW c \in Channel, PowerOff(c) PROVE GenInv'
    <2>1. CASE op[c] = "restart" /\ Goto(c, "boot") /\ UNCHANGED <<bulkLifecycle, op, arg, claimed>>
      BY <1>11, <2>1 DEF PowerOff, Goto
    <2>2. CASE Finish(c) /\ Reply(c)
      BY <1>11, <2>2 DEF PowerOff, Reply, Finish, Goto
    <2> QED
      BY <1>11, <2>1, <2>2 DEF PowerOff
  <1>12. ASSUME NEW t \in Teardowns, EndSession(t) PROVE GenInv'
    BY <1>12 DEF EndSession, Begin, Goto
  <1>13. ASSUME NEW g \in Gen,
                \/ BackendReturns(g)
                \/ Watchdog(g)
                \/ attachWithin(g)
                \/ attachAs(g)
                \/ DropFeed(g)
                \/ failAttach(g)
                \/ TerminalReply(g)
                \/ PumpStops(g)
                \/ PumpRetires(g)
                \/ PumpCloses(g)
                \/ StreamEnded(g)
         PROVE GenInv'
    BY <1>13 DEF BackendReturns, Watchdog, attachWithin, Close, attachAs, DropFeed,
       failAttach, TerminalReply, Reply, PumpStops, PumpRetires, PumpCloses, StreamEnded
  <1>14. CASE UNCHANGED vars
    BY <1>14 DEF vars
  <1> HIDE DEF TypeOK, AgentInv, GenInv, Claiming, Channel, Agent, Gen, NoFeed, dispatch,
     agents, attempts, feeds
  <1> QED
    BY <1>1, <1>2, <1>3, <1>4, <1>5, <1>6, <1>7, <1>8, <1>9, <1>10, <1>11, <1>12, <1>13,
       <1>14
       DEF Next, Request, Continue, Teardown, AttachStep, PumpStep, Agent, Channel

\* Every step keeps stages, feeds and pumps together.
LEMMA StageStep ==
        /\ TypeOK
        /\ AgentInv
        /\ GenInv
        /\ StageInv
        /\ OwnerInv
        /\ [Next]_vars
     => StageInv'
  <1> SUFFICES ASSUME TypeOK, AgentInv, GenInv, StageInv, OwnerInv, [Next]_vars PROVE StageInv'
    OBVIOUS
  <1> USE AttachAssumption DEF TypeOK, AgentInv, GenInv, Claiming, StageInv, OwnerInv,
     HeldByAttach, HeldByPump, Told, Channel, Agent, Gen, NoFeed, dispatch, agents,
     attempts, feeds
  <1>1. ASSUME NEW c \in Channel,
                \/ BadRequest(c)
                \/ DetachReply(c)
                \/ PowerGo(c)
                \/ PowerOn(c)
         PROVE StageInv'
    BY <1>1 DEF BadRequest, Reply, DetachReply, Finish, Goto, PowerGo, PowerOn
  <1>2. ASSUME NEW c \in Channel, NEW u \in Device, doAttach(c, u) PROVE StageInv'
    BY <1>2 DEF doAttach, Begin, Goto, AfterClaim, claimAttach
  <1>3. ASSUME NEW c \in Channel, NEW u \in Device, doBoot(c, u) PROVE StageInv'
    BY <1>3 DEF doBoot, Begin, Goto
  <1>4. ASSUME NEW c \in Channel, NEW o \in {"shutdown", "restart"}, NEW u \in Device,
             PowerCheck(c, o, u) PROVE StageInv'
    BY <1>4 DEF PowerCheck, Begin, Goto, streaming
  <1>5. ASSUME NEW c \in Channel, doDetach(c) PROVE StageInv'
    BY <1>5 DEF doDetach, Begin, Goto, AfterClaim, claimAttach
  <1>6. ASSUME restartAttachment PROVE StageInv'
    BY <1>6 DEF restartAttachment, Begin, Goto, claimAttach
  <1>7. ASSUME NEW a \in Agent, stopAttachment(a) PROVE StageInv'
    BY <1>7 DEF stopAttachment, Goto, AfterClaim, claimAttach
  <1>8. ASSUME NEW a \in Agent, Release(a) PROVE StageInv'
    <2>1. /\ victim[a] \in Gen
          /\ feed[victim[a]] = "open"
          /\ pump[victim[a]] \in {"running", "retiring", "quiet"}
      BY <1>8 DEF Release
    <2>2. stage[victim[a]] \in {"announce", "attached"}
      BY <2>1 DEF Starting, Ended
    <2>3. feed' = [feed EXCEPT ![victim[a]] = "taken"] /\ UNCHANGED <<stage, pump>>
      BY <1>8, <2>1 DEF Release, Close
    <2> QED
      BY <2>1, <2>2, <2>3
  <1>9. ASSUME NEW c \in Channel, AttachGo(c) PROVE StageInv'
    BY <1>9 DEF AttachGo, Reply, Spawn, Finish, Goto
  <1>10. ASSUME doQuality PROVE StageInv'
    BY <1>10 DEF doQuality, Spawn, Finish, Goto
  <1>11. ASSUME NEW c \in Channel, PowerOff(c) PROVE StageInv'
    BY <1>11 DEF PowerOff, Reply, Finish, Goto
  <1>12. ASSUME NEW t \in Teardowns, EndSession(t) PROVE StageInv'
    BY <1>12 DEF EndSession, Begin, Goto
  <1>13. ASSUME NEW g \in Gen, BackendReturns(g) PROVE StageInv'
    BY <1>13 DEF BackendReturns
  <1>14. ASSUME NEW g \in Gen, Watchdog(g) PROVE StageInv'
    BY <1>14 DEF Watchdog
  <1>15. ASSUME NEW g \in Gen, attachWithin(g) PROVE StageInv'
    BY <1>15 DEF attachWithin, Close
  <1>16. ASSUME NEW g \in Gen, attachAs(g) PROVE StageInv'
    BY <1>16 DEF attachAs
  <1>17. ASSUME NEW g \in Gen, DropFeed(g) PROVE StageInv'
    BY <1>17 DEF DropFeed, Close
  <1>18. ASSUME NEW g \in Gen, failAttach(g) PROVE StageInv'
    BY <1>18 DEF failAttach
  <1>19. ASSUME NEW g \in Gen, TerminalReply(g) PROVE StageInv'
    BY <1>19 DEF TerminalReply, Reply
  <1>20. ASSUME NEW g \in Gen, PumpStops(g) PROVE StageInv'
    BY <1>20 DEF PumpStops
  <1>21. ASSUME NEW g \in Gen, PumpRetires(g) PROVE StageInv'
    BY <1>21 DEF PumpRetires
  <1>22. ASSUME NEW g \in Gen, PumpCloses(g) PROVE StageInv'
    BY <1>22 DEF PumpCloses, Close
  <1>23. ASSUME NEW g \in Gen, StreamEnded(g) PROVE StageInv'
    BY <1>23 DEF StreamEnded
  <1>24. CASE UNCHANGED vars
    BY <1>24 DEF vars
  <1> HIDE DEF TypeOK, AgentInv, GenInv, Claiming, StageInv, OwnerInv, HeldByAttach,
     HeldByPump, Told, Channel, Agent, Gen, NoFeed, dispatch, agents, attempts, feeds
  <1> QED
    BY <1>1, <1>2, <1>3, <1>4, <1>5, <1>6, <1>7, <1>8, <1>9, <1>10, <1>11, <1>12, <1>13,
       <1>14, <1>15, <1>16, <1>17, <1>18, <1>19, <1>20, <1>21, <1>22, <1>23, <1>24
       DEF Next, Request, Continue, Teardown, AttachStep, PumpStep, Agent, Channel

\* Every step leaves an open feed with one owner.
LEMMA OwnerStep ==
        /\ TypeOK
        /\ AgentInv
        /\ GenInv
        /\ StageInv
        /\ OwnerInv
        /\ [Next]_vars
     => OwnerInv'
  <1> SUFFICES ASSUME TypeOK, AgentInv, GenInv, StageInv, OwnerInv, [Next]_vars PROVE OwnerInv'
    OBVIOUS
  <1> USE AttachAssumption DEF TypeOK, AgentInv, GenInv, Claiming, StageInv, OwnerInv,
     HeldByAttach, HeldByPump, Told, Channel, Agent, Gen, NoFeed, dispatch, agents,
     attempts, feeds
  <1>1. ASSUME NEW c \in Channel,
                \/ BadRequest(c)
                \/ DetachReply(c)
                \/ PowerGo(c)
                \/ PowerOn(c)
         PROVE OwnerInv'
    BY <1>1 DEF BadRequest, Reply, DetachReply, Finish, Goto, PowerGo, PowerOn
  <1>2. ASSUME NEW c \in Channel, NEW u \in Device, doAttach(c, u) PROVE OwnerInv'
    BY <1>2 DEF doAttach, Begin, Goto, AfterClaim, claimAttach
  <1>3. ASSUME NEW c \in Channel, NEW u \in Device, doBoot(c, u) PROVE OwnerInv'
    BY <1>3 DEF doBoot, Begin, Goto
  <1>4. ASSUME NEW c \in Channel, NEW o \in {"shutdown", "restart"}, NEW u \in Device,
             PowerCheck(c, o, u) PROVE OwnerInv'
    BY <1>4 DEF PowerCheck, Begin, Goto, streaming
  <1>5. ASSUME NEW c \in Channel, doDetach(c) PROVE OwnerInv'
    BY <1>5 DEF doDetach, Begin, Goto, AfterClaim, claimAttach
  <1>6. ASSUME restartAttachment PROVE OwnerInv'
    BY <1>6 DEF restartAttachment, Begin, Goto, claimAttach
  <1>7. ASSUME NEW a \in Agent, stopAttachment(a) PROVE OwnerInv'
    BY <1>7 DEF stopAttachment, Goto, AfterClaim, claimAttach
  <1>8. ASSUME NEW a \in Agent, Release(a) PROVE OwnerInv'
    <2>1. /\ victim[a] \in Gen
          /\ feed[victim[a]] = "open"
          /\ pump[victim[a]] \in {"running", "retiring", "quiet"}
          /\ victim[a] # att
      BY <1>8 DEF Release
    <2>2. feed' = [feed EXCEPT ![victim[a]] = "taken"]
      BY <1>8, <2>1 DEF Release, Close
    <2>3. victim' = [victim EXCEPT ![a] = NoFeed] /\ UNCHANGED <<att, pump>>
      BY <1>8 DEF Release
    <2>4. \A b \in Agent : victim'[b] # NoFeed => victim'[b] = victim[b] /\ victim[b] # victim[a]
      BY <2>1, <2>3
    <2> QED
      BY <2>1, <2>2, <2>3, <2>4
  <1>9. ASSUME NEW c \in Channel, AttachGo(c) PROVE OwnerInv'
    BY <1>9 DEF AttachGo, Reply, Spawn, Finish, Goto
  <1>10. ASSUME doQuality PROVE OwnerInv'
    BY <1>10 DEF doQuality, Spawn, Finish, Goto
  <1>11. ASSUME NEW c \in Channel, PowerOff(c) PROVE OwnerInv'
    BY <1>11 DEF PowerOff, Reply, Finish, Goto
  <1>12. ASSUME NEW t \in Teardowns, EndSession(t) PROVE OwnerInv'
    BY <1>12 DEF EndSession, Begin, Goto
  <1>13. ASSUME NEW g \in Gen, BackendReturns(g) PROVE OwnerInv'
    BY <1>13 DEF BackendReturns
  <1>14. ASSUME NEW g \in Gen,
                \/ Watchdog(g)
                \/ failAttach(g)
                \/ TerminalReply(g)
         PROVE OwnerInv'
    BY <1>14 DEF Watchdog, failAttach, TerminalReply, Reply
  <1>15. ASSUME NEW g \in Gen, attachWithin(g) PROVE OwnerInv'
    BY <1>15 DEF attachWithin, Close
  <1>16. ASSUME NEW g \in Gen, attachAs(g) PROVE OwnerInv'
    BY <1>16 DEF attachAs
  <1>17. ASSUME NEW g \in Gen, DropFeed(g) PROVE OwnerInv'
    BY <1>17 DEF DropFeed, Close
  <1>18. ASSUME NEW g \in Gen, PumpStops(g) PROVE OwnerInv'
    BY <1>18 DEF PumpStops
  <1>19. ASSUME NEW g \in Gen, PumpRetires(g) PROVE OwnerInv'
    BY <1>19 DEF PumpRetires
  <1>20. ASSUME NEW g \in Gen, PumpCloses(g) PROVE OwnerInv'
    BY <1>20 DEF PumpCloses, Close
  <1>21. ASSUME NEW g \in Gen, StreamEnded(g) PROVE OwnerInv'
    BY <1>21 DEF StreamEnded
  <1>22. CASE UNCHANGED vars
    BY <1>22 DEF vars
  <1> HIDE DEF TypeOK, AgentInv, GenInv, Claiming, StageInv, OwnerInv, HeldByAttach,
     HeldByPump, Told, Channel, Agent, Gen, NoFeed, dispatch, agents, attempts, feeds
  <1> QED
    BY <1>1, <1>2, <1>3, <1>4, <1>5, <1>6, <1>7, <1>8, <1>9, <1>10, <1>11, <1>12, <1>13,
       <1>14, <1>15, <1>16, <1>17, <1>18, <1>19, <1>20, <1>21, <1>22
       DEF Next, Request, Continue, Teardown, AttachStep, PumpStep, Agent, Channel

\* No step orphans a feed.
LEMMA OrphanStep ==
        /\ TypeOK
        /\ AgentInv
        /\ GenInv
        /\ PendingExact
        /\ StageInv
        /\ OwnerInv
        /\ NoOrphanFeed
        /\ [Next]_vars
     => NoOrphanFeed'
  <1> SUFFICES ASSUME TypeOK, AgentInv, GenInv, PendingExact, StageInv, OwnerInv, NoOrphanFeed, [Next]_vars PROVE NoOrphanFeed'
    OBVIOUS
  <1> USE AttachAssumption DEF TypeOK, AgentInv, StageInv, OwnerInv, NoOrphanFeed, HeldBy,
     HeldByAttach, HeldByPump, Told, Channel, Agent, Gen, NoFeed, dispatch, agents,
     attempts, feeds
  <1>1. ASSUME NEW c \in Channel,
                \/ BadRequest(c)
                \/ DetachReply(c)
                \/ PowerGo(c)
                \/ PowerOn(c)
         PROVE NoOrphanFeed'
    <2>1. UNCHANGED <<att, victim, stage, feed, pump>>
      BY <1>1 DEF BadRequest, DetachReply, PowerGo, PowerOn
    <2> QED
      BY <2>1
  <1>2. ASSUME NEW c \in Channel, NEW u \in Device, doAttach(c, u) PROVE NoOrphanFeed'
    BY <1>2 DEF doAttach, Begin, Goto, AfterClaim, claimAttach
  <1>3. ASSUME NEW c \in Channel, NEW u \in Device, doBoot(c, u) PROVE NoOrphanFeed'
    BY <1>3 DEF doBoot, Begin, Goto
  <1>4. ASSUME NEW c \in Channel, NEW o \in {"shutdown", "restart"}, NEW u \in Device,
             PowerCheck(c, o, u) PROVE NoOrphanFeed'
    BY <1>4 DEF PowerCheck, Begin, Goto, streaming
  <1>5. ASSUME NEW c \in Channel, doDetach(c) PROVE NoOrphanFeed'
    BY <1>5 DEF doDetach, Begin, Goto, AfterClaim, claimAttach
  <1>6. ASSUME restartAttachment PROVE NoOrphanFeed'
    <2>1. victim'["bulk"] = att /\ (\A b \in Agent : victim[b] # NoFeed => victim'[b] = victim[b])
      BY <1>6 DEF restartAttachment, Begin, Goto, claimAttach
    <2> QED
      BY <1>6, <2>1 DEF restartAttachment, Begin, claimAttach
  <1>7. ASSUME NEW a \in Agent, stopAttachment(a) PROVE NoOrphanFeed'
    <2>1. victim'[a] = att /\ (\A b \in Agent : victim[b] # NoFeed => victim'[b] = victim[b])
      BY <1>7 DEF stopAttachment, claimAttach
    <2> QED
      BY <1>7, <2>1 DEF stopAttachment, claimAttach
  <1>8. ASSUME NEW a \in Agent, Release(a) PROVE NoOrphanFeed'
    BY <1>8 DEF Release, Goto, Close
  <1>9. ASSUME NEW c \in Channel, AttachGo(c) PROVE NoOrphanFeed'
    <2>1. claimed[c] \in Gen /\ stage[claimed[c]] = "none" /\ feed[claimed[c]] = "none"
      BY <1>9 DEF AttachGo, GenInv, Claiming
    <2> QED
      BY <1>9, <2>1 DEF AttachGo, Spawn
  <1>10. ASSUME doQuality PROVE NoOrphanFeed'
    <2>1. claimed["bulk"] \in Gen /\ stage[claimed["bulk"]] = "none" /\ feed[claimed["bulk"]] = "none"
      BY <1>10 DEF doQuality, GenInv, Claiming
    <2> QED
      BY <1>10, <2>1 DEF doQuality, Spawn
  <1>11. ASSUME NEW c \in Channel, PowerOff(c) PROVE NoOrphanFeed'
    BY <1>11 DEF PowerOff, Reply, Finish, Goto
  <1>12. ASSUME NEW t \in Teardowns, EndSession(t) PROVE NoOrphanFeed'
    BY <1>12 DEF EndSession, Begin, Goto
  <1>13. ASSUME NEW g \in Gen, BackendReturns(g) PROVE NoOrphanFeed'
    BY <1>13 DEF BackendReturns
  <1>14. ASSUME NEW g \in Gen, Watchdog(g) PROVE NoOrphanFeed'
    BY <1>14 DEF Watchdog
  <1>15. ASSUME NEW g \in Gen, attachWithin(g) PROVE NoOrphanFeed'
    BY <1>15 DEF attachWithin, Close
  <1>16. ASSUME NEW g \in Gen, attachAs(g) PROVE NoOrphanFeed'
    <2>1. gen = g => att = NoFeed
      BY <1>16 DEF attachAs, PendingExact
    <2>2. /\ UNCHANGED <<victim, feed>>
          /\ \A h \in Gen : h # g => stage'[h] = stage[h] /\ pump'[h] = pump[h]
          /\ pump[g] = "closing" => pump'[g] = "closing" \/ att' = g
          /\ \/ att' = g /\ att = NoFeed
             \/ att' = att /\ stage'[g] = "drop"
      BY <1>16, <2>1 DEF attachAs
    <2> SUFFICES ASSUME NEW h \in Gen, feed[h] = "open"
                 PROVE  \/ att' = h \/ stage'[h] \in {"feed", "install", "drop"} \/ pump'[h] = "closing"
                        \/ \E a \in Agent : victim[a] = h
      BY <2>2
    <2>3. \/ att = h \/ stage[h] \in {"feed", "install", "drop"} \/ pump[h] = "closing"
          \/ \E a \in Agent : victim[a] = h
      OBVIOUS
    <2>4. CASE h = g
      BY <2>2, <2>4
    <2>5. CASE h # g
      BY <2>2, <2>3, <2>5
    <2> QED
      BY <2>4, <2>5
  <1>17. ASSUME NEW g \in Gen, DropFeed(g) PROVE NoOrphanFeed'
    BY <1>17 DEF DropFeed, Close
  <1>18. ASSUME NEW g \in Gen, failAttach(g) PROVE NoOrphanFeed'
    <2>1. /\ UNCHANGED <<att, victim, feed, pump>>
          /\ \A h \in Gen : h # g => stage'[h] = stage[h]
          /\ stage[g] \notin {"feed", "install", "drop"}
      BY <1>18 DEF failAttach
    <2> QED
      BY <2>1
  <1>19. ASSUME NEW g \in Gen, TerminalReply(g) PROVE NoOrphanFeed'
    BY <1>19 DEF TerminalReply, Reply
  <1>20. ASSUME NEW g \in Gen, PumpStops(g) PROVE NoOrphanFeed'
    BY <1>20 DEF PumpStops
  <1>21. ASSUME NEW g \in Gen, PumpRetires(g) PROVE NoOrphanFeed'
    BY <1>21 DEF PumpRetires
  <1>22. ASSUME NEW g \in Gen, PumpCloses(g) PROVE NoOrphanFeed'
    BY <1>22 DEF PumpCloses, Close
  <1>23. ASSUME NEW g \in Gen, StreamEnded(g) PROVE NoOrphanFeed'
    BY <1>23 DEF StreamEnded
  <1>24. CASE UNCHANGED vars
    BY <1>24 DEF vars
  <1> HIDE DEF TypeOK, AgentInv, StageInv, OwnerInv, NoOrphanFeed, HeldBy, HeldByAttach,
     HeldByPump, Told, Channel, Agent, Gen, NoFeed, dispatch, agents, attempts, feeds
  <1> QED
    BY <1>1, <1>2, <1>3, <1>4, <1>5, <1>6, <1>7, <1>8, <1>9, <1>10, <1>11, <1>12, <1>13,
       <1>14, <1>15, <1>16, <1>17, <1>18, <1>19, <1>20, <1>21, <1>22, <1>23, <1>24
       DEF Next, Request, Continue, Teardown, AttachStep, PumpStep, Agent, Channel

\* Every step keeps d.pending exact.
LEMMA PendingStep ==
        /\ TypeOK
        /\ AgentInv
        /\ GenInv
        /\ StageInv
        /\ OwnerInv
        /\ PendingExact
        /\ [Next]_vars
     => PendingExact'
  <1> SUFFICES ASSUME TypeOK, AgentInv, GenInv, StageInv, OwnerInv, PendingExact, [Next]_vars PROVE PendingExact'
    OBVIOUS
  <1> USE AttachAssumption DEF TypeOK, AgentInv, GenInv, Claiming, StageInv, OwnerInv,
     PendingExact, InFlight, Starting, Channel, Agent, Gen, NoFeed, dispatch, agents,
     attempts, feeds
  <1>1. ASSUME NEW c \in Channel, BadRequest(c) PROVE PendingExact'
    BY <1>1 DEF BadRequest, Reply
  <1>2. ASSUME NEW c \in Channel, NEW u \in Device, doAttach(c, u) PROVE PendingExact'
    BY <1>2 DEF doAttach, Begin, Goto, AfterClaim, claimAttach
  <1>3. ASSUME NEW c \in Channel, NEW u \in Device, doBoot(c, u) PROVE PendingExact'
    BY <1>3 DEF doBoot, Begin, Goto
  <1>4. ASSUME NEW c \in Channel, NEW o \in {"shutdown", "restart"}, NEW u \in Device,
             PowerCheck(c, o, u) PROVE PendingExact'
    BY <1>4 DEF PowerCheck, Begin, Goto, streaming
  <1>5. ASSUME NEW c \in Channel, doDetach(c) PROVE PendingExact'
    BY <1>5 DEF doDetach, Begin, Goto, AfterClaim, claimAttach
  <1>6. ASSUME restartAttachment PROVE PendingExact'
    BY <1>6 DEF restartAttachment, Begin, Goto, claimAttach
  <1>7. ASSUME NEW a \in Agent, stopAttachment(a) PROVE PendingExact'
    <2>1. op[a] \notin {"attach", "quality"} /\ op' = op
      BY <1>7 DEF stopAttachment
    <2>2. \A c \in Channel : Claiming(c)' => claimed'[c] =< gen
      BY <1>7, <2>1 DEF stopAttachment, Goto, claimAttach
    <2>3. gen' = gen + 1 /\ att' = NoFeed /\ pending' = NoDevice /\ UNCHANGED <<stage, dev>>
      BY <1>7 DEF stopAttachment, claimAttach
    <2>4. \A g \in Gen, u \in Device : g = gen + 1 => ~InFlight(g, u)'
      BY <2>2, <2>3
    <2> QED
      BY <2>3, <2>4
  <1>8. ASSUME NEW a \in Agent, Release(a) PROVE PendingExact'
    BY <1>8 DEF Release, Goto, Close
  <1>9. ASSUME NEW c \in Channel, AttachGo(c) PROVE PendingExact'
    BY <1>9 DEF AttachGo, Reply, Spawn, Finish, Goto
  <1>10. ASSUME NEW c \in Channel, DetachReply(c) PROVE PendingExact'
    BY <1>10 DEF DetachReply, Reply, Finish, Goto
  <1>11. ASSUME doQuality PROVE PendingExact'
    BY <1>11 DEF doQuality, Spawn, Finish, Goto
  <1>12. ASSUME NEW c \in Channel, PowerGo(c) PROVE PendingExact'
    BY <1>12 DEF PowerGo, Reply, Goto
  <1>13. ASSUME NEW c \in Channel, PowerOff(c) PROVE PendingExact'
    BY <1>13 DEF PowerOff, Reply, Finish, Goto
  <1>14. ASSUME NEW c \in Channel, PowerOn(c) PROVE PendingExact'
    BY <1>14 DEF PowerOn, Reply, Finish, Goto
  <1>15. ASSUME NEW t \in Teardowns, EndSession(t) PROVE PendingExact'
    BY <1>15 DEF EndSession, Begin, Goto
  <1>16. ASSUME NEW g \in Gen, BackendReturns(g) PROVE PendingExact'
    BY <1>16 DEF BackendReturns
  <1>17. ASSUME NEW g \in Gen, Watchdog(g) PROVE PendingExact'
    BY <1>17 DEF Watchdog
  <1>18. ASSUME NEW g \in Gen, attachWithin(g) PROVE PendingExact'
    BY <1>18 DEF attachWithin, Close
  <1>19. ASSUME NEW g \in Gen, attachAs(g) PROVE PendingExact'
    BY <1>19 DEF attachAs
  <1>20. ASSUME NEW g \in Gen, DropFeed(g) PROVE PendingExact'
    BY <1>20 DEF DropFeed, Close
  <1>21. ASSUME NEW g \in Gen, failAttach(g) PROVE PendingExact'
    BY <1>21 DEF failAttach
  <1>22. ASSUME NEW g \in Gen, TerminalReply(g) PROVE PendingExact'
    BY <1>22 DEF TerminalReply, Reply
  <1>23. ASSUME NEW g \in Gen, PumpStops(g) PROVE PendingExact'
    BY <1>23 DEF PumpStops
  <1>24. ASSUME NEW g \in Gen, PumpRetires(g) PROVE PendingExact'
    BY <1>24 DEF PumpRetires
  <1>25. ASSUME NEW g \in Gen, PumpCloses(g) PROVE PendingExact'
    BY <1>25 DEF PumpCloses, Close
  <1>26. ASSUME NEW g \in Gen, StreamEnded(g) PROVE PendingExact'
    BY <1>26 DEF StreamEnded
  <1>27. CASE UNCHANGED vars
    BY <1>27 DEF vars
  <1> HIDE DEF TypeOK, AgentInv, GenInv, Claiming, StageInv, OwnerInv, PendingExact,
     InFlight, Starting, Channel, Agent, Gen, NoFeed, dispatch, agents, attempts, feeds
  <1> QED
    BY <1>1, <1>2, <1>3, <1>4, <1>5, <1>6, <1>7, <1>8, <1>9, <1>10, <1>11, <1>12, <1>13,
       <1>14, <1>15, <1>16, <1>17, <1>18, <1>19, <1>20, <1>21, <1>22, <1>23, <1>24, <1>25,
       <1>26, <1>27
       DEF Next, Request, Continue, Teardown, AttachStep, PumpStep, Agent, Channel

\* Every step keeps a power cycle clean.
LEMMA PowerStep ==
        /\ TypeOK
        /\ AgentInv
        /\ GenInv
        /\ PendingExact
        /\ PowerInv
        /\ [Next]_vars
     => PowerInv'
  <1> SUFFICES ASSUME TypeOK, AgentInv, GenInv, PendingExact, PowerInv, [Next]_vars PROVE PowerInv'
    OBVIOUS
  <1> USE AttachAssumption DEF TypeOK, AgentInv, GenInv, Claiming, PendingExact, PowerInv,
     InFlight, Starting, Channel, Agent, Gen, NoFeed, dispatch, agents, attempts, feeds
  <1>1. ASSUME NEW c \in Channel, BadRequest(c) PROVE PowerInv'
    BY <1>1 DEF BadRequest, Reply
  <1>2. ASSUME NEW c \in Channel, NEW u \in Device, doAttach(c, u) PROVE PowerInv'
    BY <1>2 DEF doAttach, Begin, Goto, AfterClaim, claimAttach
  <1>3. ASSUME NEW c \in Channel, NEW u \in Device, doBoot(c, u) PROVE PowerInv'
    BY <1>3 DEF doBoot, Begin, Goto
  <1>4. ASSUME NEW c \in Channel, NEW o \in {"shutdown", "restart"}, NEW u \in Device,
             PowerCheck(c, o, u) PROVE PowerInv'
    BY <1>4 DEF PowerCheck, Begin, Goto, streaming
  <1>5. ASSUME NEW c \in Channel, doDetach(c) PROVE PowerInv'
    BY <1>5 DEF doDetach, Begin, Goto, AfterClaim, claimAttach
  <1>6. ASSUME restartAttachment PROVE PowerInv'
    BY <1>6 DEF restartAttachment, Begin, Goto, claimAttach
  <1>7. ASSUME NEW a \in Agent, stopAttachment(a) PROVE PowerInv'
    BY <1>7 DEF stopAttachment, Goto, AfterClaim, claimAttach
  <1>8. ASSUME NEW a \in Agent, Release(a) PROVE PowerInv'
    BY <1>8 DEF Release, Goto, Close
  <1>9. ASSUME NEW c \in Channel, AttachGo(c) PROVE PowerInv'
    BY <1>9 DEF AttachGo, Reply, Spawn, Finish, Goto
  <1>10. ASSUME NEW c \in Channel, DetachReply(c) PROVE PowerInv'
    BY <1>10 DEF DetachReply, Reply, Finish, Goto
  <1>11. ASSUME doQuality PROVE PowerInv'
    BY <1>11 DEF doQuality, Spawn, Finish, Goto
  <1>12. ASSUME NEW c \in Channel, PowerGo(c) PROVE PowerInv'
    BY <1>12 DEF PowerGo, Reply, Goto
  <1>13. ASSUME NEW c \in Channel, PowerOff(c) PROVE PowerInv'
    BY <1>13 DEF PowerOff, Reply, Finish, Goto
  <1>14. ASSUME NEW c \in Channel, PowerOn(c) PROVE PowerInv'
    BY <1>14 DEF PowerOn, Reply, Finish, Goto
  <1>15. ASSUME NEW t \in Teardowns, EndSession(t) PROVE PowerInv'
    BY <1>15 DEF EndSession, Begin, Goto
  <1>16. ASSUME NEW g \in Gen,
                \/ BackendReturns(g)
                \/ Watchdog(g)
                \/ attachWithin(g)
                \/ DropFeed(g)
                \/ TerminalReply(g)
         PROVE PowerInv'
    BY <1>16 DEF BackendReturns, Watchdog, attachWithin, Close, DropFeed, TerminalReply,
       Reply
  <1>17. ASSUME NEW g \in Gen, attachAs(g) PROVE PowerInv'
    BY <1>17 DEF attachAs
  <1>18. ASSUME NEW g \in Gen, failAttach(g) PROVE PowerInv'
    BY <1>18 DEF failAttach
  <1>19. ASSUME NEW g \in Gen,
                \/ PumpStops(g)
                \/ PumpRetires(g)
                \/ PumpCloses(g)
                \/ StreamEnded(g)
         PROVE PowerInv'
    BY <1>19 DEF PumpStops, PumpRetires, PumpCloses, Close, StreamEnded
  <1>20. CASE UNCHANGED vars
    BY <1>20 DEF vars
  <1> HIDE DEF TypeOK, AgentInv, GenInv, Claiming, PendingExact, PowerInv, InFlight,
     Starting, Channel, Agent, Gen, NoFeed, dispatch, agents, attempts, feeds
  <1> QED
    BY <1>1, <1>2, <1>3, <1>4, <1>5, <1>6, <1>7, <1>8, <1>9, <1>10, <1>11, <1>12, <1>13,
       <1>14, <1>15, <1>16, <1>17, <1>18, <1>19, <1>20
       DEF Next, Request, Continue, Teardown, AttachStep, PumpStep, Agent, Channel

\* Every step keeps the route of events.
LEMMA RouteStep ==
        /\ TypeOK
        /\ AgentInv
        /\ GenInv
        /\ StageInv
        /\ RouteInv
        /\ [Next]_vars
     => RouteInv'
  <1> SUFFICES ASSUME TypeOK, AgentInv, GenInv, StageInv, RouteInv, [Next]_vars PROVE RouteInv'
    OBVIOUS
  <1> USE AttachAssumption DEF TypeOK, AgentInv, GenInv, Claiming, StageInv, RouteInv,
     Channel, Agent, Gen, NoFeed, Told, dispatch, agents, attempts, feeds
  <1>1. ASSUME NEW c \in Channel,
                \/ BadRequest(c)
                \/ DetachReply(c)
                \/ PowerGo(c)
                \/ PowerOn(c)
         PROVE RouteInv'
    BY <1>1 DEF BadRequest, Reply, DetachReply, Finish, Goto, PowerGo, PowerOn
  <1>2. ASSUME NEW c \in Channel, NEW u \in Device, doAttach(c, u) PROVE RouteInv'
    BY <1>2 DEF doAttach, Begin, Goto, AfterClaim, claimAttach
  <1>3. ASSUME NEW c \in Channel, NEW u \in Device, doBoot(c, u) PROVE RouteInv'
    BY <1>3 DEF doBoot, Begin, Goto
  <1>4. ASSUME NEW c \in Channel, NEW o \in {"shutdown", "restart"}, NEW u \in Device,
             PowerCheck(c, o, u) PROVE RouteInv'
    BY <1>4 DEF PowerCheck, Begin, Goto, streaming
  <1>5. ASSUME NEW c \in Channel, doDetach(c) PROVE RouteInv'
    BY <1>5 DEF doDetach, Begin, Goto, AfterClaim, claimAttach
  <1>6. ASSUME restartAttachment PROVE RouteInv'
    BY <1>6 DEF restartAttachment, Begin, Goto, claimAttach
  <1>7. ASSUME NEW a \in Agent, stopAttachment(a) PROVE RouteInv'
    BY <1>7 DEF stopAttachment, Goto, AfterClaim, claimAttach
  <1>8. ASSUME NEW a \in Agent, Release(a) PROVE RouteInv'
    BY <1>8 DEF Release, Goto, Close
  <1>9. ASSUME NEW c \in Channel, AttachGo(c) PROVE RouteInv'
    <2>1. claimed[c] \in Gen /\ stage[claimed[c]] = "none" /\ pump[claimed[c]] = "off"
      BY <1>9 DEF AttachGo
    <2> QED
      BY <1>9, <2>1 DEF AttachGo, Reply, Spawn
  <1>10. ASSUME doQuality PROVE RouteInv'
    BY <1>10 DEF doQuality, Spawn, Finish, Goto
  <1>11. ASSUME NEW c \in Channel, PowerOff(c) PROVE RouteInv'
    BY <1>11 DEF PowerOff, Reply, Finish, Goto
  <1>12. ASSUME NEW t \in Teardowns, EndSession(t) PROVE RouteInv'
    BY <1>12 DEF EndSession, Begin, Goto
  <1>13. ASSUME NEW g \in Gen, BackendReturns(g) PROVE RouteInv'
    BY <1>13 DEF BackendReturns
  <1>14. ASSUME NEW g \in Gen,
                \/ Watchdog(g)
                \/ attachWithin(g)
                \/ DropFeed(g)
                \/ failAttach(g)
         PROVE RouteInv'
    BY <1>14 DEF Watchdog, attachWithin, Close, DropFeed, failAttach
  <1>15. ASSUME NEW g \in Gen, attachAs(g) PROVE RouteInv'
    BY <1>15 DEF attachAs
  <1>16. ASSUME NEW g \in Gen, TerminalReply(g) PROVE RouteInv'
    BY <1>16 DEF TerminalReply, Reply
  <1>17. ASSUME NEW g \in Gen, PumpStops(g) PROVE RouteInv'
    BY <1>17 DEF PumpStops
  <1>18. ASSUME NEW g \in Gen, PumpRetires(g) PROVE RouteInv'
    BY <1>18 DEF PumpRetires
  <1>19. ASSUME NEW g \in Gen, PumpCloses(g) PROVE RouteInv'
    BY <1>19 DEF PumpCloses, Close
  <1>20. ASSUME NEW g \in Gen, StreamEnded(g) PROVE RouteInv'
    BY <1>20 DEF StreamEnded
  <1>21. CASE UNCHANGED vars
    BY <1>21 DEF vars
  <1> HIDE DEF TypeOK, AgentInv, GenInv, Claiming, StageInv, RouteInv, Channel, Agent,
     Gen, NoFeed, Told, dispatch, agents, attempts, feeds
  <1> QED
    BY <1>1, <1>2, <1>3, <1>4, <1>5, <1>6, <1>7, <1>8, <1>9, <1>10, <1>11, <1>12, <1>13,
       <1>14, <1>15, <1>16, <1>17, <1>18, <1>19, <1>20, <1>21
       DEF Next, Request, Continue, Teardown, AttachStep, PumpStep, Agent, Channel

\* IInv holds in every reachable state of a session's control plane.
THEOREM Inductive == Spec => []IInv
  <1>1. IInv /\ [Next]_vars => IInv'
    BY TypeStep, AgentStep, GenStep, StageStep, OwnerStep, OrphanStep, PendingStep,
       PowerStep, RouteStep DEF IInv
  <1> QED
    BY InitIInv, <1>1, PTL DEF Spec

\* The dispatcher's state and the locals of its goroutines stay well typed.
THEOREM TypeCorrect == Spec => []TypeOK
  <1>1. IInv => TypeOK
    BY DEF IInv
  <1> QED
    BY Inductive, <1>1, PTL

\* No backend feed is ever lost: whatever the interleaving of attach, detach,
\* quality, shutdown, restart and session end, an open feed is installed or
\* some goroutine is about to close it.
THEOREM FeedsOwned == Spec => []NoOrphanFeed
  <1>1. IInv => NoOrphanFeed
    BY DEF IInv
  <1> QED
    BY Inductive, <1>1, PTL

\* No backend feed is closed twice.
THEOREM FeedsClosedOnce == Spec => []ClosedOnce
  <1>1. IInv => ClosedOnce
    BY DEF IInv, TypeOK, StageInv, ClosedOnce, HeldByAttach, Starting, Ended
  <1> QED
    BY Inductive, <1>1, PTL

\* d.pending is set exactly while the latest intent is an attach in flight.
THEOREM PendingIsExact == Spec => []PendingExact
  <1>1. IInv => PendingExact
    BY DEF IInv
  <1> QED
    BY Inductive, <1>1, PTL

\* While a simulator powers off for a shutdown or restart, no attempt on it from
\* before is current or will be, and what the handler took it has closed.
THEOREM PowerCyclesClean == Spec => []PowerCycleClean
  <1>1. IInv => PowerCycleClean
    <2> SUFFICES ASSUME IInv, NEW c \in Channel, NEW g \in Gen,
                        op[c] \in {"shutdown", "restart"}, pc[c] \in {"power", "boot"}, g =< claimed[c]
                 PROVE  /\ ~(g = gen /\ InFlight(g, arg[c]))
                        /\ dev[g] = arg[c] =>
                             /\ att # g
                             /\ feed[g] = "open" => \/ HeldByAttach(g) \/ HeldByPump(g)
                                                   \/ \E a \in Agent \ {c} : HeldBy(g, a)
      BY DEF PowerCycleClean
    <2>1. gen \in Nat /\ g \in Nat /\ claimed[c] \in Nat /\ NoFeed \notin Gen
      BY AttachAssumption DEF IInv, TypeOK, Gen, NoFeed, Agent
    <2>2. g = gen => ~((att = g /\ dev[g] = arg[c]) \/ InFlight(g, arg[c]))
      BY <2>1 DEF IInv, PowerInv
    <2>3. dev[g] = arg[c] => att # g
      BY <2>1, <2>2 DEF IInv, PendingExact
    <2>4. ~HeldBy(g, c)
      BY <2>1 DEF IInv, AgentInv, HeldBy, Agent
    <2>5. feed[g] = "open" => att = g \/ HeldByAttach(g) \/ HeldByPump(g) \/ \E a \in Agent : HeldBy(g, a)
      BY DEF IInv, NoOrphanFeed
    <2> QED
      BY <2>2, <2>3, <2>4, <2>5
  <1> QED
    BY Inductive, <1>1, PTL

\* stream_ended is never sent for a feed that was taken down on purpose.
THEOREM NoFalseStreamEnded == Spec => []StreamEndedUnasked
  <1>1. IInv => StreamEndedUnasked
    BY DEF IInv, OwnerInv, StreamEndedUnasked
  <1> QED
    BY Inductive, <1>1, PTL

\* A feed asked for on "bulk" never has its end announced on "control".
THEOREM EventsRouted == Spec => []EventOnRequestRoute
  <1>1. IInv => EventOnRequestRoute
    BY DEF IInv, RouteInv, EventOnRequestRoute
  <1> QED
    BY Inductive, <1>1, PTL
=============================================================================
