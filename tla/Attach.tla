------------------------------- MODULE Attach -------------------------------
(***************************************************************************)
(* The attachment life cycle of one session's control plane: rtcDispatch   *)
(* in internal/server/attach.go and rtcdispatch.go.                        *)
(*                                                                         *)
(* Goroutines.  Each DataChannel ("control", "bulk") has a goroutine that  *)
(* handles one request at a time; every accepted attach runs attachAs on a *)
(* goroutine of its own; every installed feed has a pump goroutine; and    *)
(* the goroutines in Teardowns end the session (the peer's OnClose, and    *)
(* cleanup in serveOnce).  A section of code under d.mu is one action; the *)
(* code between two sections is another, so every unlock is a point where  *)
(* another goroutine may run.                                              *)
(*                                                                         *)
(* An attach attempt, its backend feed and its pump are all named by the   *)
(* generation the attempt claimed, which no other attempt ever has.        *)
(***************************************************************************)
EXTENDS Naturals

CONSTANTS
  Device,      \* the simulators a client may name
  NoDevice,    \* the empty udid
  Requests,    \* bound: the kinds of request the client sends
  Teardowns,   \* goroutines that end the session: "onClose", "cleanup"
  MaxGen       \* bound: requests are taken while d.gen is below it

ASSUME AttachAssumption ==
  /\ NoDevice \notin Device
  /\ MaxGen \in Nat
  /\ "control" \notin Teardowns
  /\ "bulk" \notin Teardowns

Channel == {"control", "bulk"}
Agent   == Channel \cup Teardowns
Gen     == 1..MaxGen
NoFeed  == 0                     \* d.att == nil

VARIABLES
  base,           \* d.baseCtx is cancelled: the session is going away
  gen,            \* d.gen
  att,            \* d.att, as the generation that installed it
  pending,        \* d.pending
  bulkLifecycle,  \* d.bulkLifecycle
  pc, op, arg,    \* per agent: where it is, the request it handles, its udid
  claimed,        \* per agent: the generation it claimed (or last looked at)
  victim,         \* per agent: the attachment it took out of d.att and must release
  stage,          \* per attempt: where attachAs is, or how it ended
  dev,            \* per attempt: its udid
  route,          \* per attempt: the channel its replies go to
  expired,        \* per attempt: attachWithin's timedOut
  cancelled,      \* per attempt: the feed's own ctx is cancelled
  feed,           \* per attempt: the backend feed, and who closed it
  pump            \* per attempt: where its pump is, or how it ended
-----------------------------------------------------------------------------
dispatch == <<gen, att, pending>>
agents   == <<pc, op, arg, claimed, victim>>
attempts == <<stage, dev, route, expired>>
feeds    == <<cancelled, feed, pump>>
vars     == <<base, dispatch, bulkLifecycle, agents, attempts, feeds>>

\* attachAs is still waiting for, or settling with, the backend.
Starting == {"spawning", "feed", "error", "install", "fail"}

\* How attachAs ends: a reply, or silence.
Ended == {"attached", "failed", "superseded"}

\* A "stream_ended" event went out, on this channel.
Told == {"told_control", "told_bulk"}

TypeOK ==
  /\ base \in BOOLEAN
  /\ gen \in Nat
  /\ att \in Gen \cup {NoFeed}
  /\ pending \in Device \cup {NoDevice}
  /\ bulkLifecycle \in BOOLEAN
  /\ pc \in [Agent -> {"idle", "stop", "release", "after", "power", "boot", "gone"}]
  /\ op \in [Agent -> {"none", "attach", "detach", "quality", "boot", "shutdown",
                       "restart", "teardown"}]
  /\ arg \in [Agent -> Device \cup {NoDevice}]
  /\ claimed \in [Agent -> Nat]
  /\ victim \in [Agent -> Gen \cup {NoFeed}]
  /\ stage \in [Gen -> {"none", "drop", "announce", "report"} \cup Starting \cup Ended]
  /\ dev \in [Gen -> Device \cup {NoDevice}]
  /\ route \in [Gen -> Channel]
  /\ expired \in [Gen -> BOOLEAN]
  /\ cancelled \in [Gen -> BOOLEAN]
  /\ feed \in [Gen -> {"none", "open", "dropped", "taken", "died", "reclosed"}]
  /\ pump \in [Gen -> {"off", "running", "retiring", "closing", "ending", "quiet"} \cup Told]

Init ==
  /\ base = FALSE
  /\ gen = 0
  /\ att = NoFeed
  /\ pending = NoDevice
  /\ bulkLifecycle = FALSE
  /\ pc = [a \in Agent |-> "idle"]
  /\ op = [a \in Agent |-> "none"]
  /\ arg = [a \in Agent |-> NoDevice]
  /\ claimed = [a \in Agent |-> 0]
  /\ victim = [a \in Agent |-> NoFeed]
  /\ stage = [g \in Gen |-> "none"]
  /\ dev = [g \in Gen |-> NoDevice]
  /\ route = [g \in Gen |-> "control"]
  /\ expired = [g \in Gen |-> FALSE]
  /\ cancelled = [g \in Gen |-> FALSE]
  /\ feed = [g \in Gen |-> "none"]
  /\ pump = [g \in Gen |-> "off"]
-----------------------------------------------------------------------------
(* Pieces of the handlers. *)

\* feed.Close() on a feed; a second Close is remembered as such.
Close(g, by) == [feed EXCEPT ![g] = IF @ = "open" THEN by ELSE "reclosed"]

\* Mutant of streaming: the window between two feeds looks idle.
streamingMutant(u) == att # NoFeed /\ dev[att] = u

\* The udid whose feed is live or still spawning, as streaming sees it.
streaming(u) ==
  \/ att # NoFeed /\ dev[att] = u
  \/ pending = u

\* The locked section of claimAttach and of restartAttachment: bump the
\* generation, take the current attachment out of d.att, record what follows.
\* A taken attachment is released next, outside the lock.
claimAttach(a, next) ==
  /\ gen' = gen + 1
  /\ claimed' = [claimed EXCEPT ![a] = gen + 1]
  /\ victim' = [victim EXCEPT ![a] = att]
  /\ att' = NoFeed
  /\ pending' = next

\* Mutant of AfterClaim: the taken attachment is left to be released later.
AfterClaimMutant(o) == IF o = "teardown" THEN "gone" ELSE "after"

AfterClaim(o) ==
  IF att # NoFeed THEN "release" ELSE IF o = "teardown" THEN "gone" ELSE "after"

\* Mutant of Reply: the flag is never set.
ReplyMutant(c) == bulkLifecycle' = bulkLifecycle

\* A reply to a request: on "bulk" it also records that the client reads
\* lifecycle there.
Reply(c) == bulkLifecycle' = (bulkLifecycle \/ c = "bulk")

Goto(a, where) == pc' = [pc EXCEPT ![a] = where]

\* The handler returns and its local variables are gone.
Finish(c) ==
  /\ Goto(c, "idle")
  /\ op' = [op EXCEPT ![c] = "none"]
  /\ arg' = [arg EXCEPT ![c] = NoDevice]
  /\ claimed' = [claimed EXCEPT ![c] = 0]

\* Agent a takes up a request.
Begin(a, o, u, where) ==
  /\ pc[a] = "idle"
  /\ op' = [op EXCEPT ![a] = o]
  /\ arg' = [arg EXCEPT ![a] = u]
  /\ Goto(a, where)

\* go d.attachAs(...) for the generation agent a claimed.
Spawn(a, r) ==
  /\ stage' = [stage EXCEPT ![claimed[a]] = "spawning"]
  /\ dev' = [dev EXCEPT ![claimed[a]] = arg[a]]
  /\ route' = [route EXCEPT ![claimed[a]] = r]
-----------------------------------------------------------------------------
(* Requests, on the goroutine of the channel that carried them. *)

\* A request without the udid it needs is refused.
BadRequest(c) ==
  /\ pc[c] = "idle"
  /\ Reply(c)
  /\ UNCHANGED <<base, dispatch, agents, attempts, feeds>>

doAttach(c, u) ==
  /\ gen < MaxGen
  /\ Begin(c, "attach", u, AfterClaim("attach"))
  /\ claimAttach(c, u)
  /\ UNCHANGED <<base, bulkLifecycle, attempts, feeds>>

\* "attaching", then the spawn on its own goroutine.
AttachGo(c) ==
  /\ pc[c] = "after" /\ op[c] = "attach"
  /\ Reply(c)
  /\ Spawn(c, c)
  /\ Finish(c)
  /\ UNCHANGED <<base, dispatch, victim, expired, feeds>>

\* Mutant of doDetach: the empty attachment is recorded for the empty udid.
doDetachMutant(c) ==
  /\ gen < MaxGen
  /\ Begin(c, "detach", NoDevice, AfterClaim("detach"))
  /\ claimAttach(c, NoFeed)
  /\ UNCHANGED <<base, bulkLifecycle, attempts, feeds>>

doDetach(c) ==
  /\ gen < MaxGen
  /\ Begin(c, "detach", NoDevice, AfterClaim("detach"))
  /\ claimAttach(c, NoDevice)
  /\ UNCHANGED <<base, bulkLifecycle, attempts, feeds>>

\* The "detached" reply.
DetachReply(c) ==
  /\ pc[c] = "after" /\ op[c] = "detach"
  /\ Reply(c)
  /\ Finish(c)
  /\ UNCHANGED <<base, dispatch, victim, attempts, feeds>>

\* quality rides "bulk" only.  With nothing attached it claims nothing and
\* answers no_attachment, which changes no state.
restartAttachment ==
  /\ gen < MaxGen
  /\ att # NoFeed
  /\ Begin("bulk", "quality", dev[att], "release")
  /\ claimAttach("bulk", dev[att])
  /\ UNCHANGED <<base, bulkLifecycle, attempts, feeds>>

\* The rebuild answers on the client's lifecycle route, read here; the
\* "quality" echo itself is not a lifecycle reply.
doQuality ==
  /\ pc["bulk"] = "after" /\ op["bulk"] = "quality"
  /\ Spawn("bulk", IF bulkLifecycle THEN "bulk" ELSE "control")
  /\ Finish("bulk")
  /\ UNCHANGED <<base, dispatch, bulkLifecycle, victim, expired, feeds>>

\* shutdown and restart look under the lock whether u is being streamed, and
\* stop the attachment in a second locked section.  claimed remembers the
\* generation that was looked at.
PowerCheck(c, o, u) ==
  /\ gen < MaxGen
  /\ Begin(c, o, u, IF streaming(u) THEN "stop" ELSE "power")
  /\ claimed' = [claimed EXCEPT ![c] = gen]
  /\ UNCHANGED <<base, dispatch, bulkLifecycle, victim, attempts, feeds>>

stopAttachment(a) ==
  /\ pc[a] = "stop"
  /\ claimAttach(a, NoDevice)
  /\ Goto(a, AfterClaim(op[a]))
  /\ UNCHANGED <<base, bulkLifecycle, op, arg, attempts, feeds>>

\* After the claim, outside the lock: cancel the taken attachment's ctx and
\* close its feed.
Release(a) ==
  /\ pc[a] = "release"
  /\ cancelled' = [cancelled EXCEPT ![victim[a]] = TRUE]
  /\ feed' = Close(victim[a], "taken")
  /\ victim' = [victim EXCEPT ![a] = NoFeed]
  /\ Goto(a, IF op[a] = "teardown" THEN "gone" ELSE "after")
  /\ UNCHANGED <<base, dispatch, bulkLifecycle, op, arg, claimed, attempts, pump>>

\* shutdown tells the client its feed ended; restart says nothing yet.
PowerGo(c) ==
  /\ pc[c] = "after" /\ op[c] \in {"shutdown", "restart"}
  /\ IF op[c] = "shutdown" THEN Reply(c) ELSE UNCHANGED bulkLifecycle
  /\ Goto(c, "power")
  /\ UNCHANGED <<base, dispatch, op, arg, claimed, victim, attempts, feeds>>

\* backend.Shutdown returns.  shutdown replies either way; restart goes on to
\* boot the device, or replies with the failure.
PowerOff(c) ==
  /\ pc[c] = "power"
  /\ \/ /\ op[c] = "restart"
        /\ Goto(c, "boot")
        /\ UNCHANGED <<bulkLifecycle, op, arg, claimed>>
     \/ Finish(c) /\ Reply(c)
  /\ UNCHANGED <<base, dispatch, victim, attempts, feeds>>

doBoot(c, u) ==
  /\ Begin(c, "boot", u, "boot")
  /\ UNCHANGED <<base, dispatch, bulkLifecycle, claimed, victim, attempts, feeds>>

\* backend.Boot returns; "booted" or the failure is the reply.
PowerOn(c) ==
  /\ pc[c] = "boot"
  /\ Reply(c)
  /\ Finish(c)
  /\ UNCHANGED <<base, dispatch, victim, attempts, feeds>>

\* The peer died (OnClose) or the daemon dropped the client (cleanup): cancel
\* the session's ctx, then stop the attachment.
EndSession(t) ==
  /\ Begin(t, "teardown", NoDevice, "stop")
  /\ base' = TRUE
  /\ UNCHANGED <<dispatch, bulkLifecycle, claimed, victim, attempts, feeds>>
-----------------------------------------------------------------------------
(* attachAs, on the goroutine of attempt g. *)

\* The feed's ctx is done: its own cancel, or the session's.
CtxDone(g) == cancelled[g] \/ base

\* backend.Attach returns a feed, or an error.  It may do either even once
\* its ctx is done.
BackendReturns(g) ==
  /\ stage[g] = "spawning"
  /\ \/ /\ stage' = [stage EXCEPT ![g] = "feed"]
        /\ feed' = [feed EXCEPT ![g] = "open"]
     \/ /\ stage' = [stage EXCEPT ![g] = "error"]
        /\ UNCHANGED feed
  /\ UNCHANGED <<base, dispatch, bulkLifecycle, agents, dev, route, expired, cancelled, pump>>

\* Mutant of Watchdog: the deadline passes without cancelling the backend.
WatchdogMutant(g) ==
  /\ stage[g] \in {"spawning", "feed", "error"}
  /\ ~expired[g]
  /\ expired' = [expired EXCEPT ![g] = TRUE]
  /\ UNCHANGED <<base, dispatch, bulkLifecycle, agents, stage, dev, route, feeds>>

\* attachWithin's timer fires before the attempt is settled; Stop may come
\* too late, so it can still fire after the backend returned.
Watchdog(g) ==
  /\ stage[g] \in {"spawning", "feed", "error"}
  /\ ~expired[g]
  /\ expired' = [expired EXCEPT ![g] = TRUE]
  /\ cancelled' = [cancelled EXCEPT ![g] = TRUE]
  /\ UNCHANGED <<base, dispatch, bulkLifecycle, agents, stage, dev, route, feed, pump>>

\* attachWithin settles: an expired attempt fails, and a feed it got anyway
\* is closed.  A failed attempt cancels its ctx.
attachWithin(g) ==
  /\ stage[g] \in {"feed", "error"}
  /\ IF stage[g] = "feed" /\ ~expired[g]
       THEN /\ stage' = [stage EXCEPT ![g] = "install"]
            /\ UNCHANGED <<cancelled, feed>>
       ELSE /\ stage' = [stage EXCEPT ![g] = "fail"]
            /\ cancelled' = [cancelled EXCEPT ![g] = TRUE]
            /\ feed' = IF stage[g] = "feed" THEN Close(g, "dropped") ELSE feed
  /\ expired' = [expired EXCEPT ![g] = FALSE]
  /\ UNCHANGED <<base, dispatch, bulkLifecycle, agents, dev, route, pump>>

\* Mutant of attachAs: the feed is installed whoever claimed since.
attachAsMutant(g) ==
  /\ stage[g] = "install"
  /\ att' = g
  /\ pending' = NoDevice
  /\ stage' = [stage EXCEPT ![g] = "announce"]
  /\ pump' = [pump EXCEPT ![g] = "running"]
  /\ UNCHANGED <<base, gen, bulkLifecycle, agents, dev, route, expired, cancelled, feed>>

\* The locked section of attachAs: install the feed and start its pump,
\* unless a newer intent has claimed a generation since.
attachAs(g) ==
  /\ stage[g] = "install"
  /\ IF gen = g
       THEN /\ att' = g
            /\ pending' = NoDevice
            /\ stage' = [stage EXCEPT ![g] = "announce"]
            /\ pump' = [pump EXCEPT ![g] = "running"]
       ELSE /\ stage' = [stage EXCEPT ![g] = "drop"]
            /\ UNCHANGED <<att, pending, pump>>
  /\ UNCHANGED <<base, gen, bulkLifecycle, agents, dev, route, expired, cancelled, feed>>

\* Mutant of DropFeed: the superseded feed is not closed.
DropFeedMutant(g) ==
  /\ stage[g] = "drop"
  /\ stage' = [stage EXCEPT ![g] = "superseded"]
  /\ UNCHANGED <<base, dispatch, bulkLifecycle, agents, dev, route, expired, feeds>>

\* A superseded attempt releases its feed and says nothing.
DropFeed(g) ==
  /\ stage[g] = "drop"
  /\ stage' = [stage EXCEPT ![g] = "superseded"]
  /\ cancelled' = [cancelled EXCEPT ![g] = TRUE]
  /\ feed' = Close(g, "dropped")
  /\ UNCHANGED <<base, dispatch, bulkLifecycle, agents, dev, route, expired, pump>>

\* Mutant of failAttach: a failed attach leaves d.pending set.
failAttachMutant(g) ==
  /\ stage[g] = "fail"
  /\ stage' = [stage EXCEPT ![g] = IF gen = g THEN "report" ELSE "superseded"]
  /\ UNCHANGED <<base, dispatch, bulkLifecycle, agents, dev, route, expired, feeds>>

\* failAttach's locked section.
failAttach(g) ==
  /\ stage[g] = "fail"
  /\ IF gen = g
       THEN /\ pending' = NoDevice
            /\ stage' = [stage EXCEPT ![g] = "report"]
       ELSE /\ stage' = [stage EXCEPT ![g] = "superseded"]
            /\ UNCHANGED pending
  /\ UNCHANGED <<base, gen, att, bulkLifecycle, agents, dev, route, expired, feeds>>

\* The terminal reply, sent after the lock is released: "attached" or the
\* typed error.  A quality rebuild's route was fixed when it was spawned.
TerminalReply(g) ==
  /\ stage[g] \in {"announce", "report"}
  /\ stage' = [stage EXCEPT ![g] = IF @ = "announce" THEN "attached" ELSE "failed"]
  /\ Reply(route[g])
  /\ UNCHANGED <<base, dispatch, agents, dev, route, expired, feeds>>
-----------------------------------------------------------------------------
(* pump, on the goroutine of feed g. *)

\* Frames() ends, or the track refuses a frame; the pump cancels the ctx.  A
\* feed may die by itself at any time.
PumpStops(g) ==
  /\ pump[g] = "running"
  /\ pump' = [pump EXCEPT ![g] = "retiring"]
  /\ cancelled' = [cancelled EXCEPT ![g] = TRUE]
  /\ UNCHANGED <<base, dispatch, bulkLifecycle, agents, attempts, feed>>

\* Mutant of PumpRetires: the pump closes its feed without asking who else
\* took it.
PumpRetiresMutant(g) ==
  /\ pump[g] = "retiring"
  /\ att' = IF att = g THEN NoFeed ELSE att
  /\ pump' = [pump EXCEPT ![g] = "closing"]
  /\ UNCHANGED <<base, gen, pending, bulkLifecycle, agents, attempts, cancelled, feed>>

\* Mutant of PumpRetires: the client is told whoever took the feed down.
PumpRetiresMutantTells(g) ==
  /\ pump[g] = "retiring"
  /\ att' = IF att = g THEN NoFeed ELSE att
  /\ pump' = [pump EXCEPT ![g] = IF att = g THEN "closing" ELSE "ending"]
  /\ UNCHANGED <<base, gen, pending, bulkLifecycle, agents, attempts, cancelled, feed>>

\* The pump's locked section: still installed means nobody asked for this.
PumpRetires(g) ==
  /\ pump[g] = "retiring"
  /\ IF att = g
       THEN /\ att' = NoFeed
            /\ pump' = [pump EXCEPT ![g] = "closing"]
       ELSE /\ pump' = [pump EXCEPT ![g] = "quiet"]
            /\ UNCHANGED att
  /\ UNCHANGED <<base, gen, pending, bulkLifecycle, agents, attempts, cancelled, feed>>

\* Close the feed, and look whether a client is left to be told.
PumpCloses(g) ==
  /\ pump[g] = "closing"
  /\ feed' = Close(g, "died")
  /\ pump' = [pump EXCEPT ![g] = IF base THEN "quiet" ELSE "ending"]
  /\ UNCHANGED <<base, dispatch, bulkLifecycle, agents, attempts, cancelled>>

\* "stream_ended", on the route this client has shown it reads.
StreamEnded(g) ==
  /\ pump[g] = "ending"
  /\ pump' = [pump EXCEPT ![g] = IF bulkLifecycle THEN "told_bulk" ELSE "told_control"]
  /\ UNCHANGED <<base, dispatch, bulkLifecycle, agents, attempts, cancelled, feed>>
-----------------------------------------------------------------------------
Request(c) ==
  \/ "bad" \in Requests /\ BadRequest(c)
  \/ \E u \in Device :
       \/ "attach" \in Requests /\ doAttach(c, u)
       \/ "boot" \in Requests /\ doBoot(c, u)
       \/ \E o \in Requests \cap {"shutdown", "restart"} : PowerCheck(c, o, u)
  \/ "detach" \in Requests /\ doDetach(c)
  \/ "quality" \in Requests /\ c = "bulk" /\ restartAttachment

\* What a handler does once it has taken up a request, backend calls apart.
Continue(c) ==
  \/ stopAttachment(c)
  \/ Release(c)
  \/ AttachGo(c)
  \/ DetachReply(c)
  \/ c = "bulk" /\ doQuality
  \/ PowerGo(c)

Teardown(t) == EndSession(t) \/ stopAttachment(t) \/ Release(t)

AttachStep(g) ==
  \/ attachWithin(g)
  \/ attachAs(g)
  \/ DropFeed(g)
  \/ failAttach(g)
  \/ TerminalReply(g)

PumpStep(g) == PumpRetires(g) \/ PumpCloses(g) \/ StreamEnded(g)

Next ==
  \/ \E c \in Channel : Request(c) \/ Continue(c) \/ PowerOff(c) \/ PowerOn(c)
  \/ \E t \in Teardowns : Teardown(t)
  \/ \E g \in Gen : \/ BackendReturns(g) \/ Watchdog(g) \/ AttachStep(g)
                    \/ PumpStops(g) \/ PumpStep(g)

Spec == Init /\ [][Next]_vars

(***************************************************************************)
(* What the scheduler and the timers owe.  Goroutines that can run do; a   *)
(* timer that is armed fires; simctl calls return when the caller bounds   *)
(* them (restart's 60 s) or the session ends.  The backend owes an answer  *)
(* only once the feed's ctx is done, and a feed need never end by itself:  *)
(* nothing is assumed of requests, of the end of the session, or of a      *)
(* backend.Boot or Shutdown that has no deadline.                          *)
(***************************************************************************)
Fairness ==
  /\ \A c \in Channel :
       /\ WF_vars(Continue(c))
       /\ WF_vars((op[c] = "restart" \/ base) /\ (PowerOff(c) \/ PowerOn(c)))
  /\ \A t \in Teardowns : WF_vars(stopAttachment(t) \/ Release(t))
  /\ \A g \in Gen :
       /\ WF_vars(Watchdog(g))
       /\ WF_vars(CtxDone(g) /\ BackendReturns(g))
       /\ WF_vars(AttachStep(g))
       /\ WF_vars(CtxDone(g) /\ PumpStops(g))
       /\ WF_vars(PumpStep(g))

FairSpec == Spec /\ Fairness
-----------------------------------------------------------------------------
(* Safety. *)

\* The goroutine that must close feed g, if it is not installed: attachAs
\* before its locked section, the agent that took it, or its own pump.
HeldBy(g, a)   == victim[a] = g
HeldByAttach(g) == stage[g] \in {"feed", "install", "drop"}
HeldByPump(g)  == pump[g] = "closing"

\* No feed is lost: an open feed is d.att or in the hands of a goroutine that
\* has yet to close it.  attach.go:72-74 names the leak this excludes.
NoOrphanFeed ==
  \A g \in Gen : feed[g] = "open" =>
    att = g \/ HeldByAttach(g) \/ HeldByPump(g) \/ \E a \in Agent : HeldBy(g, a)

\* No feed is closed twice, whichever of claimAttach, attachAs, attachWithin
\* and pump gets to it (attach.go:218-223).
ClosedOnce == \A g \in Gen : feed[g] # "reclosed"

\* Attempt g is in flight for device u: its handler has claimed g and has yet
\* to spawn it, or attachAs has yet to install or fail it.
InFlight(g, u) ==
  \/ stage[g] \in Starting /\ dev[g] = u
  \/ \E c \in Channel : /\ pc[c] \in {"release", "after"}
                        /\ op[c] \in {"attach", "quality"}
                        /\ claimed[c] = g
                        /\ arg[c] = u

\* d.pending names a device exactly while the latest intent is an attach of
\* that device still in flight, and never while a feed is installed: neither
\* a failed attach nor a superseded one leaves it set (attach.go:160-168).
PendingExact ==
  /\ att # NoFeed => att = gen /\ pending = NoDevice
  /\ \A u \in Device : pending = u <=> \E g \in Gen : g = gen /\ InFlight(g, u)

\* While shutdown or restart is in backend.Shutdown or Boot for u, no attempt on
\* u from before the handler's claim (or its look, when it claimed nothing) is
\* the current attachment, or may yet become it, and no feed of theirs is still
\* open in the hands of the handler itself: what it took it has closed first.
\* A superseded attempt is not undone by then.  Its spawn may still be running
\* (NoSpawnIntoPowerOff), and another goroutine may still have to close a feed
\* of it (attach.go:254-274, rtcdispatch.go:246-252, 287-298).
PowerCycleClean ==
  \A c \in Channel : \A g \in Gen :
    ( /\ op[c] \in {"shutdown", "restart"}
      /\ pc[c] \in {"power", "boot"}
      /\ g =< claimed[c] )
    => /\ ~(g = gen /\ InFlight(g, arg[c]))
       /\ dev[g] = arg[c] =>
            /\ att # g
            /\ feed[g] = "open" => \/ HeldByAttach(g) \/ HeldByPump(g)
                                  \/ \E a \in Agent \ {c} : HeldBy(g, a)

\* "stream_ended" is sent only for a feed that died by itself, never for one
\* that detach, attach, quality, shutdown, restart or the session's end took
\* down (attach.go:191-198).
StreamEndedUnasked ==
  \A g \in Gen : pump[g] \in Told \cup {"ending"} => feed[g] = "died"

\* A client that asked for a feed on "bulk" reads its end there: the event is
\* never sent on "control" for it (rtcdispatch.go:332-335).
EventOnRequestRoute ==
  \A g \in Gen : pump[g] = "told_control" => route[g] = "control"
-----------------------------------------------------------------------------
(* Liveness, under FairSpec. *)

\* Every accepted attach is answered with "attached" or an error, or a newer
\* intent has superseded it, whatever the backend does (attach.go:12-15).
AttachAnswered ==
  \A g \in Gen : stage[g] = "spawning" ~> stage[g] \in {"attached", "failed"} \/ gen # g

\* A feed that is superseded, or whose session is over, is eventually closed
\* (attach.go:72-74, remote.go:278-282).
FeedsReaped ==
  \A g \in Gen : (feed[g] = "open" /\ (base \/ gen # g)) ~> feed[g] # "open"
-----------------------------------------------------------------------------
(* What the comments say and the code does not keep. *)

\* rtcdispatch.go: shutdown leaves a feed of some other simulator untouched.
ShutdownSparesOthers ==
  [][\A c \in Channel : (pc[c] = "stop" /\ pc'[c] # "stop")
       => /\ att # NoFeed => dev[att] = arg[c]
          /\ pending \in {NoDevice, arg[c]}]_vars

\* attach.go, rtcdispatch.go: an attach of u that was still spawning when a
\* shutdown or restart of u stopped it does not go on spawning while the
\* simulator powers off.
NoSpawnIntoPowerOff ==
  \A c \in Channel : \A g \in Gen :
    ( /\ op[c] \in {"shutdown", "restart"}
      /\ pc[c] = "power"
      /\ g =< claimed[c]
      /\ dev[g] = arg[c] )
    => stage[g] # "spawning"
-----------------------------------------------------------------------------
(***************************************************************************)
(* The inductive invariant behind the safety properties.                   *)
(***************************************************************************)

\* Agent c has claimed a generation for an attach it has yet to spawn.
Claiming(c) == pc[c] \in {"release", "after"} /\ op[c] \in {"attach", "quality"}

\* Program counters fit the requests being handled.
AgentInv ==
  /\ \A a \in Agent :
       /\ pc[a] = "release" <=> victim[a] # NoFeed
       /\ pc[a] \in {"stop", "power"} => op[a] \in {"shutdown", "restart", "teardown"}
       /\ op[a] \in {"attach", "quality"} => arg[a] \in Device
  /\ \A c \in Channel : op[c] # "teardown"
  /\ \A t \in Teardowns : op[t] \in {"none", "teardown"}

\* Generations: attempts exist only up to gen, and a generation claimed for
\* an attach belongs to one handler until it is spawned.
GenInv ==
  /\ \A a \in Agent : claimed[a] =< gen
  /\ \A g \in Gen : stage[g] # "none" => g =< gen /\ dev[g] \in Device
  /\ \A c \in Channel : Claiming(c) => claimed[c] \in Gen /\ stage[claimed[c]] = "none"
  /\ \A c, d \in Channel : Claiming(c) /\ Claiming(d) /\ claimed[c] = claimed[d] => c = d

\* What the stage of an attempt says of its feed and its pump.
StageInv ==
  \A g \in Gen :
    /\ stage[g] \in {"none", "spawning", "error"} => feed[g] = "none" /\ pump[g] = "off"
    /\ HeldByAttach(g) => feed[g] = "open" /\ pump[g] = "off"
    /\ stage[g] \in {"fail", "report", "failed", "superseded"}
         => feed[g] \in {"none", "dropped"} /\ pump[g] = "off"
    /\ stage[g] \in {"announce", "attached"}
         => feed[g] \in {"open", "taken", "died"} /\ pump[g] # "off"

\* An open feed has exactly one owner, and the owner knows it is open.
OwnerInv ==
  /\ att # NoFeed => /\ feed[att] = "open"
                     /\ pump[att] \in {"running", "retiring"}
  /\ \A a \in Agent : victim[a] # NoFeed =>
       /\ feed[victim[a]] = "open"
       /\ pump[victim[a]] \in {"running", "retiring", "quiet"}
       /\ victim[a] # att
  /\ \A a, b \in Agent : victim[a] = victim[b] /\ victim[a] # NoFeed => a = b
  /\ \A g \in Gen :
       /\ HeldByPump(g) => feed[g] = "open"
       /\ pump[g] \in Told \cup {"ending"} => feed[g] = "died"

\* What of PowerCycleClean holds from the claim on: nothing from before is or
\* will be current.
PowerInv ==
  \A c \in Channel : \A g \in Gen :
    ( /\ op[c] \in {"shutdown", "restart"}
      /\ pc[c] \in {"release", "after", "power", "boot"}
      /\ g = gen
      /\ (att = g /\ dev[g] = arg[c]) \/ InFlight(g, arg[c]) )
    => g > claimed[c]

\* A feed asked for on "bulk" was acknowledged there first.
RouteInv ==
  \A g \in Gen :
    /\ route[g] = "bulk" => bulkLifecycle
    /\ pump[g] = "told_control" => route[g] = "control"

IInv ==
  /\ TypeOK
  /\ AgentInv
  /\ GenInv
  /\ StageInv
  /\ OwnerInv
  /\ NoOrphanFeed
  /\ PendingExact
  /\ PowerInv
  /\ RouteInv
=============================================================================
