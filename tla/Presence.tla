------------------------------ MODULE Presence ------------------------------
(***************************************************************************)
(* Presence at the signalling broker: the slot of one daemonID in          *)
(* b.daemons and what the watchers of that id are told                     *)
(* (internal/signalbroker/presence.go, and serveDaemon in broker.go).      *)
(*                                                                         *)
(* Every WebSocket has a goroutine: serveDaemon for each registration of   *)
(* the daemon, serveWatcher for each watcher.  b.mu guards the slot and    *)
(* the set of watchers and is never held over a write; each write to a     *)
(* watcher is a step of its own, so the deltas of two registrations race.  *)
(* A write may fail, or pass its deadline; the broker ignores that and the *)
(* watcher stays in b.watchers, but its WebSocket takes no further write.  *)
(* Daemons do not share state, so one id stands for all of them.           *)
(***************************************************************************)
EXTENDS Naturals

CONSTANTS
  Watcher,    \* watch connections that track the daemonID
  MaxReg,     \* bound: how often the daemon registers
  Overlap     \* whether the daemon may register again while the goroutine of
              \* an earlier connection is still telling the watchers

ASSUME PresenceAssumption ==
  /\ MaxReg \in Nat
  /\ Overlap \in BOOLEAN

Reg    == 1..MaxReg
NoSlot == 0

VARIABLES
  daemons,    \* b.daemons[id], as the number of the registration
  watchers,   \* b.watchers
  reg,        \* per registration: where its serveDaemon is
  targets,    \* per registration: the watchers notifyPresence has yet to write to
  watch,      \* per watcher: where its serveWatcher is
  snap,       \* per watcher: the snapshot it was given
  broken,     \* the watchers a write to whose socket has failed
  view        \* per watcher: the last state written to its socket

presenceVars == <<daemons, watchers, reg, targets, watch, snap, broken, view>>

State == {"unknown", "online", "offline"}

\* notifyPresence is under way for this registration.
Telling == {"notify_online", "online", "notify_offline", "offline"}

\* Every variable has its type.
PresenceTypeOK ==
  /\ daemons \in Reg \cup {NoSlot}
  /\ watchers \in SUBSET Watcher
  /\ reg \in [Reg -> {"new", "up", "gone"} \cup Telling]
  /\ targets \in [Reg -> SUBSET Watcher]
  /\ watch \in [Watcher -> {"new", "snapshot", "live", "gone"}]
  /\ snap \in [Watcher -> State]
  /\ broken \in SUBSET Watcher
  /\ view \in [Watcher -> State]

PresenceInit ==
  /\ daemons = NoSlot
  /\ watchers = {}
  /\ reg = [d \in Reg |-> "new"]
  /\ targets = [d \in Reg |-> {}]
  /\ watch = [w \in Watcher |-> "new"]
  /\ snap = [w \in Watcher |-> "unknown"]
  /\ broken = {}
  /\ view = [w \in Watcher |-> "unknown"]

\* What b.daemons says of the daemon.
Registered == IF daemons # NoSlot THEN "online" ELSE "offline"
-----------------------------------------------------------------------------
(* serveDaemon. *)

\* The daemon (re-)registers: the new connection overwrites the slot.  It
\* dials again only after its earlier connection failed, which the broker may
\* not have noticed.
Register(d) ==
  /\ reg[d] = "new"
  /\ \A e \in Reg : e < d => reg[e] # "new" /\ (Overlap \/ reg[e] \notin Telling)
  /\ daemons' = d
  /\ reg' = [reg EXCEPT ![d] = "notify_online"]
  /\ UNCHANGED <<watchers, targets, watch, snap, broken, view>>

\* notifyPresence collects its targets under b.mu ...
notifyPresence(d) ==
  /\ reg[d] \in {"notify_online", "notify_offline"}
  /\ targets' = [targets EXCEPT ![d] = watchers]
  /\ reg' = [reg EXCEPT ![d] = IF @ = "notify_online" THEN "online" ELSE "offline"]
  /\ UNCHANGED <<daemons, watchers, watch, snap, broken, view>>

\* A write to a watcher's socket, successful or not.
Write(w, s) ==
  \/ w \notin broken /\ view' = [view EXCEPT ![w] = s] /\ UNCHANGED broken
  \/ broken' = broken \cup {w} /\ UNCHANGED view

\* ... and writes to them one by one.  A write waits for the conn's write
\* lock, which the snapshot holds; one to a watcher that left is lost.
sendPresence(d, w) ==
  /\ reg[d] \in {"online", "offline"}
  /\ w \in targets[d]
  /\ watch[w] # "snapshot"
  /\ IF watch[w] = "live" THEN Write(w, reg[d]) ELSE UNCHANGED <<broken, view>>
  /\ targets' = [targets EXCEPT ![d] = @ \ {w}]
  /\ UNCHANGED <<daemons, watchers, reg, watch, snap>>

\* notifyPresence returns: to the read loop, or out of the deferred function.
Told(d) ==
  /\ reg[d] \in {"online", "offline"}
  /\ targets[d] = {}
  /\ reg' = [reg EXCEPT ![d] = IF @ = "online" THEN "up" ELSE "gone"]
  /\ UNCHANGED <<daemons, watchers, targets, watch, snap, broken, view>>

\* Mutant of Drop: the slot is cleared whoever holds it.
DropMutant(d) ==
  /\ reg[d] = "up"
  /\ daemons' = NoSlot
  /\ reg' = [reg EXCEPT ![d] = IF daemons = d THEN "notify_offline" ELSE "gone"]
  /\ UNCHANGED <<watchers, targets, watch, snap, broken, view>>

\* The read loop ends, by a close or a missed pong: the slot is cleared and
\* the watchers told, unless a re-register took it.
Drop(d) ==
  /\ reg[d] = "up"
  /\ IF daemons = d
       THEN /\ daemons' = NoSlot
            /\ reg' = [reg EXCEPT ![d] = "notify_offline"]
       ELSE /\ reg' = [reg EXCEPT ![d] = "gone"]
            /\ UNCHANGED daemons
  /\ UNCHANGED <<watchers, targets, watch, snap, broken, view>>
-----------------------------------------------------------------------------
(* serveWatcher. *)

\* Mutant of serveWatcher: the snapshot is computed before the watcher is
\* added to b.watchers, which Snapshot would then do.
serveWatcherMutant(w) ==
  /\ watch[w] = "new"
  /\ snap' = [snap EXCEPT ![w] = Registered]
  /\ watch' = [watch EXCEPT ![w] = "snapshot"]
  /\ UNCHANGED <<daemons, watchers, reg, targets, broken, view>>

\* The watcher is added, its snapshot computed and its write lock taken, all
\* under b.mu ...
serveWatcher(w) ==
  /\ watch[w] = "new"
  /\ watchers' = watchers \cup {w}
  /\ snap' = [snap EXCEPT ![w] = Registered]
  /\ watch' = [watch EXCEPT ![w] = "snapshot"]
  /\ UNCHANGED <<daemons, reg, targets, broken, view>>

\* ... and the snapshot is written after b.mu is released.
Snapshot(w) ==
  /\ watch[w] = "snapshot"
  /\ Write(w, snap[w])
  /\ watch' = [watch EXCEPT ![w] = "live"]
  /\ UNCHANGED <<daemons, watchers, reg, targets, snap>>

\* The read loop ends: the watcher's socket closed, or no pong came in time.
Leave(w) ==
  /\ watch[w] = "live"
  /\ watchers' = watchers \ {w}
  /\ watch' = [watch EXCEPT ![w] = "gone"]
  /\ UNCHANGED <<daemons, reg, targets, snap, broken, view>>
-----------------------------------------------------------------------------
\* The steps a goroutine takes by itself.
Tell(d) == notifyPresence(d) \/ (\E w \in Watcher : sendPresence(d, w)) \/ Told(d)

PresenceNext ==
  \/ \E d \in Reg : Register(d) \/ Tell(d) \/ Drop(d)
  \/ \E w \in Watcher : serveWatcher(w) \/ Snapshot(w) \/ Leave(w)

PresenceSpec == PresenceInit /\ [][PresenceNext]_presenceVars

\* Writes to a watcher are bounded by a deadline, so every goroutine that is
\* telling or writing a snapshot gets on with it.  Once a write has failed the
\* pings fail too, so no pong extends the read deadline and the read loop ends
\* (presence.go:131-160).  Nothing else is assumed of the watchers, and nothing
\* of the daemon or of the network.
PresenceFairness ==
  /\ \A d \in Reg : WF_presenceVars(Tell(d))
  /\ \A w \in Watcher : WF_presenceVars(Snapshot(w)) /\ WF_presenceVars(w \in broken /\ Leave(w))
-----------------------------------------------------------------------------
\* Nothing is on its way to watcher w.
Quiet(w) ==
  \A d \in Reg : /\ reg[d] \notin {"notify_online", "notify_offline"}
                 /\ w \notin targets[d]

\* Once nothing is on its way to it, the last word of a watcher whose socket
\* takes writes is what b.daemons says: no delta is lost to a watcher that was
\* registering, and no snapshot or delta overwrites a newer one
\* (presence.go:54-60, broker.go:195).
ViewSettles ==
  \A w \in Watcher : watch[w] = "live" /\ w \notin broken /\ Quiet(w) => view[w] = Registered

\* A watcher is eventually told the truth, or the daemon comes or goes again, or
\* its connection ends, which it does when a write to it has failed
\* (presence.go:57, "the dot would stay stale forever").
DotConverges ==
  \A w \in Watcher : \A s \in {"online", "offline"} :
    (watch[w] \in {"snapshot", "live"} /\ Registered = s)
      ~> (watch[w] = "gone" \/ view[w] = s \/ Registered # s)
-----------------------------------------------------------------------------
(***************************************************************************)
(* The inductive invariant behind ViewSettles when registrations do not    *)
(* overlap.                                                                *)
(***************************************************************************)

\* Registrations happen one after the other.
OrderInv == \A d, e \in Reg : d < e /\ reg[d] = "new" => reg[e] = "new"

\* The registration that is telling the watchers tells them what the slot
\* says, and only targets it has collected.
SlotInv ==
  /\ daemons # NoSlot => reg[daemons] \in {"notify_online", "online", "up"}
  /\ \A d \in Reg :
       /\ reg[d] \in {"notify_online", "online"} => daemons = d
       /\ reg[d] \in {"notify_offline", "offline"} => daemons = NoSlot
       /\ targets[d] # {} => reg[d] \in {"online", "offline"}
       /\ targets[d] \subseteq {w \in Watcher : watch[w] # "new"}

\* b.watchers is the watchers that are there.
WatchersInv == \A w \in Watcher : w \in watchers <=> watch[w] \in {"snapshot", "live"}

\* What watcher w was told last, or is about to be told by its snapshot.
LastWord(w) == IF watch[w] = "snapshot" THEN snap[w] ELSE view[w]

\* A watcher that is there has heard what the slot says, or will, or its socket
\* is broken.
HeardInv ==
  \A w \in Watcher :
    watch[w] \in {"snapshot", "live"} => LastWord(w) = Registered \/ ~Quiet(w) \/ w \in broken

IInv ==
  /\ PresenceTypeOK
  /\ OrderInv
  /\ SlotInv
  /\ WatchersInv
  /\ HeardInv
=============================================================================
