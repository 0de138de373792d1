------------------------------ MODULE Pairing ------------------------------
(***************************************************************************)
(* How a client's key comes to be pinned: the one-time enrollment window   *)
(* (internal/server/pairing_window.go), the pinned store in memory and on  *)
(* disk (pinned.go), the authentication gate of serveOnce (remote.go), and *)
(* the three ways a user drives them: the P and C keys of `simbeamd serve` *)
(* with the on-screen code and its timer (cmd/simbeamd/main.go), the       *)
(* sibling process `simbeamd pair` over the local control API              *)
(* (pairctl.go), and the sibling process `simbeamd unpair`.                *)
(*                                                                         *)
(* A pairing secret is the number of the arming that generated it.  Each   *)
(* call that takes the window's, the screen block's or the store's mutex   *)
(* is one action, so another goroutine may run between two such calls.     *)
(***************************************************************************)
EXTENDS Naturals, FiniteSets

CONSTANTS
  Key,        \* client public keys
  NoKey,      \* the empty key
  TTL,        \* how long an armed code lives
  MaxTime,    \* bound: the clock stops here
  MaxArm,     \* bound: how many codes are generated
  Faults      \* which of "save" (a save fails), "unpair", "crash" may happen

ASSUME PairingAssumption ==
  /\ NoKey \notin Key
  /\ TTL \in Nat \ {0}
  /\ MaxTime \in Nat
  /\ MaxArm \in Nat

Time   == 0..MaxTime
Secret == 1..MaxArm
None   == 0                      \* the empty secret

VARIABLES
  now,                                      \* the wall clock
  secret, armed, expires, consumed, cancelled,   \* pairingWindow
  arms,                                     \* codes generated so far
  keys,                                     \* watchKeys: "idle", onPair between Open and show, or
                                            \* onCancel between Close and retire
  timer, fired, active,                     \* pairUI: TTL deadline, a callback that Stop
                                            \* can no longer stop, block on screen
  cli, lastClient,                          \* `simbeamd pair`, and what the control API knows
  mem, disk,                                \* PinnedStore: the map, and clients.json
  unpair, loaded,                           \* `simbeamd unpair`: its step and what it read
  authPub, enrolling, authed, via,          \* serveOnce's gate; via is the code it accepted
  onEnroll,                                 \* what is left of the onEnroll callback
  enrolledBy,                               \* history: the keys each code let in
  spoiled                                   \* history: keys whose save failed, or that left the file

window  == <<secret, armed, expires, consumed, cancelled>>
ui      == <<keys, timer, fired, active>>
control == <<cli, lastClient>>
store   == <<mem, disk>>
revoke  == <<unpair, loaded>>
gate    == <<authPub, enrolling, authed, via, onEnroll>>
history == <<enrolledBy, spoiled>>
vars    == <<now, window, arms, ui, control, store, revoke, gate, history>>

NoTimer == MaxTime + TTL + 1

FlagsOK ==
  /\ armed \in BOOLEAN /\ consumed \in BOOLEAN /\ cancelled \in BOOLEAN
  /\ active \in BOOLEAN
  /\ enrolling \in BOOLEAN /\ authed \in BOOLEAN

\* Every variable has its type.
TypeOK ==
  /\ FlagsOK
  /\ now \in Time
  /\ secret \in Secret \cup {None} /\ expires \in Nat
  /\ arms \in 0..MaxArm
  /\ keys \in {"idle", "show", "retire"}
  /\ timer \in Nat /\ fired \in {"no", "close", "retire"}
  /\ cli \in {"off", "waiting", "paired", "expired"}
  /\ lastClient \in Key \cup {NoKey}
  /\ mem \in SUBSET Key /\ disk \in SUBSET Key
  /\ unpair \in Key \cup {NoKey} /\ loaded \in SUBSET Key
  /\ authPub \in Key \cup {NoKey}
  /\ via \in Secret \cup {None}
  /\ onEnroll \in {"done", "retire", "note"}
  /\ enrolledBy \in [Secret -> SUBSET Key] /\ spoiled \in SUBSET Key

Init ==
  /\ now = 0
  /\ secret = None /\ armed = FALSE /\ expires = 0 /\ consumed = FALSE /\ cancelled = FALSE
  /\ arms = 0
  /\ keys = "idle" /\ timer = NoTimer /\ fired = "no" /\ active = FALSE
  /\ cli = "off" /\ lastClient = NoKey
  /\ mem = {} /\ disk = {}
  /\ unpair = NoKey /\ loaded = {}
  /\ authPub = NoKey /\ enrolling = FALSE /\ authed = FALSE /\ via = None
  /\ onEnroll = "done"
  /\ enrolledBy = [s \in Secret |-> {}] /\ spoiled = {}
-----------------------------------------------------------------------------
(* pairingWindow. *)

\* open, with a freshly generated secret.
Open ==
  /\ arms < MaxArm
  /\ arms' = arms + 1
  /\ secret' = arms + 1
  /\ armed' = TRUE
  /\ expires' = now + TTL
  /\ consumed' = FALSE
  /\ cancelled' = FALSE

Close ==
  /\ secret' = None
  /\ cancelled' = TRUE
  /\ UNCHANGED <<armed, expires, consumed>>

\* The phase the control API reports.
State ==
  CASE consumed                      -> "consumed"
    [] ~consumed /\ ~armed           -> "none"
    [] ~consumed /\ armed /\ (cancelled \/ now > expires) -> "expired"
    [] OTHER                         -> "open"

\* Mutant of Accepts: the proof is not compared with the secret.
AcceptsMutant(s) == State = "open"

\* verify accepts a proof made with code s.
Accepts(s) == State = "open" /\ s = secret
-----------------------------------------------------------------------------
(* `simbeamd serve` on a terminal: watchKeys, onPair, onCancel, pairUI. *)

\* P: a new code arms the window ...
onPair ==
  /\ keys = "idle"
  /\ Open
  /\ keys' = "show"
  /\ UNCHANGED <<now, timer, fired, active, control, store, revoke, gate, history>>

\* ... and only then does show stop the previous timer and start its own.
show ==
  /\ keys = "show"
  /\ keys' = "idle"
  /\ active' = TRUE
  /\ timer' = now + TTL
  /\ UNCHANGED <<now, window, arms, fired, control, store, revoke, gate, history>>

\* Mutant of retire: the timer is stopped and the block left active.
retireMutant ==
  /\ active' = active
  /\ timer' = NoTimer

\* retire greys the block out and stops the timer, once.
retire ==
  /\ active' = FALSE
  /\ timer' = IF active THEN NoTimer ELSE timer

\* The timer's callback has started; Stop cannot call it back.
TimerFires ==
  /\ timer =< now
  /\ fired = "no"
  /\ timer' = NoTimer
  /\ fired' = "close"
  /\ UNCHANGED <<now, window, arms, keys, active, control, store, revoke, gate, history>>

\* The callback closes whatever window is armed, then retires the block.
onExpire ==
  \/ /\ fired = "close"
     /\ Close
     /\ fired' = "retire"
     /\ UNCHANGED <<timer, active>>
  \/ /\ fired = "retire"
     /\ retire
     /\ fired' = "no"
     /\ UNCHANGED window

ExpireStep ==
  /\ onExpire
  /\ UNCHANGED <<now, arms, keys, control, store, revoke, gate, history>>

\* C: close the window, then retire the block.
onCancel ==
  \/ /\ keys = "idle"
     /\ Close
     /\ keys' = "retire"
     /\ UNCHANGED <<timer, active>>
  \/ /\ keys = "retire"
     /\ retire
     /\ keys' = "idle"
     /\ UNCHANGED window

CancelStep ==
  /\ onCancel
  /\ UNCHANGED <<now, arms, fired, control, store, revoke, gate, history>>
-----------------------------------------------------------------------------
(* `simbeamd pair`: POST /pair, then GET /pair once a second. *)

PostPair ==
  /\ cli # "waiting"
  /\ Open
  /\ cli' = "waiting"
  /\ UNCHANGED <<now, lastClient, ui, store, revoke, gate, history>>

\* Mutant of GetPair: the window's phase is taken for the command's outcome.
GetPairMutant ==
  /\ cli = "waiting"
  /\ State # "open"
  /\ cli' = State
  /\ UNCHANGED <<now, window, arms, ui, lastClient, store, revoke, gate, history>>

GetPair ==
  /\ cli = "waiting"
  /\ State # "open"
  /\ cli' = IF State = "consumed" THEN "paired" ELSE "expired"
  /\ UNCHANGED <<now, window, arms, ui, lastClient, store, revoke, gate, history>>
-----------------------------------------------------------------------------
(* serveOnce: connect, challenge, proof. *)

\* serveOnce reads the next message; it never does inside onEnroll.
Ready == onEnroll = "done"

cleanup ==
  /\ authPub' = NoKey
  /\ enrolling' = FALSE
  /\ authed' = FALSE
  /\ via' = None

\* Mutant of Connect: an accepted proof leaves the window as it was.
ConnectMutant(k, s) ==
  /\ Ready
  /\ k \in mem \/ Accepts(s)
  /\ authPub' = k /\ enrolling' = (k \notin mem) /\ authed' = FALSE
  /\ via' = IF k \in mem THEN None ELSE s
  /\ UNCHANGED <<now, window, arms, ui, control, store, revoke, onEnroll, history>>

\* A client with key k joins, with a proof made from code s, or none.  A
\* pinned key is challenged; an accepted proof consumes the window and is
\* challenged; anything else is refused.
Connect(k, s) ==
  /\ Ready
  /\ \/ /\ k \in mem
        /\ authPub' = k /\ enrolling' = FALSE /\ authed' = FALSE /\ via' = None
        /\ UNCHANGED window
     \/ /\ k \notin mem
        /\ Accepts(s)
        /\ consumed' = TRUE
        /\ secret' = None
        /\ authPub' = k /\ enrolling' = TRUE /\ authed' = FALSE /\ via' = s
        /\ UNCHANGED <<armed, expires, cancelled>>
     \/ /\ k \notin mem
        /\ ~Accepts(s)
        /\ cleanup
        /\ UNCHANGED window
  /\ UNCHANGED <<now, arms, ui, control, store, revoke, onEnroll, history>>

\* The challenge is not answered with the key's signature.
BadProof ==
  /\ Ready
  /\ authPub # NoKey
  /\ cleanup
  /\ UNCHANGED <<now, window, arms, ui, control, store, revoke, onEnroll, history>>

\* Mutant of Add: the file is written before the map has the new key.
AddMutant(k, saved) ==
  /\ mem' = mem \cup {k}
  /\ disk' = IF saved THEN mem ELSE disk
  /\ enrolledBy' = [enrolledBy EXCEPT ![via] = @ \cup {k}]
  /\ spoiled' = IF saved THEN spoiled ELSE spoiled \cup {k}

\* PinnedStore.Add: the map first, then the file.  The file is replaced by a
\* rename, so a save that fails leaves the old one.
Add(k, saved) ==
  /\ mem' = mem \cup {k}
  /\ disk' = IF saved THEN mem \cup {k} ELSE disk
  /\ enrolledBy' = [enrolledBy EXCEPT ![via] = @ \cup {k}]
  /\ spoiled' = IF saved THEN spoiled ELSE spoiled \cup {k}

\* The challenge is answered.  An enrolling key is pinned before it is
\* authenticated; a save that fails drops the client.
Proof ==
  /\ Ready
  /\ authPub # NoKey
  /\ \/ /\ ~enrolling
        /\ authed' = TRUE
        /\ UNCHANGED <<store, authPub, enrolling, via, onEnroll, history>>
     \/ /\ enrolling
        /\ Add(authPub, TRUE)
        /\ onEnroll' = "retire"
        /\ UNCHANGED <<authPub, enrolling, authed, via>>
     \/ /\ enrolling
        /\ "save" \in Faults
        /\ Add(authPub, FALSE)
        /\ cleanup
        /\ UNCHANGED onEnroll
  /\ UNCHANGED <<now, window, arms, ui, control, revoke>>

\* onEnroll: retire the block on screen, then tell the control API who it was;
\* only then is the client authenticated.
Enrolled ==
  /\ \/ /\ onEnroll = "retire"
        /\ retire
        /\ onEnroll' = "note"
        /\ UNCHANGED <<lastClient, authed>>
     \/ /\ onEnroll = "note"
        /\ lastClient' = authPub
        /\ authed' = TRUE
        /\ onEnroll' = "done"
        /\ UNCHANGED <<timer, active>>
  /\ UNCHANGED <<now, window, arms, keys, fired, cli, store, revoke,
                 authPub, enrolling, via, history>>

\* The client leaves, or the broker connection drops.
PeerLeft ==
  /\ Ready
  /\ authPub # NoKey
  /\ cleanup
  /\ UNCHANGED <<now, window, arms, ui, control, store, revoke, onEnroll, history>>
-----------------------------------------------------------------------------
(* `simbeamd unpair k`: another process, with a store of its own. *)

UnpairLoad(k) ==
  /\ "unpair" \in Faults
  /\ unpair = NoKey
  /\ k \in disk
  /\ unpair' = k
  /\ loaded' = disk
  /\ UNCHANGED <<now, window, arms, ui, control, store, gate, history>>

UnpairSave ==
  /\ unpair # NoKey
  /\ disk' = loaded \ {unpair}
  /\ unpair' = NoKey
  /\ loaded' = {}
  /\ spoiled' = spoiled \cup (disk \ disk')
  /\ UNCHANGED <<now, window, arms, ui, control, mem, gate, enrolledBy>>

\* The daemon dies and starts again: the file is all that is left of the
\* store, and no window is armed.
Restart ==
  /\ "crash" \in Faults
  /\ mem' = disk
  /\ secret' = None /\ armed' = FALSE /\ expires' = 0 /\ consumed' = FALSE /\ cancelled' = FALSE
  /\ keys' = "idle" /\ timer' = NoTimer /\ fired' = "no" /\ active' = FALSE
  /\ lastClient' = NoKey
  /\ cli' = IF cli = "waiting" THEN "off" ELSE cli
  /\ cleanup
  /\ onEnroll' = "done"
  /\ UNCHANGED <<now, arms, disk, revoke, history>>

Tick ==
  /\ now < MaxTime
  /\ now' = now + 1
  /\ UNCHANGED <<window, arms, ui, control, store, revoke, gate, history>>

Next ==
  \/ onPair \/ show \/ CancelStep \/ TimerFires \/ ExpireStep
  \/ PostPair \/ GetPair
  \/ \E k \in Key, s \in Secret \cup {None} : Connect(k, s)
  \/ BadProof \/ Proof \/ Enrolled \/ PeerLeft
  \/ \E k \in Key : UnpairLoad(k)
  \/ UnpairSave \/ Restart \/ Tick

Spec == Init /\ [][Next]_vars
-----------------------------------------------------------------------------
(* Safety. *)

\* A code lets in at most one key, however joins, replays, re-arming, the
\* timer and restarts interleave (pairing_window.go:23-27, 47-49).
OneKeyPerCode ==
  \A s \in Secret : \A k, l \in enrolledBy[s] : k = l

\* No key is pinned, in memory or on disk, that no code ever let in: neither a
\* save, an unpair by a sibling process nor a restart makes one up.
PinnedByCode == mem \cup disk \cup loaded \subseteq UNION {enrolledBy[s] : s \in Secret}

\* A block on screen always has a timer, or its callback, on the way to retire
\* it (main.go:552-571).
BlockHasTimer == active => timer # NoTimer \/ fired # "no"

\* A client past the gate, which the hello tells "paired", is on disk and so
\* survives a restart (remote.go:250-253).
HelloNeverLies == authed => authPub \in disk

\* Whatever crashes, fails or is unpaired meanwhile, only two things can come
\* between a client past the gate and the file: its own save failed, or
\* another process took it off (pinned.go:63-109).
HelloDurable == authed => authPub \in disk \cup spoiled
-----------------------------------------------------------------------------
(***************************************************************************)
(* The inductive invariant behind OneKeyPerCode and PinnedByCode.          *)
(***************************************************************************)

\* The key being enrolled came with a code, and a key without one is not.
GateInv ==
  /\ enrolling <=> via # None
  /\ enrolling => authPub \in Key
  /\ onEnroll # "done" => enrolling

\* An open window has a code, and a code exists once it was generated; the
\* armed one has let nobody in and nobody holds it; a code somebody holds has
\* let in nobody else.
CodeInv ==
  /\ armed /\ ~consumed /\ ~cancelled => secret # None
  /\ secret =< arms
  /\ via =< arms
  /\ \A s \in Secret : arms < s => enrolledBy[s] = {}
  /\ secret # None => enrolledBy[secret] = {} /\ via # secret
  /\ enrolling => enrolledBy[via] \subseteq {authPub}

IInv ==
  /\ TypeOK
  /\ GateInv
  /\ CodeInv
  /\ OneKeyPerCode
  /\ PinnedByCode
  /\ BlockHasTimer

\* What HelloDurable rests on.
StoreInv ==
  /\ mem \subseteq disk \cup spoiled
  /\ authed \/ onEnroll # "done" => authPub \in mem
  /\ authPub \in Key /\ ~enrolling => authPub \in mem

\* Where saves succeed and nobody unpairs, no key is spoiled.
DurableInv == unpair = NoKey /\ spoiled = {}
=============================================================================
