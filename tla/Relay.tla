------------------------------- MODULE Relay -------------------------------
(***************************************************************************)
(* The signalling handshake of one daemon: serveClient and serveDaemon at  *)
(* the broker (internal/signalbroker/broker.go), composed with the daemon  *)
(* end of the same WebSocket, the message loop of serveOnce                *)
(* (internal/server/remote.go).                                            *)
(*                                                                         *)
(* Each join has a goroutine, serveClient, and the daemon's connection has *)
(* one, serveDaemon; d.mu guards d.client and is never held over a write.  *)
(* The two directions of the daemon's WebSocket are FIFO queues.  Clients  *)
(* follow the protocol: proof after challenge, offer after iceServers.     *)
(* A challenge's nonce is named by the join it was made for.  ICE servers, *)
(* candidates and enrollment proofs are left out: Pairing has the gate.    *)
(***************************************************************************)
EXTENDS Naturals, Sequences

CONSTANTS
  Client,     \* bound: the joins, each a connection of its own
  NoClient,
  Key,        \* client public keys
  Keys,       \* the ways the joins may share them out
  Pinned,     \* the keys the daemon has pinned
  Displace,   \* which of "takeover" and "rejoin" (of the same key) clients use
  Drops       \* whether the daemon's connection may drop

ASSUME RelayAssumption ==
  /\ NoClient \notin Client
  /\ Keys \subseteq [Client -> Key]
  /\ Pinned \subseteq Key
  /\ Drops \in BOOLEAN

VARIABLES
  present,              \* b.daemons has the daemon
  serve,                \* serveDaemon: "read", "deliver", "leaving", "gone"
  got, cl,              \* serveDaemon: the message read, and d.client as it was then
  client,               \* d.client
  pc,                   \* per join: where serveClient is
  key, takeover,        \* per join: its key, and whether it takes over
  old,                  \* per join: the client it displaced
  hold,                 \* per join: the message it relays once d.client was checked
  sock,                 \* per join: its socket is open
  phase,                \* per join: how far the client is in the protocol
  nonce,                \* per join: the nonce of the challenge it was sent
  told,                 \* per join: what else it was sent
  toDaemon, toBroker,   \* the daemon's WebSocket
  authPub, authed,      \* serveOnce: the join being authenticated, and whether it was
  sess                  \* serveOnce: the join whose offer the live session answers

daemon == <<authPub, authed, sess>>
reader == <<present, serve, got, cl>>
joins  == <<pc, key, takeover, old, hold>>
ends   == <<sock, phase, nonce, told>>
vars   == <<reader, client, joins, ends, toDaemon, toBroker, daemon>>

MsgType == {"connect", "proof", "offer", "peerLeft", "challenge", "answer", "error"}
Msg(t, c, n) == [type |-> t, from |-> c, nonce |-> n]
NoMsg == Msg("error", NoClient, NoClient)
Messages == [type : MsgType, from : Client \cup {NoClient}, nonce : Client \cup {NoClient}]

\* Every variable has its type.
TypeOK ==
  /\ present \in BOOLEAN
  /\ serve \in {"read", "deliver", "leaving", "gone"}
  /\ got \in Messages /\ cl \in Client \cup {NoClient}
  /\ client \in Client \cup {NoClient}
  /\ pc \in [Client -> {"new", "found", "evict", "connect", "read", "relay", "leave", "bye", "done"}]
  /\ key \in [Client -> Key]
  /\ takeover \in [Client -> BOOLEAN]
  /\ old \in [Client -> Client \cup {NoClient}]
  /\ hold \in [Client -> Messages]
  /\ sock \in [Client -> BOOLEAN]
  /\ phase \in [Client -> {"waiting", "proved", "offered"}]
  /\ nonce \in [Client -> Client \cup {NoClient}]
  /\ told \in [Client -> SUBSET {"offline", "busy", "taken_over", "iceServers",
                                 "answer", "error", "peerLeft"}]
  /\ toDaemon \in Seq(Messages) /\ toBroker \in Seq(Messages)
  /\ authPub \in Client \cup {NoClient}
  /\ authed \in BOOLEAN
  /\ sess \in Client \cup {NoClient}

Init ==
  /\ present = TRUE
  /\ serve = "read" /\ got = NoMsg /\ cl = NoClient
  /\ client = NoClient
  /\ pc = [c \in Client |-> "new"]
  /\ key \in Keys
  /\ takeover \in [Client -> IF "takeover" \in Displace THEN BOOLEAN ELSE {FALSE}]
  /\ "rejoin" \in Displace \/ \A c, d \in Client : key[c] = key[d] => c = d
  /\ old = [c \in Client |-> NoClient]
  /\ hold = [c \in Client |-> NoMsg]
  /\ sock = [c \in Client |-> TRUE]
  /\ phase = [c \in Client |-> "waiting"]
  /\ nonce = [c \in Client |-> NoClient]
  /\ told = [c \in Client |-> {}]
  /\ toDaemon = <<>> /\ toBroker = <<>>
  /\ authPub = NoClient /\ authed = FALSE
  /\ sess = NoClient
-----------------------------------------------------------------------------
(* Writes.  A write to a closed socket is lost, and its error ignored. *)

Goto(c, where) == pc' = [pc EXCEPT ![c] = where]
Tell(c, what)  == told' = [told EXCEPT ![c] = IF sock[c] THEN @ \cup {what} ELSE @]
ToDaemon(m)    == toDaemon' = IF serve \in {"read", "deliver"} THEN Append(toDaemon, m) ELSE toDaemon
-----------------------------------------------------------------------------
(* serveClient, on the goroutine of join c. *)

\* The daemon is looked up; an absent one ends the join.
Join(c) ==
  /\ pc[c] = "new"
  /\ IF present THEN Goto(c, "found") /\ UNCHANGED told
                ELSE Goto(c, "done") /\ Tell(c, "offline")
  /\ UNCHANGED <<reader, client, key, takeover, old, hold, sock, phase, nonce, toDaemon, toBroker, daemon>>

\* Mutant of Claim: a busy daemon is asked to connect all the same.
ClaimMutant(c) ==
  /\ pc[c] = "found"
  /\ IF client # NoClient /\ key[client] # key[c] /\ ~takeover[c]
       THEN Goto(c, "connect") /\ Tell(c, "busy") /\ UNCHANGED <<client, old>>
       ELSE /\ client' = c
            /\ old' = [old EXCEPT ![c] = client]
            /\ Goto(c, IF client # NoClient THEN "evict" ELSE "connect")
            /\ UNCHANGED told
  /\ UNCHANGED <<reader, key, takeover, hold, sock, phase, nonce, toDaemon, toBroker, daemon>>

\* The slot is taken under d.mu, unless another key holds it.
Claim(c) ==
  /\ pc[c] = "found"
  /\ IF client # NoClient /\ key[client] # key[c] /\ ~takeover[c]
       THEN Goto(c, "done") /\ Tell(c, "busy") /\ UNCHANGED <<client, old>>
       ELSE /\ client' = c
            /\ old' = [old EXCEPT ![c] = client]
            /\ Goto(c, IF client # NoClient THEN "evict" ELSE "connect")
            /\ UNCHANGED told
  /\ UNCHANGED <<reader, key, takeover, hold, sock, phase, nonce, toDaemon, toBroker, daemon>>

\* The displaced client is told, if it is another device, and its socket
\* closed.
Evict(c) ==
  /\ pc[c] = "evict"
  /\ IF key[old[c]] # key[c] THEN Tell(old[c], "taken_over") ELSE UNCHANGED told
  /\ sock' = [sock EXCEPT ![old[c]] = FALSE]
  /\ Goto(c, "connect")
  /\ UNCHANGED <<reader, client, key, takeover, old, hold, phase, nonce, toDaemon, toBroker, daemon>>

\* Mutant of Connect: the daemon is not asked.
ConnectMutant(c) ==
  /\ pc[c] = "connect"
  /\ Goto(c, "read")
  /\ UNCHANGED <<reader, client, key, takeover, old, hold, ends, toDaemon, toBroker, daemon>>

\* The daemon is asked to start the challenge.
Connect(c) ==
  /\ pc[c] = "connect"
  /\ ToDaemon(Msg("connect", c, NoClient))
  /\ Goto(c, "read")
  /\ UNCHANGED <<reader, client, key, takeover, old, hold, ends, toBroker, daemon>>

\* What the client sends next, if anything.
Outgoing(c) ==
  CASE phase[c] = "waiting" /\ nonce[c] # NoClient       -> {Msg("proof", c, nonce[c])}
    [] phase[c] = "proved" /\ "iceServers" \in told[c]   -> {Msg("offer", c, NoClient)}
    [] OTHER                                             -> {}

\* A message is read, and d.client looked at under d.mu ...
Check(c) ==
  /\ pc[c] = "read"
  /\ sock[c]
  /\ \E m \in Outgoing(c) :
       /\ phase' = [phase EXCEPT ![c] = IF m.type = "proof" THEN "proved" ELSE "offered"]
       /\ IF client = c THEN hold' = [hold EXCEPT ![c] = m] /\ Goto(c, "relay")
                        ELSE Goto(c, "leave") /\ UNCHANGED hold
  /\ UNCHANGED <<reader, client, key, takeover, old, sock, nonce, told, toDaemon, toBroker, daemon>>

\* ... and relayed after it is released.  A proof is answered with the ICE
\* servers first; one whose broker signature is wrong ends the join.
RelayMsg(c) ==
  /\ pc[c] = "relay"
  /\ \/ /\ hold[c].type = "proof"
        /\ Tell(c, "iceServers")
        /\ ToDaemon(hold[c])
        /\ Goto(c, "read")
     \/ /\ hold[c].type = "proof"
        /\ Tell(c, "error")
        /\ Goto(c, "leave")
        /\ UNCHANGED toDaemon
     \/ /\ hold[c].type = "offer"
        /\ ToDaemon(hold[c])
        /\ Goto(c, "read")
        /\ UNCHANGED told
  /\ hold' = [hold EXCEPT ![c] = NoMsg]
  /\ UNCHANGED <<reader, client, key, takeover, old, sock, phase, nonce, toBroker, daemon>>

\* The client hangs up, or its network does.
Quit(c) ==
  /\ pc[c] # "new"
  /\ sock[c]
  /\ sock' = [sock EXCEPT ![c] = FALSE]
  /\ UNCHANGED <<reader, client, joins, phase, nonce, told, toDaemon, toBroker, daemon>>

ReadFails(c) ==
  /\ pc[c] = "read"
  /\ ~sock[c]
  /\ Goto(c, "leave")
  /\ UNCHANGED <<reader, client, key, takeover, old, hold, ends, toDaemon, toBroker, daemon>>

\* Mutant of Left: the slot keeps the client that left.
LeftMutant(c) ==
  /\ pc[c] = "leave"
  /\ client' = client
  /\ Goto(c, IF client = c THEN "bye" ELSE "done")
  /\ sock' = [sock EXCEPT ![c] = FALSE]
  /\ UNCHANGED <<reader, key, takeover, old, hold, phase, nonce, told, toDaemon, toBroker, daemon>>

\* The deferred function: the slot is freed under d.mu, and the socket is
\* closed on the way out ...
Left(c) ==
  /\ pc[c] = "leave"
  /\ client' = IF client = c THEN NoClient ELSE client
  /\ Goto(c, IF client = c THEN "bye" ELSE "done")
  /\ sock' = [sock EXCEPT ![c] = FALSE]
  /\ UNCHANGED <<reader, key, takeover, old, hold, phase, nonce, told, toDaemon, toBroker, daemon>>

\* ... and the daemon told after it is released.
Bye(c) ==
  /\ pc[c] = "bye"
  /\ ToDaemon(Msg("peerLeft", c, NoClient))
  /\ Goto(c, "done")
  /\ UNCHANGED <<reader, client, key, takeover, old, hold, ends, toBroker, daemon>>
-----------------------------------------------------------------------------
(* serveDaemon. *)

\* A message of the daemon's is read and d.client taken under d.mu; without a
\* client it is dropped ...
ReadDaemon ==
  /\ serve = "read"
  /\ toBroker # <<>>
  /\ toBroker' = Tail(toBroker)
  /\ IF client = NoClient
       THEN UNCHANGED <<serve, got, cl>>
       ELSE serve' = "deliver" /\ got' = Head(toBroker) /\ cl' = client
  /\ UNCHANGED <<present, client, joins, ends, toDaemon, daemon>>

\* Mutant of Deliver: a challenge is forwarded like any other message.
DeliverMutant ==
  /\ serve = "deliver"
  /\ Tell(cl, got.type)
  /\ serve' = "read" /\ got' = NoMsg /\ cl' = NoClient
  /\ UNCHANGED <<present, client, joins, sock, phase, nonce, toDaemon, toBroker, daemon>>

\* ... and sent to that client.
Deliver ==
  /\ serve = "deliver"
  /\ IF got.type = "challenge"
       THEN /\ nonce' = [nonce EXCEPT ![cl] = IF sock[cl] THEN got.nonce ELSE @]
            /\ UNCHANGED told
       ELSE Tell(cl, got.type) /\ UNCHANGED nonce
  /\ serve' = "read" /\ got' = NoMsg /\ cl' = NoClient
  /\ UNCHANGED <<present, client, joins, sock, phase, toDaemon, toBroker, daemon>>

cleanup == authPub' = NoClient /\ authed' = FALSE /\ sess' = NoClient

\* The daemon's connection drops: serveOnce cleans up, and serveDaemon takes
\* the daemon out of b.daemons ...
Drop ==
  /\ Drops
  /\ serve = "read"
  /\ present' = FALSE
  /\ serve' = "leaving"
  /\ cleanup
  /\ toDaemon' = <<>> /\ toBroker' = <<>>
  /\ UNCHANGED <<got, cl, client, joins, ends>>

\* Mutant of DaemonLeft: the client it has is not told.
DaemonLeftMutant ==
  /\ serve = "leaving"
  /\ serve' = "gone"
  /\ UNCHANGED <<present, got, cl, client, joins, ends, toDaemon, toBroker, daemon>>

\* ... and then tells the client it has.
DaemonLeft ==
  /\ serve = "leaving"
  /\ serve' = "gone"
  /\ IF client # NoClient THEN Tell(client, "peerLeft") ELSE UNCHANGED told
  /\ UNCHANGED <<present, got, cl, client, joins, sock, phase, nonce, toDaemon, toBroker, daemon>>
-----------------------------------------------------------------------------
(* serveOnce, one message at a time. *)

ToBroker(t, n) == toBroker' = Append(toBroker, Msg(t, NoClient, n))

HandleConnect(m) ==
  /\ m.type = "connect"
  /\ authed' = FALSE
  /\ sess' = NoClient
  /\ IF key[m.from] \in Pinned
       THEN authPub' = m.from /\ ToBroker("challenge", m.from)
       ELSE authPub' = NoClient /\ ToBroker("error", NoClient)

\* The signature is the sender's, over the nonce it was sent.
Verify(m) == /\ authPub # NoClient
             /\ key[m.from] = key[authPub]
             /\ m.nonce = authPub

HandleProof(m) ==
  /\ m.type = "proof"
  /\ IF Verify(m)
       THEN authed' = TRUE /\ UNCHANGED <<authPub, sess, toBroker>>
       ELSE cleanup /\ ToBroker("error", NoClient)

\* Mutant of HandleOffer: an offer is answered before the proof.
HandleOfferMutant(m) ==
  /\ m.type = "offer"
  /\ sess' = m.from
  /\ ToBroker("answer", NoClient)
  /\ UNCHANGED <<authPub, authed>>

\* An offer is answered once the client is authenticated; startSession or
\* Answer may fail, and the second drops the client.
HandleOffer(m) ==
  /\ m.type = "offer"
  /\ \/ ~authed /\ ToBroker("error", NoClient) /\ UNCHANGED daemon
     \/ authed /\ ToBroker("answer", NoClient) /\ sess' = m.from /\ UNCHANGED <<authPub, authed>>
     \/ authed /\ ToBroker("error", NoClient) /\ UNCHANGED daemon
     \/ authed /\ ToBroker("error", NoClient) /\ cleanup

HandlePeerLeft(m) ==
  /\ m.type = "peerLeft"
  /\ cleanup
  /\ UNCHANGED toBroker

serveOnce ==
  /\ toDaemon # <<>>
  /\ toDaemon' = Tail(toDaemon)
  /\ LET m == Head(toDaemon)
     IN  HandleConnect(m) \/ HandleProof(m) \/ HandleOffer(m) \/ HandlePeerLeft(m)
  /\ UNCHANGED <<reader, client, joins, ends>>
-----------------------------------------------------------------------------
\* What the goroutine of join c does by itself once the join was read.
Run(c) ==
  Claim(c) \/ Evict(c) \/ Connect(c) \/ Check(c) \/ RelayMsg(c) \/ ReadFails(c) \/ Left(c) \/ Bye(c)

Next ==
  \/ \E c \in Client : Join(c) \/ Run(c) \/ Quit(c)
  \/ ReadDaemon \/ Deliver \/ Drop \/ DaemonLeft
  \/ serveOnce

Spec == Init /\ [][Next]_vars

\* Goroutines run and sockets deliver.  Nothing is assumed of joins, hang-ups
\* or the daemon's connection.
Fairness ==
  /\ \A c \in Client : WF_vars(Run(c))
  /\ WF_vars(ReadDaemon \/ Deliver \/ DaemonLeft)
  /\ WF_vars(serveOnce)

FairSpec == Spec /\ Fairness
-----------------------------------------------------------------------------
\* A join that was refused never reaches the daemon, not even later: a pairing
\* secret it carried stays unspent (docs/HOW-IT-WORKS.md:615-616).
RefusedNeverReaches ==
  \A c \in Client : told[c] \cap {"busy", "offline"} # {} =>
    /\ client # c /\ authPub # c
    /\ \A i \in 1..Len(toDaemon) : toDaemon[i].from # c

\* The session the daemon answers belongs to the client it authenticated, or
\* to one that was displaced while its offer was on its way: closing its socket
\* does not stop a message that was read before (broker.go:286-288, 321-324).
SessionIsAuthenticated ==
  sess # NoClient => authed /\ (key[sess] = key[authPub] \/ \E c \in Client : old[c] = sess)

\* The slot does not outlive its client (broker.go:299-311).
SlotFreed == \A c \in Client : ~sock[c] ~> client # c

\* A join that takes the slot is answered: by a challenge or an error, by the
\* daemon's goodbye when its connection drops, or by the end of its own socket
\* (docs/HOW-IT-WORKS.md:612-613, broker.go:198-203).  Only one that takes the
\* slot after serveDaemon has said that goodbye, having found the daemon before,
\* hears nothing (broker.go:240-262).
JoinAnswered ==
  \A c \in Client :
    (client = c /\ serve # "gone") ~> (nonce[c] # NoClient \/ told[c] # {} \/ ~sock[c])
-----------------------------------------------------------------------------
(* What the comments and the documentation say and the code does not keep. *)

\* broker.go:306-307: only the current client tells the daemon that its peer
\* left; one that is no longer current tears down no session.
LeaverSparesOthers ==
  [][ (toDaemon # <<>> /\ Head(toDaemon).type = "peerLeft" /\ toDaemon' = Tail(toDaemon))
      => authPub \in {NoClient, Head(toDaemon).from} ]_vars
=============================================================================
