----------------------------- MODULE RelayProofs ----------------------------
(***************************************************************************)
(* Proofs about Relay, for every number of joins and however they displace *)
(* each other: a join the broker refused never reaches the daemon, and the *)
(* session the daemon answers is the authenticated client's.               *)
(*                                                                         *)
(* The second rests on who may know what.  A client whose offer is awaited *)
(* has proved its key; had the daemon since begun to authenticate another  *)
(* key, the broker would have given the slot, and with it the challenge,   *)
(* to another join, whose proof the daemon reads after the offer (KeyInv). *)
(***************************************************************************)
EXTENDS Relay, SequenceTheorems, TLAPS

\* What the broker writes to the daemon comes from a join, and what the daemon
\* writes to the broker is what it may say.
FromJoins == {m \in Messages : m.from \in Client}
FromDaemon == {m \in Messages : m.type \in {"challenge", "answer", "error"}}

WireInv ==
  /\ toDaemon \in Seq(FromJoins)
  /\ toBroker \in Seq(FromDaemon)
  /\ serve = "deliver" => cl \in Client /\ got \in FromDaemon

\* Where a join is, it has what it needs there.
JoinInv ==
  \A c \in Client :
    /\ pc[c] = "evict" => old[c] \in Client
    /\ pc[c] = "relay" => hold[c].from = c

\* The messages of the other joins.
NotOf(c) == {m \in Messages : m.from # c}
Refused(c) == told[c] \cap {"busy", "offline"} # {}

\* A join that has not taken the slot, or never will, is nowhere to be seen.
AbsentInv ==
  \A c \in Client :
    /\ Refused(c) => pc[c] = "done"
    /\ pc[c] \in {"new", "found"} \/ Refused(c) =>
         client # c /\ authPub # c /\ toDaemon \in Seq(NotOf(c))

\* Another client took the slot from c.
Displaced(c) == \E d \in Client : old[d] = c

\* Join c has the slot, unless it was displaced, and may still relay messages.
Relaying(c) == pc[c] \in {"read", "relay"}

\* A join claims the slot once, and loses it only by leaving or to another.
SlotInv ==
  \A c \in Client :
    /\ pc[c] \in {"new", "found"} => old[c] = NoClient
    /\ pc[c] \in {"evict", "connect", "read", "relay", "leave"} /\ ~Displaced(c) => client = c

IsProof(m, c) == m.type = "proof" /\ m.from = c
IsOffer(m, c) == m.type = "offer" /\ m.from = c
Queued == 1..Len(toDaemon)

\* A client sends its proof first, and its offer once that was relayed.
PhaseInv ==
  \A c \in Client :
    /\ pc[c] \notin {"read", "relay", "leave", "bye", "done"} => phase[c] = "waiting"
    /\ pc[c] = "relay" => hold[c].type \in {"proof", "offer"}
    /\ pc[c] # "relay" => hold[c] = NoMsg
    /\ phase[c] = "waiting" => hold[c].type = "error" /\ "iceServers" \notin told[c]
    /\ phase[c] = "proved" => hold[c].type # "offer"
    /\ phase[c] = "offered" => hold[c].type # "proof"
    /\ hold[c].type = "proof" => "iceServers" \notin told[c]

\* In that order the daemon reads them.
OrderInv ==
  \A c \in Client :
    /\ phase[c] = "waiting" => \A i \in Queued : ~IsProof(toDaemon[i], c)
    /\ phase[c] # "offered" \/ hold[c].type = "offer" =>
         \A i \in Queued : ~IsOffer(toDaemon[i], c)
    /\ \A i, j \in Queued : IsOffer(toDaemon[i], c) /\ IsProof(toDaemon[j], c) => j < i

\* The daemon has not handled the connect of join c.
Early(c) == pc[c] \in {"new", "found", "evict", "connect"}
IsConnect(m, c) == m.type = "connect" /\ m.from = c
Unasked(c) ==
  \/ Early(c)
  \/ \E i \in Queued : IsConnect(toDaemon[i], c)

\* A join is asked for once ...
ConnectInv ==
  \A c \in Client :
    /\ Early(c) => \A i \in Queued : ~IsConnect(toDaemon[i], c)
    /\ \A i, j \in Queued : IsConnect(toDaemon[i], c) /\ IsConnect(toDaemon[j], c) => i = j

\* ... and until the daemon was, nobody knows its nonce.
NonceInv ==
  \A c \in Client : Unasked(c) =>
    /\ got.nonce # c
    /\ \A d \in Client : nonce[d] # c /\ hold[d].nonce # c
    /\ \A i \in Queued : toDaemon[i].nonce # c
    /\ \A i \in 1..Len(toBroker) : toBroker[i].nonce # c

\* Whoever is authenticated is somebody, and without its connection the daemon
\* authenticates nobody.
GoneInv ==
  /\ authed => authPub # NoClient
  /\ serve \in {"leaving", "gone"} => authPub = NoClient /\ sess = NoClient /\ toDaemon = <<>>

\* The daemon has handled the proof of c, whose offer is on its way or may still come.
Awaited(c) ==
  /\ ~Displaced(c)
  /\ \A i \in Queued : ~IsProof(toDaemon[i], c)
  /\ \/ Relaying(c) /\ phase[c] # "waiting" /\ hold[c].type # "proof"
     \/ \E i \in Queued : IsOffer(toDaemon[i], c)

\* The daemon is about to authenticate, or has, another key than that of c.
Rival(c) == authPub # NoClient /\ key[authPub] # key[c]

\* While c may still send, nobody else knows the challenge or has used it ...
Private(c) ==
  Relaying(c) =>
    /\ \A d \in Client : d # c => nonce[d] # authPub /\ hold[d].nonce # authPub
    /\ serve = "deliver" /\ got.nonce = authPub => cl = c

\* ... and a proof that answers it is behind the offer of c.
Behind(c) ==
  \A j \in Queued :
    toDaemon[j].type = "proof" /\ toDaemon[j].nonce = authPub /\ toDaemon[j].from # c =>
      /\ ~Relaying(c)
      /\ \A i \in Queued : IsOffer(toDaemon[i], c) => i < j

\* While the offer of c is awaited nobody of another key is authenticated, nor
\* will be before it.
KeyInv == \A c \in Client : Awaited(c) /\ Rival(c) => ~authed /\ Private(c) /\ Behind(c)

IInv ==
  /\ TypeOK /\ WireInv /\ JoinInv /\ AbsentInv
  /\ SlotInv /\ PhaseInv /\ OrderInv
  /\ ConnectInv /\ NonceInv /\ GoneInv /\ KeyInv
  /\ SessionIsAuthenticated

\* Appending to a queue, and taking its head off, keep what is in it.
LEMMA Queues ==
  ASSUME NEW S, NEW s \in Seq(S)
  PROVE  /\ \A m \in S : Append(s, m) \in Seq(S)
         /\ s # <<>> => Head(s) \in S /\ Tail(s) \in Seq(S)
  BY HeadTailProperties, AppendProperties

\* What a message is.
LEMMA MsgIs ==
  ASSUME NEW t \in MsgType, NEW c \in Client \cup {NoClient}, NEW n \in Client \cup {NoClient}
  PROVE  Msg(t, c, n) \in Messages /\ Msg(t, c, n).from = c /\ Msg(t, c, n).type = t
  BY DEF Msg, Messages

\* A message a join wrote goes to the daemon, or is lost with its connection.
LEMMA WrittenToDaemon ==
  ASSUME WireInv, NEW m \in FromJoins, ToDaemon(m)
  PROVE  /\ toDaemon' \in Seq(FromJoins)
         /\ toDaemon \in Seq(Messages) => toDaemon' \in Seq(Messages)
         /\ \A c \in Client : m.from # c /\ toDaemon \in Seq(NotOf(c)) => toDaemon' \in Seq(NotOf(c))
  <1>1. m \in Messages /\ \A c \in Client : m.from # c => m \in NotOf(c)
    BY DEF FromJoins, NotOf
  <1> QED
    BY <1>1, Queues DEF WireInv, ToDaemon

\* A message the daemon wrote.
LEMMA WrittenToBroker ==
  ASSUME WireInv, toBroker \in Seq(Messages), NEW t \in {"challenge", "answer", "error"},
         NEW n \in Client \cup {NoClient}, ToBroker(t, n)
  PROVE  toBroker' \in Seq(FromDaemon) /\ toBroker' \in Seq(Messages)
  <1>1. Msg(t, NoClient, n) \in FromDaemon /\ Msg(t, NoClient, n) \in Messages
    BY MsgIs DEF FromDaemon, MsgType
  <1> QED
    BY <1>1, Queues DEF WireInv, ToBroker

\* What a client may be told.
Said == {"offline", "busy", "taken_over", "iceServers", "answer", "error", "peerLeft"}

LEMMA ToldType ==
  ASSUME told \in [Client -> SUBSET Said], NEW c \in Client, NEW what \in Said, Tell(c, what)
  PROVE  told' \in [Client -> SUBSET Said]
  BY DEF Tell

\* The invariant holds before anyone joins.
LEMMA InitIInv == Init => IInv
  <1> SUFFICES ASSUME Init PROVE IInv
    OBVIOUS
  <1>1. \A S : <<>> \in Seq(S)
    BY EmptySeq
  <1>2. NoMsg \in Messages
    BY MsgIs DEF NoMsg, MsgType
  <1>3. key \in [Client -> Key] /\ takeover \in [Client -> BOOLEAN]
    BY RelayAssumption DEF Init
  <1>4. TypeOK
    BY <1>1, <1>2, <1>3 DEF Init, TypeOK
  <1>5. WireInv /\ JoinInv
    BY <1>1 DEF Init, WireInv, JoinInv
  <1>6. AbsentInv
    BY <1>1, RelayAssumption DEF Init, AbsentInv, Refused
  <1>7. NoMsg.type = "error" /\ NoMsg.nonce = NoClient /\ Queued = {} /\ 1..Len(toBroker) = {}
    BY DEF NoMsg, Msg, Init, Queued
  <1>8. SlotInv /\ PhaseInv /\ OrderInv
    BY <1>7 DEF Init, SlotInv, PhaseInv, OrderInv
  <1>9. ConnectInv /\ NonceInv
    BY <1>7, RelayAssumption DEF Init, ConnectInv, NonceInv
  <1>10. GoneInv /\ KeyInv /\ SessionIsAuthenticated
    BY DEF Init, GoneInv, KeyInv, Rival, SessionIsAuthenticated
  <1> QED
    BY <1>4, <1>5, <1>6, <1>8, <1>9, <1>10 DEF IInv

\* Every step keeps every variable in its type.
LEMMA TypeStep ==
  ASSUME TypeOK, WireInv, JoinInv, [Next]_vars
  PROVE  TypeOK'
  <1> USE DEF TypeOK, WireInv, JoinInv, reader, joins, ends, daemon
  <1>1. ASSUME NEW c \in Client, Join(c) PROVE TypeOK'
    BY <1>1 DEF Join, Goto, Tell
  <1>2. ASSUME NEW c \in Client, Claim(c) PROVE TypeOK'
    <2>1. told' \in [Client -> SUBSET Said]
      BY <1>2, ToldType DEF Claim, Said
    <2>2. pc' \in [Client -> {"new", "found", "evict", "connect", "read", "relay", "leave", "bye", "done"}]
      <3>1. PICK s \in {"done", "evict", "connect"} : Goto(c, s)
        BY <1>2 DEF Claim
      <3> QED
        BY <3>1 DEF Goto
    <2>3. old' \in [Client -> Client \cup {NoClient}] /\ client' \in Client \cup {NoClient}
      BY <1>2 DEF Claim
    <2>4. UNCHANGED <<reader, key, takeover, hold, sock, phase, nonce, toDaemon, toBroker, daemon>>
      BY <1>2 DEF Claim
    <2> QED
      BY <2>1, <2>2, <2>3, <2>4 DEF Said
  <1>3. ASSUME NEW c \in Client, Evict(c) PROVE TypeOK'
    BY <1>3 DEF Evict, Goto, Tell
  <1>4. ASSUME NEW c \in Client, Connect(c) PROVE TypeOK'
    <2>1. Msg("connect", c, NoClient) \in FromJoins
      BY MsgIs DEF FromJoins, MsgType
    <2>2. toDaemon' \in Seq(Messages)
      BY <1>4, <2>1, WrittenToDaemon DEF Connect
    <2> QED
      BY <1>4, <2>2 DEF Connect, Goto
  <1>5. ASSUME NEW c \in Client, Check(c) PROVE TypeOK'
    <2>1. PICK m \in Outgoing(c) :
            /\ phase' = [phase EXCEPT ![c] = IF m.type = "proof" THEN "proved" ELSE "offered"]
            /\ IF client = c THEN hold' = [hold EXCEPT ![c] = m] /\ Goto(c, "relay")
                             ELSE Goto(c, "leave") /\ UNCHANGED hold
      BY <1>5 DEF Check
    <2>2. m \in Messages
      BY <2>1, MsgIs DEF Outgoing, MsgType
    <2> QED
      BY <1>5, <2>1, <2>2 DEF Check, Goto
  <1>6. ASSUME NEW c \in Client, RelayMsg(c) PROVE TypeOK'
    <2>1. hold[c] \in FromJoins
      BY <1>6 DEF RelayMsg, JoinInv, FromJoins
    <2>2. toDaemon' \in Seq(Messages)
      BY <1>6, <2>1, WrittenToDaemon DEF RelayMsg
    <2>3. NoMsg \in Messages
      BY MsgIs DEF NoMsg, MsgType
    <2>4. told' \in [Client -> SUBSET Said]
      BY <1>6, ToldType DEF RelayMsg, Said
    <2>5. pc' \in [Client -> {"new", "found", "evict", "connect", "read", "relay", "leave", "bye", "done"}]
      BY <1>6 DEF RelayMsg, Goto
    <2>6. hold' \in [Client -> Messages]
      BY <1>6, <2>3 DEF RelayMsg
    <2>7. UNCHANGED <<reader, client, key, takeover, old, sock, phase, nonce, toBroker, daemon>>
      BY <1>6 DEF RelayMsg
    <2> QED
      BY <2>2, <2>4, <2>5, <2>6, <2>7 DEF Said
  <1>7. ASSUME NEW c \in Client, ReadFails(c) PROVE TypeOK'
    BY <1>7 DEF ReadFails, Goto
  <1>8. ASSUME NEW c \in Client, Left(c) PROVE TypeOK'
    BY <1>8 DEF Left, Goto
  <1>9. ASSUME NEW c \in Client, Bye(c) PROVE TypeOK'
    <2>1. Msg("peerLeft", c, NoClient) \in FromJoins
      BY MsgIs DEF FromJoins, MsgType
    <2>2. toDaemon' \in Seq(Messages)
      BY <1>9, <2>1, WrittenToDaemon DEF Bye
    <2> QED
      BY <1>9, <2>2 DEF Bye, Goto
  <1>10. ASSUME NEW c \in Client, Quit(c) PROVE TypeOK'
    BY <1>10 DEF Quit
  <1>11. CASE ReadDaemon
    <2>1. toBroker # <<>> /\ toBroker' = Tail(toBroker)
      BY <1>11 DEF ReadDaemon
    <2>2. toBroker' \in Seq(Messages) /\ Head(toBroker) \in Messages
      BY <2>1, Queues
    <2> QED
      BY <1>11, <2>2 DEF ReadDaemon
  <1>12. CASE Deliver
    <2>1. NoMsg \in Messages
      BY MsgIs DEF NoMsg, MsgType
    <2>2. cl \in Client /\ got.type \in {"challenge", "answer", "error"} /\ got.nonce \in Client \cup {NoClient}
      BY <1>12 DEF Deliver, FromDaemon, Messages
    <2>3. nonce' \in [Client -> Client \cup {NoClient}]
      BY <1>12, <2>2 DEF Deliver
    <2>4. told' \in [Client -> SUBSET Said]
      BY <1>12, <2>2, ToldType DEF Deliver, Said
    <2> QED
      BY <1>12, <2>1, <2>3, <2>4 DEF Deliver, Said
  <1>13. CASE Drop
    <2>1. <<>> \in Seq(Messages)
      BY EmptySeq
    <2> QED
      BY <1>13, <2>1 DEF Drop, cleanup
  <1>14. CASE DaemonLeft
    <2>1. told' \in [Client -> SUBSET Said]
      BY <1>14, ToldType DEF DaemonLeft, Said
    <2> QED
      BY <1>14, <2>1 DEF DaemonLeft, Said
  <1>15. CASE serveOnce
    <2> DEFINE m == Head(toDaemon)
    <2>1. m \in FromJoins /\ toDaemon' \in Seq(Messages)
      BY <1>15, Queues DEF serveOnce
    <2>2. m.from \in Client
      BY <2>1 DEF FromJoins
    <2>3. UNCHANGED <<reader, client, joins, ends>>
      BY <1>15 DEF serveOnce
    <2> HIDE DEF m
    <2>4. CASE HandleConnect(m)
      <3>1. toBroker' \in Seq(Messages)
        BY <2>2, <2>4, WrittenToBroker DEF HandleConnect
      <3> QED
        BY <2>1, <2>2, <2>3, <2>4, <3>1 DEF HandleConnect
    <2>5. CASE HandleProof(m)
      <3>1. toBroker' \in Seq(Messages)
        BY <2>5, WrittenToBroker DEF HandleProof
      <3> QED
        BY <2>1, <2>3, <2>5, <3>1 DEF HandleProof, cleanup
    <2>6. CASE HandleOffer(m)
      <3>1. toBroker' \in Seq(Messages)
        BY <2>6, WrittenToBroker DEF HandleOffer
      <3> QED
        BY <2>1, <2>2, <2>3, <2>6, <3>1 DEF HandleOffer, cleanup
    <2>7. CASE HandlePeerLeft(m)
      BY <2>1, <2>3, <2>7 DEF HandlePeerLeft, cleanup
    <2> QED
      BY <1>15, <2>4, <2>5, <2>6, <2>7 DEF serveOnce, m
  <1>16. CASE UNCHANGED vars
    BY <1>16 DEF vars
  <1> QED
    BY <1>1, <1>2, <1>3, <1>4, <1>5, <1>6, <1>7, <1>8, <1>9, <1>10,
       <1>11, <1>12, <1>13, <1>14, <1>15, <1>16 DEF Next, Run

\* Every step keeps what is on the daemon's WebSocket.
LEMMA WireStep ==
  ASSUME TypeOK, WireInv, JoinInv, [Next]_vars
  PROVE  WireInv'
  <1> USE DEF WireInv, reader, joins, ends, daemon
  <1>1. ASSUME NEW c \in Client, Join(c) PROVE WireInv'
    BY <1>1 DEF Join, Goto, Tell
  <1>2. ASSUME NEW c \in Client, Claim(c) PROVE WireInv'
    BY <1>2 DEF Claim, Goto, Tell
  <1>3. ASSUME NEW c \in Client, Evict(c) PROVE WireInv'
    BY <1>3 DEF Evict, Goto, Tell
  <1>4. ASSUME NEW c \in Client, Connect(c) PROVE WireInv'
    <2>1. Msg("connect", c, NoClient) \in FromJoins
      BY MsgIs DEF FromJoins, MsgType
    <2>2. toDaemon' \in Seq(FromJoins)
      BY <1>4, <2>1, WrittenToDaemon DEF Connect
    <2> QED
      BY <1>4, <2>2 DEF Connect
  <1>5. ASSUME NEW c \in Client, Check(c) PROVE WireInv'
    BY <1>5 DEF Check, Goto
  <1>6. ASSUME NEW c \in Client, RelayMsg(c) PROVE WireInv'
    <2>1. hold[c] \in FromJoins
      BY <1>6 DEF RelayMsg, JoinInv, FromJoins, TypeOK
    <2>2. toDaemon' \in Seq(FromJoins)
      BY <1>6, <2>1, WrittenToDaemon DEF RelayMsg
    <2> QED
      BY <1>6, <2>2 DEF RelayMsg
  <1>7. ASSUME NEW c \in Client, ReadFails(c) PROVE WireInv'
    BY <1>7 DEF ReadFails, Goto
  <1>8. ASSUME NEW c \in Client, Left(c) PROVE WireInv'
    BY <1>8 DEF Left, Goto
  <1>9. ASSUME NEW c \in Client, Bye(c) PROVE WireInv'
    <2>1. Msg("peerLeft", c, NoClient) \in FromJoins
      BY MsgIs DEF FromJoins, MsgType
    <2>2. toDaemon' \in Seq(FromJoins)
      BY <1>9, <2>1, WrittenToDaemon DEF Bye
    <2> QED
      BY <1>9, <2>2 DEF Bye
  <1>10. ASSUME NEW c \in Client, Quit(c) PROVE WireInv'
    BY <1>10 DEF Quit
  <1>11. CASE ReadDaemon
    <2>1. toBroker # <<>> /\ toBroker' = Tail(toBroker)
      BY <1>11 DEF ReadDaemon
    <2>2. toBroker' \in Seq(FromDaemon) /\ Head(toBroker) \in FromDaemon
      BY <2>1, Queues
    <2> QED
      BY <1>11, <2>2 DEF ReadDaemon, TypeOK
  <1>12. CASE Deliver
    BY <1>12 DEF Deliver, Tell
  <1>13. CASE Drop
    <2>1. \A S : <<>> \in Seq(S)
      BY EmptySeq
    <2> QED
      BY <1>13, <2>1 DEF Drop
  <1>14. CASE DaemonLeft
    BY <1>14 DEF DaemonLeft, Tell
  <1>15. CASE serveOnce
    <2> DEFINE m == Head(toDaemon)
    <2>1. m \in FromJoins /\ toDaemon' \in Seq(FromJoins)
      BY <1>15, Queues DEF serveOnce
    <2>2. m.from \in Client /\ toBroker \in Seq(Messages)
      BY <2>1 DEF FromJoins, TypeOK
    <2>3. UNCHANGED <<reader, client, joins, ends>>
      BY <1>15 DEF serveOnce
    <2> HIDE DEF m
    <2>4. CASE HandleConnect(m)
      BY <2>1, <2>2, <2>3, <2>4, WrittenToBroker DEF HandleConnect
    <2>5. CASE HandleProof(m)
      BY <2>1, <2>2, <2>3, <2>5, WrittenToBroker DEF HandleProof
    <2>6. CASE HandleOffer(m)
      BY <2>1, <2>2, <2>3, <2>6, WrittenToBroker DEF HandleOffer
    <2>7. CASE HandlePeerLeft(m)
      BY <2>1, <2>3, <2>7 DEF HandlePeerLeft
    <2> QED
      BY <1>15, <2>4, <2>5, <2>6, <2>7 DEF serveOnce, m
  <1>16. CASE UNCHANGED vars
    BY <1>16 DEF vars
  <1> QED
    BY <1>1, <1>2, <1>3, <1>4, <1>5, <1>6, <1>7, <1>8, <1>9, <1>10,
       <1>11, <1>12, <1>13, <1>14, <1>15, <1>16 DEF Next, Run

\* Every step leaves each join with what it needs.
LEMMA JoinStep ==
  ASSUME TypeOK, JoinInv, [Next]_vars
  PROVE  JoinInv'
  <1> USE DEF TypeOK, JoinInv, reader, joins, ends, daemon
  <1>1. ASSUME NEW c \in Client, Join(c) PROVE JoinInv'
    BY <1>1 DEF Join, Goto, Tell
  <1>2. ASSUME NEW c \in Client, Claim(c) PROVE JoinInv'
    BY <1>2 DEF Claim, Goto, Tell
  <1>3. ASSUME NEW c \in Client, Evict(c) PROVE JoinInv'
    BY <1>3 DEF Evict, Goto, Tell
  <1>4. ASSUME NEW c \in Client, Connect(c) PROVE JoinInv'
    BY <1>4 DEF Connect, Goto
  <1>5. ASSUME NEW c \in Client, Check(c) PROVE JoinInv'
    <2>1. PICK m \in Outgoing(c) :
            IF client = c THEN hold' = [hold EXCEPT ![c] = m] /\ Goto(c, "relay")
                          ELSE Goto(c, "leave") /\ UNCHANGED hold
      BY <1>5 DEF Check
    <2>2. m.from = c
      BY <2>1, MsgIs DEF Outgoing, MsgType
    <2> QED
      BY <1>5, <2>1, <2>2 DEF Check, Goto
  <1>6. ASSUME NEW c \in Client, RelayMsg(c) PROVE JoinInv'
    BY <1>6 DEF RelayMsg, Goto, Tell
  <1>7. ASSUME NEW c \in Client, ReadFails(c) PROVE JoinInv'
    BY <1>7 DEF ReadFails, Goto
  <1>8. ASSUME NEW c \in Client, Left(c) PROVE JoinInv'
    BY <1>8 DEF Left, Goto
  <1>9. ASSUME NEW c \in Client, Bye(c) PROVE JoinInv'
    BY <1>9 DEF Bye, Goto
  <1>10. ASSUME NEW c \in Client, Quit(c) PROVE JoinInv'
    BY <1>10 DEF Quit
  <1>11. CASE ReadDaemon
    BY <1>11 DEF ReadDaemon
  <1>12. CASE Deliver
    BY <1>12 DEF Deliver, Tell
  <1>13. CASE Drop
    BY <1>13 DEF Drop, cleanup
  <1>14. CASE DaemonLeft
    BY <1>14 DEF DaemonLeft, Tell
  <1>15. CASE serveOnce
    BY <1>15 DEF serveOnce
  <1>16. CASE UNCHANGED vars
    BY <1>16 DEF vars
  <1> QED
    BY <1>1, <1>2, <1>3, <1>4, <1>5, <1>6, <1>7, <1>8, <1>9, <1>10,
       <1>11, <1>12, <1>13, <1>14, <1>15, <1>16 DEF Next, Run

\* No step brings a join that was refused to the daemon.
LEMMA AbsentStep ==
  ASSUME TypeOK, WireInv, JoinInv, AbsentInv, [Next]_vars
  PROVE  AbsentInv'
  <1> USE DEF TypeOK, JoinInv, AbsentInv, Refused, reader, joins, ends, daemon
  <1>1. ASSUME NEW c \in Client, Join(c) PROVE AbsentInv'
    BY <1>1 DEF Join, Goto, Tell
  <1>2. ASSUME NEW c \in Client, Claim(c) PROVE AbsentInv'
    BY <1>2 DEF Claim, Goto, Tell
  <1>3. ASSUME NEW c \in Client, Evict(c) PROVE AbsentInv'
    BY <1>3 DEF Evict, Goto, Tell
  <1>4. ASSUME NEW c \in Client, Connect(c) PROVE AbsentInv'
    <2>1. Msg("connect", c, NoClient) \in FromJoins /\ Msg("connect", c, NoClient).from = c
      BY MsgIs DEF FromJoins, MsgType
    <2>2. \A d \in Client : d # c /\ toDaemon \in Seq(NotOf(d)) => toDaemon' \in Seq(NotOf(d))
      BY <1>4, <2>1, WrittenToDaemon DEF Connect
    <2> QED
      BY <1>4, <2>2 DEF Connect, Goto
  <1>5. ASSUME NEW c \in Client, Check(c) PROVE AbsentInv'
    BY <1>5 DEF Check, Goto
  <1>6. ASSUME NEW c \in Client, RelayMsg(c) PROVE AbsentInv'
    <2>1. hold[c] \in FromJoins /\ hold[c].from = c
      BY <1>6 DEF RelayMsg, JoinInv, FromJoins
    <2>2. \A d \in Client : d # c /\ toDaemon \in Seq(NotOf(d)) => toDaemon' \in Seq(NotOf(d))
      BY <1>6, <2>1, WrittenToDaemon DEF RelayMsg
    <2> QED
      BY <1>6, <2>2 DEF RelayMsg, Goto, Tell
  <1>7. ASSUME NEW c \in Client, ReadFails(c) PROVE AbsentInv'
    BY <1>7 DEF ReadFails, Goto
  <1>8. ASSUME NEW c \in Client, Left(c) PROVE AbsentInv'
    BY <1>8, RelayAssumption DEF Left, Goto
  <1>9. ASSUME NEW c \in Client, Bye(c) PROVE AbsentInv'
    <2>1. Msg("peerLeft", c, NoClient) \in FromJoins /\ Msg("peerLeft", c, NoClient).from = c
      BY MsgIs DEF FromJoins, MsgType
    <2>2. \A d \in Client : d # c /\ toDaemon \in Seq(NotOf(d)) => toDaemon' \in Seq(NotOf(d))
      BY <1>9, <2>1, WrittenToDaemon DEF Bye
    <2> QED
      BY <1>9, <2>2 DEF Bye, Goto
  <1>10. ASSUME NEW c \in Client, Quit(c) PROVE AbsentInv'
    BY <1>10 DEF Quit
  <1>11. CASE ReadDaemon
    BY <1>11 DEF ReadDaemon
  <1>12. CASE Deliver
    <2>1. cl \in Client /\ got.type \notin {"busy", "offline"}
      BY <1>12 DEF Deliver, WireInv, FromDaemon
    <2> QED
      BY <1>12, <2>1 DEF Deliver, Tell
  <1>13. CASE Drop
    <2>1. \A S : <<>> \in Seq(S)
      BY EmptySeq
    <2> QED
      BY <1>13, <2>1, RelayAssumption DEF Drop, cleanup
  <1>14. CASE DaemonLeft
    BY <1>14 DEF DaemonLeft, Tell
  <1>15. CASE serveOnce
    <2> DEFINE m == Head(toDaemon)
    <2>1. \A c \in Client : toDaemon \in Seq(NotOf(c)) => m \in NotOf(c) /\ toDaemon' \in Seq(NotOf(c))
      BY <1>15, Queues DEF serveOnce
    <2>2. authPub' \in {authPub, m.from, NoClient} /\ UNCHANGED <<client, joins, ends>>
      BY <1>15 DEF serveOnce, HandleConnect, HandleProof, HandleOffer, HandlePeerLeft, cleanup
    <2> HIDE DEF m
    <2> QED
      BY <2>1, <2>2, RelayAssumption DEF NotOf
  <1>16. CASE UNCHANGED vars
    BY <1>16 DEF vars
  <1> QED
    BY <1>1, <1>2, <1>3, <1>4, <1>5, <1>6, <1>7, <1>8, <1>9, <1>10,
       <1>11, <1>12, <1>13, <1>14, <1>15, <1>16 DEF Next, Run

\* The daemon's queue, message by message: what a write adds to it ...
LEMMA Written ==
  ASSUME toDaemon \in Seq(Messages), NEW m \in Messages, ToDaemon(m)
  PROVE  /\ \A i \in Queued : i \in Queued' /\ toDaemon'[i] = toDaemon[i]
         /\ \A i \in Queued' : \/ i \in Queued /\ toDaemon'[i] = toDaemon[i]
                               \/ i = Len(toDaemon) + 1 /\ toDaemon'[i] = m
         /\ serve \in {"read", "deliver"} =>
              Len(toDaemon) + 1 \in Queued' /\ toDaemon'[Len(toDaemon) + 1] = m
  <1>1. CASE serve \in {"read", "deliver"}
    <2>1. toDaemon' = Append(toDaemon, m)
      BY <1>1 DEF ToDaemon
    <2> QED
      BY <1>1, <2>1, AppendProperties DEF Queued
  <1>2. CASE serve \notin {"read", "deliver"}
    BY <1>2 DEF ToDaemon, Queued
  <1> QED
    BY <1>1, <1>2

\* ... and what is left when its first message is taken.
LEMMA Taken ==
  ASSUME toDaemon \in Seq(Messages), toDaemon # <<>>, toDaemon' = Tail(toDaemon)
  PROVE  /\ 1 \in Queued /\ Head(toDaemon) = toDaemon[1]
         /\ \A i \in Queued' : i + 1 \in Queued /\ toDaemon'[i] = toDaemon[i + 1]
         /\ \A i \in Queued : i # 1 => i - 1 \in Queued' /\ toDaemon'[i - 1] = toDaemon[i]
  BY HeadTailProperties DEF Queued

\* Every step keeps to one claim per join.
LEMMA SlotStep ==
  ASSUME TypeOK, JoinInv, AbsentInv, SlotInv, [Next]_vars
  PROVE  SlotInv'
  <1> USE DEF TypeOK, SlotInv, Displaced, reader, joins, ends, daemon
  <1>1. ASSUME NEW c \in Client, Join(c) PROVE SlotInv'
    BY <1>1 DEF Join, Goto, Tell
  <1>2. ASSUME NEW c \in Client, Claim(c) PROVE SlotInv'
    <2>1. client # c /\ old[c] = NoClient
      BY <1>2 DEF Claim, AbsentInv
    <2>2. CASE client # NoClient /\ key[client] # key[c] /\ ~takeover[c]
      BY <1>2, <2>2 DEF Claim, Goto
    <2>3. CASE ~(client # NoClient /\ key[client] # key[c] /\ ~takeover[c])
      <3>1. /\ client' = c /\ old' = [old EXCEPT ![c] = client]
            /\ \E s \in {"evict", "connect"} : pc' = [pc EXCEPT ![c] = s]
        BY <1>2, <2>3 DEF Claim, Goto
      <3>2. old'[c] = client /\ \A d \in Client : d # c => old'[d] = old[d]
        BY <3>1
      <3>3. \A d \in Client : Displaced(d) => Displaced(d)'
        BY <2>1, <3>2, RelayAssumption
      <3>4. client # NoClient => \E d \in Client : old'[d] = client
        BY <3>2
      <3>6. \A d \in Client : d # c => pc'[d] = pc[d]
        BY <3>1
      <3>7. pc'[c] \notin {"new", "found"}
        BY <3>1
      <3> QED
        <4> SUFFICES ASSUME NEW d \in Client, d # c
                     PROVE  /\ pc'[d] \in {"new", "found"} => old'[d] = NoClient
                            /\ pc'[d] \in {"evict", "connect", "read", "relay", "leave"} /\ ~Displaced(d)'
                                 => client' = d
          BY <3>1, <3>7
        <4>1. pc'[d] = pc[d] /\ old'[d] = old[d] /\ (Displaced(d) => Displaced(d)')
          BY <3>2, <3>3, <3>6
        <4>2. client = d => Displaced(d)'
          BY <3>4, RelayAssumption DEF Displaced
        <4> HIDE DEF Displaced
        <4> QED
          BY <4>1, <4>2
    <2> QED
      BY <2>2, <2>3
  <1>3. ASSUME NEW c \in Client, Evict(c) PROVE SlotInv'
    BY <1>3 DEF Evict, Goto, Tell
  <1>4. ASSUME NEW c \in Client, Connect(c) PROVE SlotInv'
    BY <1>4 DEF Connect, Goto
  <1>5. ASSUME NEW c \in Client, Check(c) PROVE SlotInv'
    <2>1. \E s \in {"relay", "leave"} : pc' = [pc EXCEPT ![c] = s]
      BY <1>5 DEF Check, Goto
    <2> QED
      BY <1>5, <2>1 DEF Check
  <1>6. ASSUME NEW c \in Client, RelayMsg(c) PROVE SlotInv'
    <2>1. \E s \in {"read", "leave"} : pc' = [pc EXCEPT ![c] = s]
      BY <1>6 DEF RelayMsg, Goto
    <2> QED
      BY <1>6, <2>1 DEF RelayMsg
  <1>7. ASSUME NEW c \in Client, ReadFails(c) PROVE SlotInv'
    BY <1>7 DEF ReadFails, Goto
  <1>8. ASSUME NEW c \in Client, Left(c) PROVE SlotInv'
    BY <1>8 DEF Left, Goto
  <1>9. ASSUME NEW c \in Client, Bye(c) PROVE SlotInv'
    BY <1>9 DEF Bye, Goto
  <1>10. ASSUME NEW c \in Client, Quit(c) PROVE SlotInv'
    BY <1>10 DEF Quit
  <1>11. CASE ReadDaemon
    BY <1>11 DEF ReadDaemon
  <1>12. CASE Deliver
    BY <1>12 DEF Deliver
  <1>13. CASE Drop
    BY <1>13 DEF Drop
  <1>14. CASE DaemonLeft
    BY <1>14 DEF DaemonLeft
  <1>15. CASE serveOnce
    BY <1>15 DEF serveOnce
  <1>16. CASE UNCHANGED vars
    BY <1>16 DEF vars
  <1> QED
    BY <1>1, <1>2, <1>3, <1>4, <1>5, <1>6, <1>7, <1>8, <1>9, <1>10,
       <1>11, <1>12, <1>13, <1>14, <1>15, <1>16 DEF Next, Run

\* Every step leaves each client where its own messages brought it.
LEMMA PhaseStep ==
  ASSUME TypeOK, WireInv, PhaseInv, [Next]_vars
  PROVE  PhaseInv'
  <1> USE DEF TypeOK, PhaseInv, reader, joins, ends, daemon
  <1>1. ASSUME NEW c \in Client, Join(c) PROVE PhaseInv'
    BY <1>1 DEF Join, Goto, Tell
  <1>2. ASSUME NEW c \in Client, Claim(c) PROVE PhaseInv'
    <2>1. /\ \E s \in {"done", "evict", "connect"} : pc' = [pc EXCEPT ![c] = s]
          /\ told' = told \/ Tell(c, "busy")
      BY <1>2 DEF Claim, Goto
    <2>2. \A d \in Client : "iceServers" \in told'[d] => "iceServers" \in told[d]
      BY <2>1 DEF Tell
    <2> QED
      BY <1>2, <2>1, <2>2 DEF Claim
  <1>3. ASSUME NEW c \in Client, Evict(c) PROVE PhaseInv'
    <2>1. told' = told \/ Tell(old[c], "taken_over")
      BY <1>3 DEF Evict
    <2>2. \A d \in Client : "iceServers" \in told'[d] => "iceServers" \in told[d]
      BY <2>1 DEF Tell
    <2> QED
      BY <1>3, <2>2 DEF Evict, Goto
  <1>4. ASSUME NEW c \in Client, Connect(c) PROVE PhaseInv'
    BY <1>4 DEF Connect, Goto
  <1>5. ASSUME NEW c \in Client, Check(c) PROVE PhaseInv'
    BY <1>5, MsgIs DEF Check, Goto, Outgoing, MsgType
  <1>6. ASSUME NEW c \in Client, RelayMsg(c) PROVE PhaseInv'
    <2>1. NoMsg.type = "error"
      BY DEF NoMsg, Msg
    <2>2. /\ \E s \in {"read", "leave"} : pc' = [pc EXCEPT ![c] = s]
          /\ hold' = [hold EXCEPT ![c] = NoMsg]
          /\ pc[c] = "relay" /\ UNCHANGED phase
      BY <1>6 DEF RelayMsg, Goto
    <2>3. \A d \in Client : d # c => told'[d] = told[d]
      BY <1>6 DEF RelayMsg, Tell
    <2> QED
      BY <2>1, <2>2, <2>3
  <1>7. ASSUME NEW c \in Client, ReadFails(c) PROVE PhaseInv'
    BY <1>7 DEF ReadFails, Goto
  <1>8. ASSUME NEW c \in Client, Left(c) PROVE PhaseInv'
    BY <1>8 DEF Left, Goto
  <1>9. ASSUME NEW c \in Client, Bye(c) PROVE PhaseInv'
    BY <1>9 DEF Bye, Goto
  <1>10. ASSUME NEW c \in Client, Quit(c) PROVE PhaseInv'
    BY <1>10 DEF Quit
  <1>11. CASE ReadDaemon
    BY <1>11 DEF ReadDaemon
  <1>12. CASE Deliver
    <2>1. got.type # "iceServers" /\ cl \in Client
      BY <1>12 DEF Deliver, WireInv, FromDaemon
    <2>2. told' = told \/ Tell(cl, got.type)
      BY <1>12 DEF Deliver
    <2>3. \A d \in Client : "iceServers" \in told'[d] => "iceServers" \in told[d]
      BY <2>1, <2>2 DEF Tell
    <2> QED
      BY <1>12, <2>3 DEF Deliver
  <1>13. CASE Drop
    BY <1>13 DEF Drop
  <1>14. CASE DaemonLeft
    <2>1. told' = told \/ (client \in Client /\ Tell(client, "peerLeft"))
      BY <1>14 DEF DaemonLeft
    <2>2. \A d \in Client : "iceServers" \in told'[d] => "iceServers" \in told[d]
      BY <2>1 DEF Tell
    <2> QED
      BY <1>14, <2>2 DEF DaemonLeft
  <1>15. CASE serveOnce
    BY <1>15 DEF serveOnce
  <1>16. CASE UNCHANGED vars
    BY <1>16 DEF vars
  <1> QED
    BY <1>1, <1>2, <1>3, <1>4, <1>5, <1>6, <1>7, <1>8, <1>9, <1>10,
       <1>11, <1>12, <1>13, <1>14, <1>15, <1>16 DEF Next, Run

\* What a client sends: its proof, and then its offer.
LEMMA Sends ==
  ASSUME NEW c \in Client, NEW m \in Outgoing(c)
  PROVE  \/ phase[c] = "waiting" /\ m = Msg("proof", c, nonce[c]) /\ m.type = "proof"
         \/ phase[c] = "proved" /\ m = Msg("offer", c, NoClient) /\ m.type = "offer"
  <1>1. Msg("proof", c, nonce[c]).type = "proof" /\ Msg("offer", c, NoClient).type = "offer"
    BY DEF Msg
  <1> QED
    BY <1>1 DEF Outgoing

\* Every step keeps the order of a client's messages.
LEMMA OrderStep ==
  ASSUME TypeOK, WireInv, JoinInv, PhaseInv, OrderInv, [Next]_vars
  PROVE  OrderInv'
  <1> USE DEF TypeOK, IsProof, IsOffer, reader, joins, ends, daemon
  <1>a. ASSUME UNCHANGED <<phase, hold, toDaemon>> PROVE OrderInv'
    <2> HIDE DEF TypeOK, IsProof, IsOffer
    <2>1. UNCHANGED Queued
      BY <1>a DEF Queued
    <2> QED
      BY <1>a, <2>1 DEF OrderInv
  <1>b. ASSUME UNCHANGED <<phase, hold>>,
               NEW m \in Messages, m.type \in {"connect", "peerLeft"}, ToDaemon(m)
        PROVE  OrderInv'
    <2>1. \A i \in Queued' : m # toDaemon'[i] => i \in Queued /\ toDaemon'[i] = toDaemon[i]
      BY <1>b, Written
    <2> QED
      BY <1>b, <2>1 DEF OrderInv
  <1>1. ASSUME NEW c \in Client, Join(c) PROVE OrderInv'
    BY <1>a, <1>1 DEF Join
  <1>2. ASSUME NEW c \in Client, Claim(c) PROVE OrderInv'
    BY <1>a, <1>2 DEF Claim
  <1>3. ASSUME NEW c \in Client, Evict(c) PROVE OrderInv'
    BY <1>a, <1>3 DEF Evict
  <1>4. ASSUME NEW c \in Client, Connect(c) PROVE OrderInv'
    <2>1. Msg("connect", c, NoClient) \in Messages /\ Msg("connect", c, NoClient).type = "connect"
      BY MsgIs DEF MsgType
    <2> QED
      BY <1>b, <1>4, <2>1 DEF Connect
  <1>5. ASSUME NEW c \in Client, Check(c) PROVE OrderInv'
    <2>1. PICK m \in Outgoing(c) :
            /\ phase' = [phase EXCEPT ![c] = IF m.type = "proof" THEN "proved" ELSE "offered"]
            /\ IF client = c THEN hold' = [hold EXCEPT ![c] = m] ELSE UNCHANGED hold
      BY <1>5 DEF Check
    <2>2. (m.type = "proof" /\ phase[c] = "waiting") \/ (m.type = "offer" /\ phase[c] = "proved")
      BY <2>1, Sends
    <2>3. UNCHANGED <<toDaemon, Queued>> /\ hold[c] = NoMsg /\ NoMsg.type = "error"
      BY <1>5 DEF Check, Queued, PhaseInv, NoMsg, Msg
    <2> QED
      BY <2>1, <2>2, <2>3 DEF OrderInv
  <1>6. ASSUME NEW c \in Client, RelayMsg(c) PROVE OrderInv'
    <2> DEFINE m == hold[c]
    <2>1. m \in Messages /\ m.from = c /\ UNCHANGED phase /\ hold' = [hold EXCEPT ![c] = NoMsg]
      BY <1>6 DEF RelayMsg, JoinInv
    <2>2. NoMsg.type = "error"
      BY DEF NoMsg, Msg
    <2>3. m.type = "proof" => phase[c] = "proved"
      BY DEF PhaseInv
    <2>4. m.type = "offer" => phase[c] = "offered"
      BY DEF PhaseInv
    <2>5. m.type \in {"proof", "offer"}
      BY <1>6 DEF RelayMsg
    <2>6. CASE UNCHANGED toDaemon
      BY <2>1, <2>2, <2>3, <2>4, <2>5, <2>6 DEF OrderInv, Queued
    <2>7. CASE ToDaemon(m)
      <3>1. \A i \in Queued' : \/ i \in Queued /\ toDaemon'[i] = toDaemon[i]
                               \/ i = Len(toDaemon) + 1 /\ toDaemon'[i] = m
        BY <2>1, <2>7, Written
      <3>2. \A i \in Queued : i \in Nat /\ i < Len(toDaemon) + 1
        BY DEF Queued
      <3>3. \A d \in Client : d # c =>
              hold'[d] = hold[d] /\ \A i \in Queued' : IsProof(toDaemon'[i], d) \/ IsOffer(toDaemon'[i], d)
                                      => i \in Queued /\ toDaemon'[i] = toDaemon[i]
        BY <2>1, <3>1
      <3>7. ASSUME NEW d \in Client, d # c
            PROVE  /\ phase[d] = "waiting" => \A i \in Queued' : ~IsProof(toDaemon'[i], d)
                   /\ phase[d] # "offered" \/ hold'[d].type = "offer" =>
                        \A i \in Queued' : ~IsOffer(toDaemon'[i], d)
                   /\ \A i, j \in Queued' :
                        IsOffer(toDaemon'[i], d) /\ IsProof(toDaemon'[j], d) => j < i
        <4> HIDE DEF m, IsProof, IsOffer, TypeOK
        <4>1. phase[d] = "waiting" => \A i \in Queued' : ~IsProof(toDaemon'[i], d)
          BY <3>3, <3>7 DEF OrderInv
        <4>2. phase[d] # "offered" \/ hold'[d].type = "offer" =>
                \A i \in Queued' : ~IsOffer(toDaemon'[i], d)
          BY <3>3, <3>7 DEF OrderInv
        <4>3. \A i, j \in Queued' : IsOffer(toDaemon'[i], d) /\ IsProof(toDaemon'[j], d) => j < i
          BY <3>3, <3>7 DEF OrderInv
        <4> QED
          BY <4>1, <4>2, <4>3
      <3>4. hold'[c].type = "error"
        BY <2>1, <2>2
      <3> HIDE DEF m
      <3>5. CASE m.type = "proof"
        <4> SUFFICES ASSUME NEW d \in Client
                     PROVE  /\ phase[d] = "waiting" => \A i \in Queued' : ~IsProof(toDaemon'[i], d)
                            /\ phase[d] # "offered" \/ hold'[d].type = "offer" =>
                                 \A i \in Queued' : ~IsOffer(toDaemon'[i], d)
                            /\ \A i, j \in Queued' :
                                 IsOffer(toDaemon'[i], d) /\ IsProof(toDaemon'[j], d) => j < i
          BY <2>1 DEF OrderInv
        <4>1. CASE d = c
          <5>1. \A i \in Queued' : ~IsOffer(toDaemon'[i], c)
            BY <2>3, <3>1, <3>5 DEF OrderInv
          <5> QED
            BY <2>3, <3>5, <4>1, <5>1
        <4>2. CASE d # c
          BY <3>7, <4>2
        <4> QED
          BY <4>1, <4>2
      <3>6. CASE m.type = "offer"
        <4>1. \A i \in Queued : ~IsOffer(toDaemon[i], c)
          BY <3>6 DEF OrderInv, m
        <4> QED
          <5> SUFFICES ASSUME NEW d \in Client
                       PROVE  /\ phase[d] = "waiting" => \A i \in Queued' : ~IsProof(toDaemon'[i], d)
                              /\ phase[d] # "offered" \/ hold'[d].type = "offer" =>
                                   \A i \in Queued' : ~IsOffer(toDaemon'[i], d)
                              /\ \A i, j \in Queued' :
                                   IsOffer(toDaemon'[i], d) /\ IsProof(toDaemon'[j], d) => j < i
            BY <2>1 DEF OrderInv
          <5>1. CASE d = c
            <6>1. \A i \in Queued' : IsProof(toDaemon'[i], c) => i \in Queued
              BY <3>1, <3>6
            <6>2. \A i \in Queued' : IsOffer(toDaemon'[i], c) => i = Len(toDaemon) + 1
              BY <3>1, <4>1
            <6> QED
              BY <2>4, <3>2, <3>4, <3>6, <5>1, <6>1, <6>2
          <5>2. CASE d # c
            BY <3>7, <5>2
          <5> QED
            BY <5>1, <5>2
      <3> QED
        BY <2>5, <3>5, <3>6 DEF m
    <2> QED
      BY <1>6, <2>6, <2>7 DEF RelayMsg
  <1>7. ASSUME NEW c \in Client, ReadFails(c) PROVE OrderInv'
    BY <1>a, <1>7 DEF ReadFails
  <1>8. ASSUME NEW c \in Client, Left(c) PROVE OrderInv'
    BY <1>a, <1>8 DEF Left
  <1>9. ASSUME NEW c \in Client, Bye(c) PROVE OrderInv'
    <2>1. Msg("peerLeft", c, NoClient) \in Messages /\ Msg("peerLeft", c, NoClient).type = "peerLeft"
      BY MsgIs DEF MsgType
    <2> QED
      BY <1>b, <1>9, <2>1 DEF Bye
  <1>10. ASSUME NEW c \in Client, Quit(c) PROVE OrderInv'
    BY <1>a, <1>10 DEF Quit
  <1>11. CASE ReadDaemon
    BY <1>a, <1>11 DEF ReadDaemon
  <1>12. CASE Deliver
    BY <1>a, <1>12 DEF Deliver
  <1>13. CASE Drop
    BY <1>13 DEF Drop, OrderInv, Queued
  <1>14. CASE DaemonLeft
    BY <1>a, <1>14 DEF DaemonLeft
  <1>15. CASE serveOnce
    <2>1. UNCHANGED <<phase, hold>> /\ toDaemon # <<>> /\ toDaemon' = Tail(toDaemon)
      BY <1>15 DEF serveOnce
    <2>2. \A i \in Queued' : i \in Int /\ i + 1 \in Queued /\ toDaemon'[i] = toDaemon[i + 1]
      BY <2>1, Taken DEF Queued
    <2> SUFFICES ASSUME NEW d \in Client
                 PROVE  /\ phase[d] = "waiting" => \A i \in Queued' : ~IsProof(toDaemon'[i], d)
                        /\ phase[d] # "offered" \/ hold[d].type = "offer" =>
                             \A i \in Queued' : ~IsOffer(toDaemon'[i], d)
                        /\ \A i, j \in Queued' :
                             IsOffer(toDaemon'[i], d) /\ IsProof(toDaemon'[j], d) => j < i
      BY <2>1 DEF OrderInv
    <2>3. ASSUME NEW i \in Queued', NEW j \in Queued', IsOffer(toDaemon'[i], d), IsProof(toDaemon'[j], d)
          PROVE  j < i
      <3>1. j + 1 < i + 1
        BY <2>2, <2>3 DEF OrderInv
      <3> QED
        BY <2>2, <3>1
    <2>4. phase[d] = "waiting" => \A i \in Queued' : ~IsProof(toDaemon'[i], d)
      BY <2>2 DEF OrderInv
    <2>5. phase[d] # "offered" \/ hold[d].type = "offer" =>
            \A i \in Queued' : ~IsOffer(toDaemon'[i], d)
      BY <2>2 DEF OrderInv
    <2> QED
      BY <2>3, <2>4, <2>5
  <1>16. CASE UNCHANGED vars
    BY <1>a, <1>16 DEF vars
  <1> QED
    BY <1>1, <1>2, <1>3, <1>4, <1>5, <1>6, <1>7, <1>8, <1>9, <1>10,
       <1>11, <1>12, <1>13, <1>14, <1>15, <1>16 DEF Next, Run

\* Every step asks the daemon at most once for a join.
LEMMA ConnectStep ==
  ASSUME TypeOK, JoinInv, PhaseInv, ConnectInv, [Next]_vars
  PROVE  ConnectInv'
  <1> USE DEF TypeOK, Early, IsConnect, reader, joins, ends, daemon
  <1>a. ASSUME UNCHANGED toDaemon, \A c \in Client : Early(c)' => Early(c) PROVE ConnectInv'
    <2> HIDE DEF TypeOK, Early
    <2>1. UNCHANGED Queued
      BY <1>a DEF Queued
    <2> QED
      BY <1>a, <2>1 DEF ConnectInv
  <1>b. ASSUME \A c \in Client : Early(c)' => Early(c),
               NEW m \in Messages, m.type # "connect", ToDaemon(m)
        PROVE  ConnectInv'
    <2>1. \A i \in Queued' : m # toDaemon'[i] => i \in Queued /\ toDaemon'[i] = toDaemon[i]
      BY <1>b, Written
    <2> QED
      BY <1>b, <2>1 DEF ConnectInv
  <1>1. ASSUME NEW c \in Client, Join(c) PROVE ConnectInv'
    BY <1>a, <1>1 DEF Join, Goto
  <1>2. ASSUME NEW c \in Client, Claim(c) PROVE ConnectInv'
    BY <1>a, <1>2 DEF Claim, Goto
  <1>3. ASSUME NEW c \in Client, Evict(c) PROVE ConnectInv'
    BY <1>a, <1>3 DEF Evict, Goto
  <1>4. ASSUME NEW c \in Client, Connect(c) PROVE ConnectInv'
    <2> DEFINE m == Msg("connect", c, NoClient)
    <2>1. m \in Messages /\ m.type = "connect" /\ m.from = c
      BY MsgIs DEF MsgType
    <2>2. pc' = [pc EXCEPT ![c] = "read"] /\ pc[c] = "connect" /\ ToDaemon(m)
      BY <1>4 DEF Connect, Goto
    <2> HIDE DEF m
    <2>3. \A i \in Queued' : \/ i \in Queued /\ toDaemon'[i] = toDaemon[i]
                             \/ i = Len(toDaemon) + 1 /\ toDaemon'[i] = m
      BY <2>1, <2>2, Written
    <2>4. \A i \in Queued : ~IsConnect(toDaemon[i], c)
      BY <2>2 DEF ConnectInv
    <2>5. \A d \in Client : Early(d)' => d # c /\ Early(d)
      BY <2>2
    <2> SUFFICES ASSUME NEW d \in Client
                 PROVE  /\ Early(d)' => \A i \in Queued' : ~IsConnect(toDaemon'[i], d)
                        /\ \A i, j \in Queued' :
                             IsConnect(toDaemon'[i], d) /\ IsConnect(toDaemon'[j], d) => i = j
      BY DEF ConnectInv
    <2>6. CASE d = c
      BY <2>1, <2>3, <2>4, <2>5, <2>6
    <2>7. CASE d # c
      BY <2>1, <2>3, <2>5, <2>7 DEF ConnectInv
    <2> QED
      BY <2>6, <2>7
  <1>5. ASSUME NEW c \in Client, Check(c) PROVE ConnectInv'
    BY <1>a, <1>5 DEF Check, Goto
  <1>6. ASSUME NEW c \in Client, RelayMsg(c) PROVE ConnectInv'
    <2>1. hold[c].type # "connect" /\ hold[c] \in Messages /\ \A d \in Client : Early(d)' => Early(d)
      BY <1>6 DEF RelayMsg, Goto, PhaseInv
    <2> QED
      BY <1>a, <1>b, <1>6, <2>1 DEF RelayMsg
  <1>7. ASSUME NEW c \in Client, ReadFails(c) PROVE ConnectInv'
    BY <1>a, <1>7 DEF ReadFails, Goto
  <1>8. ASSUME NEW c \in Client, Left(c) PROVE ConnectInv'
    BY <1>a, <1>8 DEF Left, Goto
  <1>9. ASSUME NEW c \in Client, Bye(c) PROVE ConnectInv'
    <2>1. Msg("peerLeft", c, NoClient) \in Messages /\ Msg("peerLeft", c, NoClient).type = "peerLeft"
      BY MsgIs DEF MsgType
    <2> QED
      BY <1>b, <1>9, <2>1 DEF Bye, Goto
  <1>10. ASSUME NEW c \in Client, Quit(c) PROVE ConnectInv'
    BY <1>a, <1>10 DEF Quit
  <1>11. CASE ReadDaemon
    BY <1>a, <1>11 DEF ReadDaemon
  <1>12. CASE Deliver
    BY <1>a, <1>12 DEF Deliver
  <1>13. CASE Drop
    BY <1>13 DEF Drop, ConnectInv, Queued
  <1>14. CASE DaemonLeft
    BY <1>a, <1>14 DEF DaemonLeft
  <1>15. CASE serveOnce
    <2>1. toDaemon # <<>> /\ toDaemon' = Tail(toDaemon) /\ UNCHANGED joins
      BY <1>15 DEF serveOnce
    <2>2. \A i \in Queued' : i \in Int /\ i + 1 \in Queued /\ toDaemon'[i] = toDaemon[i + 1]
      BY <2>1, Taken DEF Queued
    <2>3. ASSUME NEW c \in Client, NEW i \in Queued', NEW j \in Queued',
                 IsConnect(toDaemon'[i], c), IsConnect(toDaemon'[j], c)
          PROVE  i = j
      <3>1. i + 1 = j + 1
        BY <2>2, <2>3 DEF ConnectInv
      <3> QED
        BY <2>2, <3>1
    <2>4. \A c \in Client : Early(c)' => Early(c)
      BY <2>1
    <2> HIDE DEF TypeOK, Early, IsConnect
    <2>5. \A c \in Client : Early(c)' => \A i \in Queued' : ~IsConnect(toDaemon'[i], c)
      BY <2>2, <2>4 DEF ConnectInv
    <2> QED
      BY <2>3, <2>5 DEF ConnectInv
  <1>16. CASE UNCHANGED vars
    BY <1>a, <1>16 DEF vars
  <1> QED
    BY <1>1, <1>2, <1>3, <1>4, <1>5, <1>6, <1>7, <1>8, <1>9, <1>10,
       <1>11, <1>12, <1>13, <1>14, <1>15, <1>16 DEF Next, Run

\* No step gives away the nonce of a join the daemon was not asked for.
LEMMA NonceStep ==
  ASSUME TypeOK, WireInv, JoinInv, PhaseInv, ConnectInv, NonceInv, [Next]_vars
  PROVE  NonceInv'
  <1> USE DEF TypeOK, IsConnect, reader, joins, ends, daemon
  <1>a. ASSUME UNCHANGED <<got, nonce, hold, toDaemon, toBroker>>, \A c \in Client : Early(c)' => Early(c)
        PROVE  NonceInv'
    BY <1>a DEF NonceInv, Unasked, Queued
  <1>n. NoMsg.nonce = NoClient /\ NoClient \notin Client
    BY RelayAssumption DEF NoMsg, Msg
  <1>1. ASSUME NEW c \in Client, Join(c) PROVE NonceInv'
    BY <1>a, <1>1 DEF Join, Goto, Early
  <1>2. ASSUME NEW c \in Client, Claim(c) PROVE NonceInv'
    BY <1>a, <1>2 DEF Claim, Goto, Early
  <1>3. ASSUME NEW c \in Client, Evict(c) PROVE NonceInv'
    BY <1>a, <1>3 DEF Evict, Goto, Early
  <1>4. ASSUME NEW c \in Client, Connect(c) PROVE NonceInv'
    <2> DEFINE m == Msg("connect", c, NoClient)
    <2>1. m \in Messages /\ m.type = "connect" /\ m.from = c /\ m.nonce = NoClient
      BY MsgIs DEF MsgType, Msg
    <2>2. pc' = [pc EXCEPT ![c] = "read"] /\ pc[c] = "connect" /\ ToDaemon(m)
          /\ UNCHANGED <<got, nonce, hold, toBroker>>
      BY <1>4 DEF Connect, Goto
    <2> HIDE DEF m
    <2>3. \A i \in Queued' : \/ i \in Queued /\ toDaemon'[i] = toDaemon[i]
                             \/ i = Len(toDaemon) + 1 /\ toDaemon'[i] = m
      BY <2>1, <2>2, Written
    <2>4. \A d \in Client : Unasked(d)' => Unasked(d)
      BY <2>1, <2>2, <2>3 DEF Unasked, Early
    <2> HIDE DEF IsConnect
    <2> QED
      BY <1>n, <2>1, <2>2, <2>3, <2>4 DEF NonceInv
  <1>5. ASSUME NEW c \in Client, Check(c) PROVE NonceInv'
    <2>1. PICK m \in Outgoing(c) :
            IF client = c THEN hold' = [hold EXCEPT ![c] = m] ELSE UNCHANGED hold
      BY <1>5 DEF Check
    <2>2. m.nonce \in {nonce[c], NoClient}
      BY <2>1 DEF Outgoing, Msg
    <2>3. \A d \in Client : Unasked(d)' => Unasked(d)
      BY <1>5 DEF Check, Goto, Unasked, Early, Queued
    <2>4. UNCHANGED <<got, nonce, toDaemon, toBroker, Queued>>
      BY <1>5 DEF Check, Queued
    <2> QED
      BY <1>n, <2>1, <2>2, <2>3, <2>4 DEF NonceInv
  <1>6. ASSUME NEW c \in Client, RelayMsg(c) PROVE NonceInv'
    <2> DEFINE m == hold[c]
    <2>1. m.type \in {"proof", "offer"} /\ m \in Messages
      BY <1>6 DEF RelayMsg
    <2>2. UNCHANGED <<got, nonce, toBroker>> /\ hold' = [hold EXCEPT ![c] = NoMsg]
          /\ \A d \in Client : Early(d)' => Early(d)
      BY <1>6 DEF RelayMsg, Goto, Early
    <2>3. \A i \in Queued' : (i \in Queued /\ toDaemon'[i] = toDaemon[i]) \/ toDaemon'[i] = m
      <3>1. CASE UNCHANGED toDaemon
        BY <3>1 DEF Queued
      <3>2. CASE ToDaemon(m)
        BY <2>1, <3>2, Written
      <3> QED
        BY <1>6, <3>1, <3>2 DEF RelayMsg
    <2>4. \A d \in Client : Unasked(d)' => Unasked(d)
      BY <2>1, <2>2, <2>3 DEF Unasked
    <2> QED
      BY <1>n, <2>2, <2>3, <2>4 DEF NonceInv
  <1>7. ASSUME NEW c \in Client, ReadFails(c) PROVE NonceInv'
    BY <1>a, <1>7 DEF ReadFails, Goto, Early
  <1>8. ASSUME NEW c \in Client, Left(c) PROVE NonceInv'
    BY <1>a, <1>8 DEF Left, Goto, Early
  <1>9. ASSUME NEW c \in Client, Bye(c) PROVE NonceInv'
    <2> DEFINE m == Msg("peerLeft", c, NoClient)
    <2>1. m \in Messages /\ m.type = "peerLeft" /\ m.nonce = NoClient
      BY MsgIs DEF MsgType, Msg
    <2>2. ToDaemon(m) /\ UNCHANGED <<got, nonce, hold, toBroker>>
          /\ \A d \in Client : Early(d)' => Early(d)
      BY <1>9 DEF Bye, Goto, Early
    <2> HIDE DEF m
    <2>3. \A i \in Queued' : (i \in Queued /\ toDaemon'[i] = toDaemon[i]) \/ toDaemon'[i] = m
      BY <2>1, <2>2, Written
    <2>4. \A d \in Client : Unasked(d)' => Unasked(d)
      BY <2>1, <2>2, <2>3 DEF Unasked
    <2> QED
      BY <1>n, <2>1, <2>2, <2>3, <2>4 DEF NonceInv
  <1>10. ASSUME NEW c \in Client, Quit(c) PROVE NonceInv'
    BY <1>a, <1>10 DEF Quit, Early
  <1>11. CASE ReadDaemon
    <2>1. toBroker # <<>> /\ toBroker' = Tail(toBroker) /\ got' \in {got, Head(toBroker)}
          /\ UNCHANGED <<pc, nonce, hold, toDaemon>>
      BY <1>11 DEF ReadDaemon
    <2>2. /\ 1 \in 1..Len(toBroker) /\ Head(toBroker) = toBroker[1]
          /\ \A i \in 1..Len(toBroker') : i + 1 \in 1..Len(toBroker) /\ toBroker'[i] = toBroker[i + 1]
      BY <2>1, HeadTailProperties
    <2>3. \A d \in Client : Unasked(d)' => Unasked(d)
      BY <2>1 DEF Unasked, Early, Queued
    <2> QED
      BY <2>1, <2>2, <2>3 DEF NonceInv, Queued
  <1>12. CASE Deliver
    <2>1. cl \in Client /\ got' = NoMsg /\ UNCHANGED <<pc, hold, toDaemon, toBroker>>
      BY <1>12 DEF Deliver, WireInv
    <2>2. \A d \in Client : nonce'[d] \in {nonce[d], got.nonce}
      BY <1>12, <2>1 DEF Deliver
    <2>3. \A d \in Client : Unasked(d)' => Unasked(d)
      BY <2>1 DEF Unasked, Early, Queued
    <2> QED
      BY <1>n, <2>1, <2>2, <2>3 DEF NonceInv, Queued
  <1>13. CASE Drop
    BY <1>13 DEF Drop, NonceInv, Unasked, Early, Queued
  <1>14. CASE DaemonLeft
    BY <1>a, <1>14 DEF DaemonLeft, Early
  <1>15. CASE serveOnce
    <2> DEFINE m == Head(toDaemon)
    <2>1. toDaemon # <<>> /\ toDaemon' = Tail(toDaemon) /\ UNCHANGED <<got, joins, ends>>
      BY <1>15 DEF serveOnce
    <2>2. /\ 1 \in Queued /\ m = toDaemon[1]
          /\ \A i \in Queued' : i \in Nat \ {0} /\ i + 1 \in Queued /\ toDaemon'[i] = toDaemon[i + 1]
      BY <2>1, Taken DEF Queued
    <2>3. \A d \in Client : Unasked(d)' => Unasked(d) /\ ~IsConnect(m, d)
      <3> SUFFICES ASSUME NEW d \in Client, Unasked(d)' PROVE Unasked(d) /\ ~IsConnect(m, d)
        OBVIOUS
      <3>1. CASE Early(d)
        BY <2>2, <3>1 DEF ConnectInv, Unasked
      <3>2. CASE ~Early(d)
        <4>1. PICK i \in Queued' : IsConnect(toDaemon'[i], d)
          BY <2>1, <3>2 DEF Unasked, Early
        <4>2. i + 1 \in Queued /\ IsConnect(toDaemon[i + 1], d) /\ i + 1 # 1
          BY <2>2, <4>1
        <4> QED
          BY <2>2, <4>2 DEF ConnectInv, Unasked
      <3> QED
        BY <3>1, <3>2
    <2>4. m \in FromJoins
      BY <2>1, Queues DEF WireInv
    <2> HIDE DEF m
    <2>5. HandleConnect(m) \/ HandleProof(m) \/ HandleOffer(m) \/ HandlePeerLeft(m)
      BY <1>15 DEF serveOnce, m
    <2>6. \A i \in 1..Len(toBroker') : \/ i \in 1..Len(toBroker) /\ toBroker'[i] = toBroker[i]
                                       \/ toBroker'[i].nonce = NoClient
                                       \/ m.type = "connect" /\ toBroker'[i].nonce = m.from
      <3>1. CASE UNCHANGED toBroker
        BY <3>1
      <3>2. ASSUME NEW t, NEW n \in Client \cup {NoClient}, ToBroker(t, n),
                   n # NoClient => m.type = "connect" /\ n = m.from
            PROVE  \A i \in 1..Len(toBroker') :
                     \/ i \in 1..Len(toBroker) /\ toBroker'[i] = toBroker[i]
                     \/ toBroker'[i].nonce = NoClient
                     \/ m.type = "connect" /\ toBroker'[i].nonce = m.from
        <4>1. Msg(t, NoClient, n).nonce = n
          BY DEF Msg
        <4>2. toBroker' = Append(toBroker, Msg(t, NoClient, n))
          BY <3>2 DEF ToBroker
        <4>3. /\ Len(toBroker') = Len(toBroker) + 1 /\ toBroker'[Len(toBroker) + 1].nonce = n
              /\ \A i \in 1..Len(toBroker) : toBroker'[i] = toBroker[i]
          BY <4>1, <4>2
        <4> QED
          BY <3>2, <4>3
      <3>3. m.from \in Client
        BY <2>4 DEF FromJoins
      <3> QED
        BY <2>5, <3>1, <3>2, <3>3 DEF HandleConnect, HandleProof, HandleOffer, HandlePeerLeft
    <2> QED
      <3> SUFFICES ASSUME NEW d \in Client, Unasked(d)'
                   PROVE  /\ got.nonce # d
                          /\ \A e \in Client : nonce[e] # d /\ hold[e].nonce # d
                          /\ \A i \in Queued' : toDaemon'[i].nonce # d
                          /\ \A i \in 1..Len(toBroker') : toBroker'[i].nonce # d
        BY <2>1 DEF NonceInv
      <3>1. Unasked(d) /\ ~IsConnect(m, d)
        BY <2>3
      <3>2. /\ got.nonce # d
            /\ \A e \in Client : nonce[e] # d /\ hold[e].nonce # d
            /\ \A i \in Queued : toDaemon[i].nonce # d
            /\ \A i \in 1..Len(toBroker) : toBroker[i].nonce # d
        BY <3>1 DEF NonceInv
      <3>3. \A i \in Queued' : toDaemon'[i].nonce # d
        BY <2>2, <3>2
      <3>4. ASSUME NEW i \in 1..Len(toBroker') PROVE toBroker'[i].nonce # d
        <4>1. CASE i \in 1..Len(toBroker) /\ toBroker'[i] = toBroker[i]
          BY <3>2, <4>1
        <4>2. CASE toBroker'[i].nonce = NoClient
          BY <1>n, <4>2
        <4>3. CASE m.type = "connect" /\ toBroker'[i].nonce = m.from
          BY <3>1, <4>3
        <4> QED
          BY <2>6, <3>4, <4>1, <4>2, <4>3
      <3> QED
        BY <3>2, <3>3, <3>4
  <1>16. CASE UNCHANGED vars
    BY <1>a, <1>16 DEF vars, Early
  <1> QED
    BY <1>1, <1>2, <1>3, <1>4, <1>5, <1>6, <1>7, <1>8, <1>9, <1>10,
       <1>11, <1>12, <1>13, <1>14, <1>15, <1>16 DEF Next, Run

\* A daemon whose connection is gone stays without a client.
LEMMA GoneStep ==
  ASSUME TypeOK, WireInv, GoneInv, [Next]_vars
  PROVE  GoneInv'
  <1> USE DEF GoneInv, reader, joins, ends, daemon
  <1>1. ASSUME NEW c \in Client, Join(c) \/ Run(c) \/ Quit(c) PROVE GoneInv'
    <2>1. UNCHANGED <<serve, daemon>>
      BY <1>1 DEF Join, Run, Claim, Evict, Connect, Check, RelayMsg, ReadFails, Left, Bye, Quit
    <2>2. serve \in {"leaving", "gone"} => toDaemon' = toDaemon
      BY <1>1 DEF Join, Run, Claim, Evict, Connect, Check, RelayMsg, ReadFails, Left, Bye, Quit, ToDaemon
    <2> QED
      BY <2>1, <2>2
  <1>2. CASE ReadDaemon
    BY <1>2 DEF ReadDaemon
  <1>3. CASE Deliver
    BY <1>3 DEF Deliver
  <1>4. CASE Drop
    BY <1>4 DEF Drop, cleanup
  <1>5. CASE DaemonLeft
    BY <1>5 DEF DaemonLeft
  <1>6. CASE serveOnce
    <2> DEFINE m == Head(toDaemon)
    <2>1. toDaemon # <<>> /\ UNCHANGED serve /\ m \in FromJoins
      BY <1>6, Queues DEF serveOnce, WireInv
    <2>2. m.from # NoClient
      BY <2>1, RelayAssumption DEF FromJoins
    <2> HIDE DEF m
    <2>3. HandleConnect(m) \/ HandleProof(m) \/ HandleOffer(m) \/ HandlePeerLeft(m)
      BY <1>6 DEF serveOnce, m
    <2>4. authed' => authPub' # NoClient
      BY <2>2, <2>3 DEF HandleConnect, HandleProof, HandleOffer, HandlePeerLeft, cleanup, Verify
    <2> QED
      BY <2>1, <2>4
  <1>7. CASE UNCHANGED vars
    BY <1>7 DEF vars
  <1> QED
    BY <1>1, <1>2, <1>3, <1>4, <1>5, <1>6, <1>7 DEF Next

\* No step authenticates another key while the offer of a client is awaited.
LEMMA KeyStep ==
  ASSUME TypeOK, WireInv, JoinInv, SlotInv, PhaseInv, OrderInv, NonceInv, GoneInv, KeyInv, [Next]_vars
  PROVE  KeyInv'
  <1> USE DEF reader, joins, ends, daemon
  <1>n. NoMsg.nonce = NoClient /\ NoMsg.type = "error" /\ NoClient \notin Client
    BY RelayAssumption DEF NoMsg, Msg
  <1>a. ASSUME UNCHANGED <<reader, key, hold, phase, nonce, toDaemon, daemon>>,
               NEW c \in Client, Displaced(c) => Displaced(c)', Relaying(c)' => Relaying(c)
        PROVE  Awaited(c)' /\ Rival(c)' => ~authed' /\ Private(c)' /\ Behind(c)'
    <2>1. UNCHANGED Queued /\ (Awaited(c)' => Awaited(c)) /\ (Rival(c)' => Rival(c))
      BY <1>a DEF Queued, Awaited, Rival
    <2>2. Private(c) => Private(c)'
      BY <1>a DEF Private
    <2>3. Behind(c) => Behind(c)'
      BY <1>a, <2>1 DEF Behind
    <2> QED
      BY <1>a, <2>1, <2>2, <2>3 DEF KeyInv
  \* A join's message that neither proves nor offers changes nothing for c ...
  <1>b. ASSUME UNCHANGED <<reader, key, hold, phase, nonce, old, daemon>>,
               NEW m \in Messages, m.type \in {"connect", "peerLeft"}, ToDaemon(m),
               NEW c \in Client, Relaying(c)' => Relaying(c)
        PROVE  Awaited(c)' /\ Rival(c)' => ~authed' /\ Private(c)' /\ Behind(c)'
    <2>1. \A i \in Queued : i \in Queued' /\ toDaemon'[i] = toDaemon[i]
      BY <1>b, Written DEF TypeOK
    <2>2. \A i \in Queued' : m # toDaemon'[i] => i \in Queued /\ toDaemon'[i] = toDaemon[i]
      BY <1>b, Written DEF TypeOK
    <2>3. Displaced(c)' <=> Displaced(c)
      BY <1>b DEF Displaced
    <2>4. (Awaited(c)' => Awaited(c)) /\ (Rival(c)' => Rival(c))
      BY <1>b, <2>1, <2>2, <2>3 DEF Awaited, Rival, IsOffer, IsProof
    <2>5. Private(c) => Private(c)'
      BY <1>b DEF Private
    <2>6. Behind(c) => Behind(c)'
      BY <1>b, <2>2 DEF Behind, IsOffer
    <2> QED
      BY <1>b, <2>4, <2>5, <2>6 DEF KeyInv
  <1> SUFFICES ASSUME NEW c \in Client, Awaited(c)', Rival(c)'
               PROVE  ~authed' /\ Private(c)' /\ Behind(c)'
    BY DEF KeyInv
  <1>1. ASSUME NEW x \in Client, Join(x) PROVE ~authed' /\ Private(c)' /\ Behind(c)'
    BY <1>a, <1>1 DEF Join, Goto, Relaying, Displaced, TypeOK
  <1>2. ASSUME NEW x \in Client, Claim(x) PROVE ~authed' /\ Private(c)' /\ Behind(c)'
    <2>1. UNCHANGED <<reader, key, hold, phase, nonce, toDaemon, daemon>>
      BY <1>2 DEF Claim
    <2>2. Relaying(c)' => Relaying(c)
      BY <1>2 DEF Claim, Goto, Relaying, TypeOK
    <2>3. old[x] = NoClient /\ \A d \in Client : d # x => old'[d] = old[d]
      BY <1>2 DEF Claim, SlotInv, TypeOK
    <2>4. Displaced(c) => Displaced(c)'
      BY <1>n, <2>3 DEF Displaced
    <2> QED
      BY <1>a, <2>1, <2>2, <2>4
  <1>3. ASSUME NEW x \in Client, Evict(x) PROVE ~authed' /\ Private(c)' /\ Behind(c)'
    BY <1>a, <1>3 DEF Evict, Goto, Relaying, Displaced, TypeOK
  <1>4. ASSUME NEW x \in Client, Connect(x) PROVE ~authed' /\ Private(c)' /\ Behind(c)'
    <2> DEFINE m == Msg("connect", x, NoClient)
    <2>1. m \in Messages /\ m.type = "connect"
      BY MsgIs DEF MsgType
    <2>2. UNCHANGED <<reader, key, hold, phase, nonce, old, daemon>> /\ ToDaemon(m)
      BY <1>4 DEF Connect
    <2>3. pc' = [pc EXCEPT ![x] = "read"] /\ pc[x] = "connect"
      BY <1>4 DEF Connect, Goto
    <2> HIDE DEF m
    <2>4. CASE c = x
      <3>1. phase[x] = "waiting"
        BY <2>3 DEF PhaseInv
      <3>2. \A i \in Queued : ~IsOffer(toDaemon[i], x)
        BY <3>1 DEF OrderInv
      <3>3. \A i \in Queued' : m # toDaemon'[i] => i \in Queued /\ toDaemon'[i] = toDaemon[i]
        BY <2>1, <2>2, Written DEF TypeOK
      <3>4. \A i \in Queued' : ~IsOffer(toDaemon'[i], x)
        BY <2>1, <3>2, <3>3 DEF IsOffer
      <3> QED
        BY <2>2, <2>4, <3>1, <3>4 DEF Awaited
    <2>5. CASE c # x
      <3>1. Relaying(c)' => Relaying(c)
        BY <2>3, <2>5 DEF Relaying, TypeOK
      <3> QED
        BY <1>b, <2>1, <2>2, <3>1
    <2> QED
      BY <2>4, <2>5
  <1>5. ASSUME NEW x \in Client, Check(x) PROVE ~authed' /\ Private(c)' /\ Behind(c)'
    <2>1. PICK m \in Outgoing(x) :
            /\ phase' = [phase EXCEPT ![x] = IF m.type = "proof" THEN "proved" ELSE "offered"]
            /\ IF client = x THEN hold' = [hold EXCEPT ![x] = m] /\ Goto(x, "relay")
                             ELSE Goto(x, "leave") /\ UNCHANGED hold
      BY <1>5 DEF Check
    <2>2. /\ pc[x] = "read" /\ hold[x] = NoMsg
          /\ UNCHANGED <<reader, key, old, nonce, toDaemon, daemon, Queued>>
      BY <1>5 DEF Check, PhaseInv, Queued
    <2>3. m.nonce \in {nonce[x], NoClient}
      BY <2>1 DEF Outgoing, Msg
    <2>4. Relaying(c)' => Relaying(c)
      BY <2>1, <2>2 DEF Goto, Relaying, TypeOK
    <2>5. Displaced(c)' <=> Displaced(c)
      BY <2>2 DEF Displaced
    <2>6. Awaited(c)
      <3>1. CASE c # x
        <4>1. hold'[c] = hold[c] /\ phase'[c] = phase[c]
          BY <2>1, <3>1 DEF TypeOK
        <4> QED
          BY <2>2, <2>4, <2>5, <4>1 DEF Awaited
      <3>2. CASE c = x /\ m.type = "proof"
        <4>1. phase[c] = "waiting"
          BY <2>1, <3>2, Sends
        <4>2. \A i \in Queued : ~IsOffer(toDaemon[i], c)
          BY <4>1 DEF OrderInv
        <4>3. Relaying(c)' => hold'[c].type = "proof"
          BY <2>1, <3>2 DEF Goto, Relaying, TypeOK
        <4> QED
          BY <2>2, <4>2, <4>3 DEF Awaited
      <3>3. CASE c = x /\ m.type # "proof"
        <4>1. phase[c] = "proved"
          BY <2>1, <3>3, Sends
        <4>2. Relaying(c)
          BY <2>2, <3>3 DEF Relaying
        <4> QED
          BY <1>n, <2>2, <2>5, <3>3, <4>1, <4>2 DEF Awaited
      <3> QED
        BY <3>1, <3>2, <3>3
    <2>7. ~authed /\ Private(c) /\ Behind(c) /\ authPub # NoClient
      BY <2>2, <2>6 DEF Rival, KeyInv
    <2>8. Private(c)'
      <3>1. \A d \in Client : hold'[d].nonce \in {hold[d].nonce, nonce[d], NoClient}
        BY <2>1, <2>3 DEF TypeOK
      <3> QED
        BY <2>2, <2>4, <2>7, <3>1 DEF Private
    <2>9. Behind(c)'
      BY <2>2, <2>4, <2>7 DEF Behind
    <2> QED
      BY <2>2, <2>7, <2>8, <2>9
  <1>6. ASSUME NEW x \in Client, RelayMsg(x) PROVE ~authed' /\ Private(c)' /\ Behind(c)'
    <2> DEFINE m == hold[x]
    <2>1. /\ m \in Messages /\ m.from = x /\ m.type \in {"proof", "offer"} /\ Relaying(x)
          /\ hold' = [hold EXCEPT ![x] = NoMsg]
          /\ UNCHANGED <<reader, key, old, phase, nonce, daemon>>
      BY <1>6 DEF RelayMsg, JoinInv, Relaying, TypeOK
    <2>2. \E s \in {"read", "leave"} : pc' = [pc EXCEPT ![x] = s]
      BY <1>6 DEF RelayMsg, Goto
    <2>3. Relaying(c)' => Relaying(c)
      BY <2>1, <2>2 DEF Relaying, TypeOK
    <2>4. Displaced(c)' <=> Displaced(c)
      BY <2>1 DEF Displaced
    <2>5. \/ ToDaemon(m)
          \/ UNCHANGED toDaemon /\ m.type = "proof" /\ pc' = [pc EXCEPT ![x] = "leave"]
      BY <1>6 DEF RelayMsg, Goto
    <2>6. authPub # NoClient /\ serve \in {"read", "deliver"}
      BY <2>1 DEF Rival, GoneInv, TypeOK
    <2>7. m.type = "proof" => phase[x] = "proved"
      BY DEF PhaseInv, TypeOK
    <2>8. m.type = "offer" => phase[x] = "offered"
      BY DEF PhaseInv, TypeOK
    <2> HIDE DEF m
    <2>9. /\ \A i \in Queued : i \in Queued' /\ toDaemon'[i] = toDaemon[i]
          /\ \A i \in Queued' : \/ i \in Queued /\ toDaemon'[i] = toDaemon[i]
                                \/ i = Len(toDaemon) + 1 /\ toDaemon'[i] = m
          /\ ToDaemon(m) => Len(toDaemon) + 1 \in Queued' /\ toDaemon'[Len(toDaemon) + 1] = m
      <3>1. CASE ToDaemon(m)
        BY <2>1, <2>6, <3>1, Written DEF TypeOK
      <3>2. CASE ~ToDaemon(m)
        BY <2>5, <3>2 DEF Queued
      <3> QED
        BY <3>1, <3>2
    <2>10. m.type = "proof" => c # x
      <3> SUFFICES ASSUME m.type = "proof", c = x PROVE FALSE
        OBVIOUS
      <3>1. \A i \in Queued : ~IsOffer(toDaemon[i], c)
        BY <2>7 DEF OrderInv
      <3>2. \A i \in Queued' : ~IsOffer(toDaemon'[i], c)
        BY <2>9, <3>1 DEF IsOffer
      <3>3. CASE ToDaemon(m)
        BY <2>1, <2>9, <3>3 DEF Awaited, IsProof
      <3>4. CASE pc' = [pc EXCEPT ![x] = "leave"]
        BY <3>2, <3>4 DEF Awaited, Relaying, TypeOK
      <3> QED
        BY <2>5, <3>3, <3>4
    <2>11. \A i \in Queued : ~IsProof(toDaemon[i], c)
      BY <2>9 DEF Awaited
    <2>12. Awaited(c)
      <3>1. CASE c # x
        <4>1. hold'[c] = hold[c] /\ phase'[c] = phase[c]
          BY <2>1, <3>1 DEF TypeOK
        <4>2. \A i \in Queued' : IsOffer(toDaemon'[i], c) => i \in Queued /\ IsOffer(toDaemon[i], c)
          BY <2>1, <2>9, <3>1 DEF IsOffer
        <4> QED
          BY <2>3, <2>4, <2>11, <4>1, <4>2 DEF Awaited
      <3>2. CASE c = x
        BY <2>1, <2>4, <2>8, <2>10, <2>11, <3>2 DEF Awaited, m
      <3> QED
        BY <3>1, <3>2
    <2>13. ~authed /\ Private(c) /\ Behind(c)
      BY <2>1, <2>12 DEF Rival, KeyInv
    <2>14. Private(c)'
      <3>1. \A d \in Client : hold'[d].nonce \in {hold[d].nonce, NoClient}
        BY <1>n, <2>1 DEF TypeOK
      <3> QED
        BY <2>1, <2>3, <2>6, <2>13, <3>1 DEF Private
    <2>15. Behind(c)'
      <3> SUFFICES ASSUME NEW j \in Queued', toDaemon'[j].type = "proof",
                          toDaemon'[j].nonce = authPub, toDaemon'[j].from # c
                   PROVE  /\ ~Relaying(c)'
                          /\ \A i \in Queued' : IsOffer(toDaemon'[i], c) => i < j
        BY <2>1 DEF Behind
      <3>1. CASE j \in Queued /\ toDaemon'[j] = toDaemon[j]
        <4>1. ~Relaying(c) /\ \A i \in Queued : IsOffer(toDaemon[i], c) => i < j
          BY <2>13, <3>1 DEF Behind
        <4>2. c # x
          BY <2>1, <4>1
        <4>3. \A i \in Queued' : IsOffer(toDaemon'[i], c) => i \in Queued /\ IsOffer(toDaemon[i], c)
          BY <2>1, <2>9, <4>2 DEF IsOffer
        <4> QED
          BY <2>3, <4>1, <4>3
      <3>2. CASE j = Len(toDaemon) + 1 /\ toDaemon'[j] = m
        <4>1. ~Relaying(c)
          BY <2>1, <2>13, <3>2 DEF Private, m
        <4>2. \A i \in Queued' : IsOffer(toDaemon'[i], c) => i \in Queued
          BY <2>9, <3>2 DEF IsOffer
        <4> QED
          BY <2>3, <3>2, <4>1, <4>2 DEF Queued, TypeOK
      <3> QED
        BY <2>9, <3>1, <3>2
    <2> QED
      BY <2>1, <2>13, <2>14, <2>15
  <1>7. ASSUME NEW x \in Client, ReadFails(x) PROVE ~authed' /\ Private(c)' /\ Behind(c)'
    BY <1>a, <1>7 DEF ReadFails, Goto, Relaying, Displaced, TypeOK
  <1>8. ASSUME NEW x \in Client, Left(x) PROVE ~authed' /\ Private(c)' /\ Behind(c)'
    BY <1>a, <1>8 DEF Left, Goto, Relaying, Displaced, TypeOK
  <1>9. ASSUME NEW x \in Client, Bye(x) PROVE ~authed' /\ Private(c)' /\ Behind(c)'
    <2>1. Msg("peerLeft", x, NoClient) \in Messages /\ Msg("peerLeft", x, NoClient).type = "peerLeft"
      BY MsgIs DEF MsgType
    <2>2. Relaying(c)' => Relaying(c)
      BY <1>9 DEF Bye, Goto, Relaying, TypeOK
    <2> QED
      BY <1>b, <1>9, <2>1, <2>2 DEF Bye
  <1>10. ASSUME NEW x \in Client, Quit(x) PROVE ~authed' /\ Private(c)' /\ Behind(c)'
    BY <1>a, <1>10 DEF Quit, Relaying, Displaced
  <1>11. CASE ReadDaemon
    <2>1. UNCHANGED <<client, joins, ends, toDaemon, daemon, Queued>>
      BY <1>11 DEF ReadDaemon, Queued
    <2>2. (Displaced(c)' <=> Displaced(c)) /\ (Relaying(c)' <=> Relaying(c))
      BY <2>1 DEF Displaced, Relaying
    <2>3. Awaited(c)
      BY <2>1, <2>2 DEF Awaited
    <2>4. ~authed /\ Private(c) /\ Behind(c)
      BY <2>1, <2>3 DEF Rival, KeyInv
    <2>5. Relaying(c) => client = c
      BY <2>3 DEF Awaited, SlotInv, Relaying
    <2>6. Private(c)'
      BY <1>11, <2>1, <2>2, <2>4, <2>5 DEF Private, ReadDaemon
    <2>7. Behind(c)'
      BY <2>1, <2>2, <2>4 DEF Behind
    <2> QED
      BY <2>1, <2>4, <2>6, <2>7
  <1>12. CASE Deliver
    <2>1. UNCHANGED <<client, joins, phase, toDaemon, daemon, Queued>> /\ serve = "deliver" /\ serve' = "read"
      BY <1>12 DEF Deliver, Queued
    <2>2. (Displaced(c)' <=> Displaced(c)) /\ (Relaying(c)' <=> Relaying(c))
      BY <2>1 DEF Displaced, Relaying
    <2>3. Awaited(c)
      BY <2>1, <2>2 DEF Awaited
    <2>4. ~authed /\ Private(c) /\ Behind(c)
      BY <2>1, <2>3 DEF Rival, KeyInv
    <2>5. \A d \in Client : nonce'[d] = nonce[d] \/ (d = cl /\ nonce'[d] = got.nonce)
      <3>1. nonce \in [Client -> Client \cup {NoClient}]
        BY DEF TypeOK
      <3>2. \/ UNCHANGED nonce
            \/ \E v \in {got.nonce, nonce[cl]} : nonce' = [nonce EXCEPT ![cl] = v]
        BY <1>12 DEF Deliver
      <3>3. ASSUME NEW v \in {got.nonce, nonce[cl]}, nonce' = [nonce EXCEPT ![cl] = v], NEW d \in Client
            PROVE  nonce'[d] = nonce[d] \/ (d = cl /\ nonce'[d] = got.nonce)
        BY <3>1, <3>3
      <3> QED
        BY <3>2, <3>3
    <2>6. Private(c)'
      BY <2>1, <2>2, <2>4, <2>5 DEF Private
    <2>7. Behind(c)'
      BY <2>1, <2>2, <2>4 DEF Behind
    <2> QED
      BY <2>1, <2>4, <2>6, <2>7
  <1>13. CASE Drop
    BY <1>13 DEF Drop, cleanup, Rival
  <1>14. CASE DaemonLeft
    <2>1. serve = "leaving" /\ UNCHANGED daemon
      BY <1>14 DEF DaemonLeft
    <2> QED
      BY <2>1 DEF GoneInv, Rival
  <1>15. CASE serveOnce
    <2> DEFINE m == Head(toDaemon)
    <2>1. toDaemon # <<>> /\ toDaemon' = Tail(toDaemon) /\ UNCHANGED <<reader, client, joins, ends>>
      BY <1>15 DEF serveOnce
    <2>2. /\ 1 \in Queued /\ m = toDaemon[1]
          /\ \A i \in Queued' : i \in Int /\ i + 1 \in Queued /\ toDaemon'[i] = toDaemon[i + 1]
          /\ \A i \in Queued : i # 1 => i - 1 \in Queued' /\ toDaemon'[i - 1] = toDaemon[i]
      BY <2>1, Taken DEF Queued, TypeOK
    <2>3. m.from \in Client
      BY <2>1, Queues DEF WireInv, FromJoins
    <2>4. (Displaced(c)' <=> Displaced(c)) /\ (Relaying(c)' <=> Relaying(c))
      BY <2>1 DEF Displaced, Relaying
    <2> HIDE DEF m
    <2>5. HandleConnect(m) \/ HandleProof(m) \/ HandleOffer(m) \/ HandlePeerLeft(m)
      BY <1>15 DEF serveOnce, m
    <2>6. ~IsProof(m, c) => Awaited(c)
      BY <2>1, <2>2, <2>4 DEF Awaited
    <2>7. authPub' # NoClient
      BY DEF Rival
    <2>8. CASE HandleConnect(m)
      <3>1. m.type = "connect" /\ authPub' = m.from /\ authed' = FALSE
        BY <2>7, <2>8 DEF HandleConnect
      <3>2. Unasked(m.from)
        BY <2>2, <3>1 DEF Unasked, IsConnect
      <3>3. /\ got.nonce # m.from
            /\ \A d \in Client : nonce[d] # m.from /\ hold[d].nonce # m.from
            /\ \A i \in Queued : toDaemon[i].nonce # m.from
        BY <2>3, <3>2 DEF NonceInv
      <3>4. Private(c)'
        BY <2>1, <3>1, <3>3 DEF Private
      <3>5. Behind(c)'
        BY <2>2, <3>1, <3>3 DEF Behind
      <3> QED
        BY <3>1, <3>4, <3>5
    <2>9. CASE HandleProof(m)
      <3>1. m.type = "proof" /\ Verify(m) /\ authPub' = authPub
        BY <2>7, <2>9 DEF HandleProof, cleanup
      <3>2. m.from # c /\ Rival(c)
        BY <2>1, <3>1 DEF Verify, Rival
      <3>3. Awaited(c)
        BY <2>6, <3>2 DEF IsProof
      <3>4. Behind(c)
        BY <3>2, <3>3 DEF KeyInv
      <3>5. ~Relaying(c) /\ \A i \in Queued : IsOffer(toDaemon[i], c) => i < 1
        BY <2>2, <3>1, <3>2, <3>4 DEF Behind, Verify
      <3> QED
        BY <3>3, <3>5 DEF Awaited, Queued
    <2>10. CASE HandleOffer(m)
      <3>1. m.type = "offer" /\ authPub' = authPub /\ authed' = authed
        BY <2>7, <2>10 DEF HandleOffer, cleanup
      <3>2. Awaited(c) /\ Rival(c)
        BY <2>1, <2>6, <3>1 DEF IsProof, Rival
      <3>3. ~authed /\ Private(c) /\ Behind(c)
        BY <3>2 DEF KeyInv
      <3>4. Private(c)'
        BY <2>1, <2>4, <3>1, <3>3 DEF Private
      <3>5. Behind(c)'
        <4> SUFFICES ASSUME NEW j \in Queued', toDaemon'[j].type = "proof",
                            toDaemon'[j].nonce = authPub, toDaemon'[j].from # c
                     PROVE  /\ ~Relaying(c)
                            /\ \A i \in Queued' : IsOffer(toDaemon'[i], c) => i < j
          BY <2>4, <3>1 DEF Behind
        <4>1. ~Relaying(c) /\ \A i \in Queued : IsOffer(toDaemon[i], c) => i < j + 1
          BY <2>2, <3>3 DEF Behind
        <4>2. \A i \in Queued' : IsOffer(toDaemon'[i], c) => i + 1 < j + 1
          BY <2>2, <4>1
        <4> QED
          BY <2>2, <4>1, <4>2
      <3> QED
        BY <3>1, <3>3, <3>4, <3>5
    <2>11. CASE HandlePeerLeft(m)
      BY <2>7, <2>11 DEF HandlePeerLeft, cleanup
    <2> QED
      BY <2>5, <2>8, <2>9, <2>10, <2>11
  <1>16. CASE UNCHANGED vars
    BY <1>a, <1>16 DEF vars, Displaced, Relaying
  <1> QED
    BY <1>1, <1>2, <1>3, <1>4, <1>5, <1>6, <1>7, <1>8, <1>9, <1>10,
       <1>11, <1>12, <1>13, <1>14, <1>15, <1>16 DEF Next, Run

\* The daemon answers no offer for a client it did not authenticate.
LEMMA SessionStep ==
  ASSUME TypeOK, WireInv, SlotInv, OrderInv, GoneInv, KeyInv, SessionIsAuthenticated, [Next]_vars
  PROVE  SessionIsAuthenticated'
  <1> USE DEF reader, joins, ends, daemon
  <1>a. ASSUME UNCHANGED <<key, daemon>>, \A c \in Client : Displaced(c) => Displaced(c)'
        PROVE  SessionIsAuthenticated'
    BY <1>a DEF SessionIsAuthenticated, Displaced, TypeOK
  <1>1. ASSUME NEW c \in Client, Claim(c) PROVE SessionIsAuthenticated'
    <2>1. old[c] = NoClient /\ \A d \in Client : d # c => old'[d] = old[d]
      BY <1>1 DEF Claim, SlotInv, TypeOK
    <2>2. UNCHANGED <<key, daemon>>
      BY <1>1 DEF Claim
    <2> QED
      BY <1>a, <2>1, <2>2, RelayAssumption DEF Displaced
  <1>2. ASSUME NEW c \in Client, Join(c) \/ (Run(c) /\ ~Claim(c)) \/ Quit(c) PROVE SessionIsAuthenticated'
    <2>1. UNCHANGED <<old, key, daemon>>
      BY <1>2 DEF Join, Run, Evict, Connect, Check, RelayMsg, ReadFails, Left, Bye, Quit
    <2> QED
      BY <1>a, <2>1 DEF Displaced
  <1>3. CASE ReadDaemon \/ Deliver \/ DaemonLeft \/ UNCHANGED vars
    <2>1. UNCHANGED <<old, key, daemon>>
      BY <1>3 DEF ReadDaemon, Deliver, DaemonLeft, vars
    <2> QED
      BY <1>a, <2>1 DEF Displaced
  <1>4. CASE Drop
    BY <1>4 DEF Drop, cleanup, SessionIsAuthenticated
  <1>5. CASE serveOnce
    <2> DEFINE m == Head(toDaemon)
    <2>1. toDaemon # <<>> /\ UNCHANGED joins
      BY <1>5 DEF serveOnce
    <2>2. 1 \in Queued /\ m = toDaemon[1] /\ m.from \in Client
      BY <2>1, Queues DEF WireInv, FromJoins, Queued, TypeOK
    <2> HIDE DEF m
    <2>3. CASE HandleConnect(m)
      BY <2>3 DEF HandleConnect, SessionIsAuthenticated
    <2>4. CASE HandleProof(m)
      BY <2>1, <2>4 DEF HandleProof, cleanup, SessionIsAuthenticated
    <2>5. CASE HandleOffer(m)
      <3>1. CASE UNCHANGED daemon
        BY <1>a, <2>1, <3>1 DEF Displaced
      <3>2. CASE cleanup
        BY <3>2 DEF cleanup, SessionIsAuthenticated
      <3>3. CASE authed /\ sess' = m.from /\ UNCHANGED <<authPub, authed>>
        <4>1. \A j \in Queued : ~IsProof(toDaemon[j], m.from)
          <5>1. IsOffer(toDaemon[1], m.from)
            BY <2>2, <2>5 DEF HandleOffer, IsOffer
          <5> QED
            BY <2>2, <5>1 DEF OrderInv, Queued
        <4>2. Displaced(m.from) \/ Awaited(m.from)
          BY <2>2, <2>5, <4>1 DEF Awaited, HandleOffer, IsOffer
        <4>3. ~Rival(m.from) \/ Displaced(m.from)
          BY <2>2, <3>3, <4>2 DEF KeyInv
        <4> QED
          BY <2>1, <3>3, <4>3 DEF SessionIsAuthenticated, Rival, Displaced, GoneInv
      <3> QED
        BY <2>5, <3>1, <3>2, <3>3 DEF HandleOffer
    <2>6. CASE HandlePeerLeft(m)
      BY <2>6 DEF HandlePeerLeft, cleanup, SessionIsAuthenticated
    <2> QED
      BY <1>5, <2>3, <2>4, <2>5, <2>6 DEF serveOnce, m
  <1> QED
    BY <1>1, <1>2, <1>3, <1>4, <1>5 DEF Next, Run

\* The invariant is inductive.
LEMMA Inductive == Spec => []IInv
  <1>1. IInv /\ [Next]_vars => IInv'
    BY TypeStep, WireStep, JoinStep, AbsentStep, SlotStep, PhaseStep, OrderStep,
       ConnectStep, NonceStep, GoneStep, KeyStep, SessionStep DEF IInv
  <1> QED
    BY <1>1, InitIInv, PTL DEF Spec
-----------------------------------------------------------------------------
\* Every variable has its type.
THEOREM TypeCorrect == Spec => []TypeOK
  <1>1. IInv => TypeOK
    BY DEF IInv
  <1> QED
    BY <1>1, Inductive, PTL

\* A join that was told that the daemon is busy or offline never reaches it, at
\* once or later (broker.go:219-262).
THEOREM RefusedStaysOut == Spec => []RefusedNeverReaches
  <1>1. IInv => RefusedNeverReaches
    <2> SUFFICES ASSUME IInv, NEW c \in Client, Refused(c)
                 PROVE  /\ client # c /\ authPub # c
                        /\ \A i \in 1..Len(toDaemon) : toDaemon[i].from # c
      BY DEF RefusedNeverReaches, Refused
    <2>1. client # c /\ authPub # c /\ toDaemon \in Seq(NotOf(c))
      BY DEF IInv, AbsentInv
    <2>2. \A i \in 1..Len(toDaemon) : toDaemon[i] \in NotOf(c)
      BY <2>1, ElementOfSeq
    <2> QED
      BY <2>1, <2>2 DEF NotOf
  <1> QED
    BY <1>1, Inductive, PTL

\* The session the daemon answers belongs to the client it authenticated, or to
\* one that was displaced while its offer was on its way (remote.go:200-268,
\* broker.go:219-311).
THEOREM SessionsAuthenticated == Spec => []SessionIsAuthenticated
  <1>1. IInv => SessionIsAuthenticated
    BY DEF IInv
  <1> QED
    BY <1>1, Inductive, PTL
=============================================================================
