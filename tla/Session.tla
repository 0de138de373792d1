------------------------------- MODULE Session ------------------------------
(***************************************************************************)
(* The daemon's peers: ServeSignal and the loop of serveOnce               *)
(* (internal/server/remote.go) that makes a session of each offer, the     *)
(* WebRTC session it makes (internal/server/rtc.go, internal/rtc/peer.go)  *)
(* with ICE candidates trickling both ways, and the callbacks pion runs on *)
(* goroutines of its own.                                                  *)
(*                                                                         *)
(* The loop handles one message at a time, and what it reads was relayed   *)
(* by the broker from whichever client is current there, so messages come  *)
(* in any order.  Who may pass the key challenge is Pairing's matter: here *)
(* a join or a proof is accepted or refused.  A candidate is the number of *)
(* the handshake its client was in, and its place in that.                 *)
(***************************************************************************)
EXTENDS Naturals, SequencesExt

CONSTANTS
  MaxJoins,     \* bound: joins the daemon sees
  MaxSess,      \* bound: offers it makes a session of
  MaxTrickle,   \* bound: candidates a client sends in one handshake
  MaxEarly      \* maxEarlyCands and maxPendingCands, which are the same

ASSUME SessionAssumption ==
  /\ MaxJoins \in Nat /\ MaxSess \in Nat /\ MaxTrickle \in Nat
  /\ MaxEarly \in Nat \ {0}

VARIABLES
  up,         \* connected to the broker
  join,       \* history: the number of the last join
  peer,       \* authPub: the join under way, or NoJoin
  authed, trickle,
  early,      \* earlyCands
  sess,       \* the current session, or NoSess
  answering,  \* whether the loop is in Answer
  pending,    \* the candidates that session's Answer will apply
  heard,      \* history: candidates of this handshake, and those before its offer
  made,       \* history: how many sessions were made
  shake,      \* history: per session, the join it was made in
  pc,         \* per session: its peer connection
  fire,       \* per session: closeOnce, the callback not due, due or done
  off,        \* per session: its ctx is cancelled
  feed,       \* per session: a device is attached
  applied,    \* per session: candidates handed to pion
  gather,     \* per session: pion's goroutine that reports local candidates
  stray       \* history: per session, candidates sent to another handshake, up to 2

hand   == <<join, peer, authed, trickle, early, heard>>
cur    == <<sess, answering, pending>>
peers  == <<made, shake, pc, fire, off, feed, applied, gather, stray>>
sessionVars == <<up, hand, cur, peers>>

NoJoin == 0
NoSess == 0
Sess   == 1..MaxSess
Cands  == (1..MaxJoins) \X (1..MaxTrickle)

\* Every variable has its type, and no buffer outgrows its cap.
SessionTypeOK ==
  /\ up \in BOOLEAN
  /\ join \in 0..MaxJoins /\ peer \in 0..join
  /\ authed \in BOOLEAN /\ trickle \in BOOLEAN
  /\ early \in Seq(Cands) /\ Len(early) =< MaxEarly
  /\ sess \in Sess \cup {NoSess}
  /\ answering \in BOOLEAN
  /\ pending \in Seq(Cands) /\ Len(pending) =< MaxEarly
  /\ heard \in [all : 0..MaxTrickle, before : 0..MaxTrickle]
  /\ made \in 0..MaxSess
  /\ shake \in [Sess -> 0..MaxJoins]
  /\ pc \in [Sess -> {"none", "new", "open", "gone", "closed"}]
  /\ fire \in [Sess -> {"no", "due", "done"}]
  /\ off \in [Sess -> BOOLEAN]
  /\ feed \in [Sess -> BOOLEAN]
  /\ applied \in [Sess -> Seq(Cands)]
  /\ gather \in [Sess -> {"silent", "on", "checked"}]
  /\ stray \in [Sess -> 0..2]

SessionInit ==
  /\ up = FALSE
  /\ join = 0 /\ peer = NoJoin /\ authed = FALSE /\ trickle = FALSE
  /\ early = <<>> /\ heard = [all |-> 0, before |-> 0]
  /\ sess = NoSess /\ answering = FALSE /\ pending = <<>>
  /\ made = 0
  /\ shake = [s \in Sess |-> NoJoin]
  /\ pc = [s \in Sess |-> "none"]
  /\ fire = [s \in Sess |-> "no"]
  /\ off = [s \in Sess |-> FALSE]
  /\ feed = [s \in Sess |-> FALSE]
  /\ applied = [s \in Sess |-> <<>>]
  /\ gather = [s \in Sess |-> "silent"]
  /\ stray = [s \in Sess |-> 0]
-----------------------------------------------------------------------------
(* The loop of serveOnce. *)

Reads == up /\ ~answering

Due(s) == fire' = [fire EXCEPT ![s] = IF @ = "no" THEN "due" ELSE @]

\* Mutant of stop: the session is left to its own end.
stopMutant == UNCHANGED <<off, feed, pc, fire>>

\* The session is cancelled, its feed stopped and its peer closed.
stop ==
  IF sess = NoSess THEN UNCHANGED <<off, feed, pc, fire>>
  ELSE /\ off' = [off EXCEPT ![sess] = TRUE]
       /\ feed' = [feed EXCEPT ![sess] = FALSE]
       /\ pc' = [pc EXCEPT ![sess] = "closed"]
       /\ Due(sess)

\* Mutant of forget: the buffered candidates stay.
forgetMutant ==
  /\ sess' = NoSess /\ answering' = FALSE /\ pending' = <<>>
  /\ authed' = FALSE /\ trickle' = FALSE /\ UNCHANGED early
  /\ heard' = [all |-> 0, before |-> 0]

forget ==
  /\ sess' = NoSess /\ answering' = FALSE /\ pending' = <<>>
  /\ authed' = FALSE /\ trickle' = FALSE /\ early' = <<>>
  /\ heard' = [all |-> 0, before |-> 0]

cleanup == stop /\ forget /\ UNCHANGED <<made, shake, applied, gather, stray>>

\* A join, challenged or refused: either way the client before it is dropped.
Join ==
  /\ Reads /\ join < MaxJoins
  /\ cleanup
  /\ join' = join + 1
  /\ peer' \in {join + 1, NoJoin}
  /\ UNCHANGED up

ICEServers ==
  /\ Reads
  /\ trickle' \in BOOLEAN
  /\ UNCHANGED <<up, join, peer, authed, early, heard, cur, peers>>

\* The proof is right, and the key pinned if it enrolls ...
Proof ==
  /\ Reads /\ peer # NoJoin
  /\ authed' = TRUE
  /\ UNCHANGED <<up, join, peer, trickle, early, heard, cur, peers>>

\* ... or not, or the client left: no client is current.
Dropped ==
  /\ Reads
  /\ cleanup
  /\ peer' = NoJoin
  /\ UNCHANGED <<up, join>>

\* startSession and the callbacks.  The candidates that came early wait for
\* Answer; a session the handshake already had is overwritten.
Offer ==
  /\ Reads /\ authed /\ made < MaxSess
  /\ LET s == made + 1 IN
       /\ made' = s /\ sess' = s
       /\ shake' = [shake EXCEPT ![s] = peer]
       /\ pc' = [pc EXCEPT ![s] = "new"]
       /\ gather' = [gather EXCEPT ![s] = IF trickle THEN "on" ELSE "silent"]
  /\ pending' = early
  /\ early' = <<>>
  /\ answering' = TRUE
  /\ UNCHANGED <<up, join, peer, authed, trickle, heard, fire, off, feed, applied, stray>>

\* Answer has applied the offer and then the candidates.  Without trickle it
\* waits for all local candidates, with the loop.
Answer ==
  /\ answering
  /\ applied' = [applied EXCEPT ![sess] = @ \o pending]
  /\ pending' = <<>>
  /\ answering' = FALSE
  /\ UNCHANGED <<up, hand, sess, made, shake, pc, fire, off, feed, gather, stray>>

AnswerFails ==
  /\ answering
  /\ cleanup
  /\ peer' = NoJoin
  /\ UNCHANGED <<up, join>>

\* Mutant of Hold: the buffer has no cap.
HoldMutant(c) == Append(early, c)

\* early with candidate c, up to the cap.
Hold(c) == IF Len(early) < MaxEarly THEN Append(early, c) ELSE early

\* A candidate of a client that is authenticated, for its session or, up to
\* the cap, for the one its offer is about to make.
Candidate ==
  /\ Reads /\ authed /\ trickle
  /\ heard.all < MaxTrickle
  /\ heard' = [all    |-> heard.all + 1,
               before |-> IF sess = NoSess THEN heard.all + 1 ELSE heard.before]
  /\ LET c == <<peer, heard.all + 1>> IN
       IF sess # NoSess
         THEN applied' = [applied EXCEPT ![sess] = Append(@, c)] /\ UNCHANGED early
         ELSE early' = Hold(c) /\ UNCHANGED applied
  /\ UNCHANGED <<up, join, peer, authed, trickle, cur, made, shake, pc, fire, off, feed, gather, stray>>
-----------------------------------------------------------------------------
(* ServeSignal, which waits and dials again for ever. *)

Dial ==
  /\ ~up
  /\ up' = TRUE
  /\ UNCHANGED <<hand, cur, peers>>

\* The connection is lost, and with it the session made over it.
Lost ==
  /\ Reads
  /\ up' = FALSE
  /\ cleanup
  /\ peer' = NoJoin
  /\ UNCHANGED join
-----------------------------------------------------------------------------
(* pion's goroutines, for session s. *)

\* The peers connect: data channels open.
Connected(s) ==
  /\ pc[s] = "new" /\ ~(answering /\ sess = s)
  /\ pc' = [pc EXCEPT ![s] = "open"]
  /\ UNCHANGED <<up, hand, cur, made, shake, fire, off, feed, applied, gather, stray>>

\* The session layer attaches a device (Attach).
FeedOn(s) ==
  /\ pc[s] = "open" /\ ~off[s]
  /\ feed' = [feed EXCEPT ![s] = TRUE]
  /\ UNCHANGED <<up, hand, cur, made, shake, pc, fire, off, applied, gather, stray>>

\* The peer fails, or ICE hears nothing of it any more.
PeerGone(s) ==
  /\ pc[s] \in {"new", "open"}
  /\ pc' = [pc EXCEPT ![s] = "gone"]
  /\ Due(s)
  /\ UNCHANGED <<up, hand, cur, made, shake, off, feed, applied, gather, stray>>

\* ICE hears of it again; what the callback does to the session stays done.
PeerBack(s) ==
  /\ pc[s] = "gone"
  /\ pc' = [pc EXCEPT ![s] = "open"]
  /\ UNCHANGED <<up, hand, cur, made, shake, fire, off, feed, applied, gather, stray>>

\* fireClose, once, on a goroutine of pion's.
OnClose(s) ==
  /\ fire[s] = "due"
  /\ fire' = [fire EXCEPT ![s] = "done"]
  /\ off' = [off EXCEPT ![s] = TRUE]
  /\ feed' = [feed EXCEPT ![s] = FALSE]
  /\ UNCHANGED <<up, hand, cur, made, shake, pc, applied, gather, stray>>

\* Mutant of Gathered: a dead session is not kept quiet.
GatheredMutant(s) ==
  /\ gather[s] = "on"
  /\ gather' = [gather EXCEPT ![s] = "checked"]
  /\ UNCHANGED <<up, hand, cur, made, shake, pc, fire, off, feed, applied, stray>>

\* A local candidate was found; the callback looks whether s was cancelled ...
Gathered(s) ==
  /\ gather[s] = "on" /\ ~off[s]
  /\ gather' = [gather EXCEPT ![s] = "checked"]
  /\ UNCHANGED <<up, hand, cur, made, shake, pc, fire, off, feed, applied, stray>>

\* ... and sends it, by when the broker may hand it to another client.
Trickled(s) ==
  /\ gather[s] = "checked"
  /\ gather' = [gather EXCEPT ![s] = "on"]
  /\ stray' = [stray EXCEPT ![s] = IF shake[s] # join THEN Min({@ + 1, 2}) ELSE @]
  /\ UNCHANGED <<up, hand, cur, made, shake, pc, fire, off, feed, applied>>

SessionNext ==
  \/ Join \/ ICEServers \/ Proof \/ Dropped \/ Offer \/ Answer \/ AnswerFails \/ Candidate
  \/ Dial \/ Lost
  \/ \E s \in Sess : \/ Connected(s) \/ FeedOn(s) \/ PeerGone(s) \/ PeerBack(s)
                     \/ OnClose(s) \/ Gathered(s) \/ Trickled(s)

SessionSpec == SessionInit /\ [][SessionNext]_sessionVars
-----------------------------------------------------------------------------
\* Session s was overwritten by another offer of its handshake.
Reoffered(s) == \E t \in Sess : t > s /\ shake[t] = shake[s]

\* A session that is not cancelled, stopped and closed is the current one: no join,
\* refusal, failed answer or lost connection leaves one behind.  Only a second
\* offer in one handshake does (remote.go:177-192, 277).
NoSessionForgotten ==
  \A s \in 1..made : s # sess /\ ~Reoffered(s) => off[s] /\ ~feed[s] /\ pc[s] = "closed"

\* pion gets the candidates its client sent, in the order sent, after the
\* offer: those that came before it up to the cap, all that came after, and
\* none of a client displaced meanwhile (remote.go:298-306, 324-333, peer.go:179-193).
CandidatesReach ==
  LET s == sess
      n == Min({heard.before, MaxEarly})
      m == heard.all - heard.before
  IN  s # NoSess /\ ~answering /\ (\A r \in Sess : r # s => shake[r] # shake[s]) =>
        applied[s] = [i \in 1..(n + m) |->
                        <<shake[s], IF i =< n THEN i ELSE heard.before + i - n>>]

\* A cancelled session is quiet: but for the one candidate that had passed the
\* check, none of its reaches the client of a later handshake
\* (remote.go:284-296).
DeadIsQuiet == \A s \in 1..made : Reoffered(s) \/ stray[s] =< 1
=============================================================================
