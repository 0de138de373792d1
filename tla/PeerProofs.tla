------------------------------ MODULE PeerProofs ----------------------------
(***************************************************************************)
(* Proofs about Peer, for any number of joins, offers, candidates and      *)
(* requests, and every size a frame, a payload or a negotiated message may *)
(* have.                                                                   *)
(*                                                                         *)
(* Session: no session but the current one is left with a feed or a peer,  *)
(* because every way the loop leaves one goes through cleanup (HandInv,    *)
(* MadeInv); where a client's candidates are follows from where its        *)
(* handshake is (CandInv).                                                 *)
(*                                                                         *)
(* Bulk: what the client makes of the frames is proved of those still on   *)
(* the wire.  Read in order each takes the client from one place to the    *)
(* next, the first from where it is and the last to where the handler is   *)
(* (CourseInv).                                                            *)
(***************************************************************************)
EXTENDS Peer, SequenceTheorems, TLAPS

-----------------------------------------------------------------------------
(* Session. *)

\* The join the loop serves is the last one, if any, and what it has of it.
HandInv ==
  /\ peer \in {join, NoJoin}
  /\ authed => peer # NoJoin
  /\ answering => sess # NoSess
  /\ sess # NoSess => sess = made /\ shake[sess] = peer /\ peer # NoJoin
  /\ sess = NoSess => \A s \in 1..made : shake[s] # peer

\* Every session was made in a join, and nothing happens to one before that.
MadeInv ==
  \A s \in Sess :
    IF s =< made
      THEN shake[s] \in 1..join
      ELSE shake[s] = NoJoin /\ applied[s] = <<>> /\ gather[s] = "silent" /\ stray[s] = 0

\* A session that sent a candidate to a later handshake is cancelled and past
\* the check that a candidate passes.
QuietInv ==
  \A s \in 1..made : ~Reoffered(s) =>
    /\ stray[s] \in {0, 1}
    /\ stray[s] = 1 => shake[s] # join /\ off[s] /\ gather[s] = "on"

\* The candidates 1..n of the client in join j; and the first h of it followed by
\* those from b + 1 to a.
First(j, n) == [i \in 1..n |-> <<j, i>>]
Skip(j, h, b, a) == [i \in 1..(h + (a - b)) |-> <<j, IF i =< h THEN i ELSE b + i - h>>]

\* Of the candidates before the offer as many are held as the cap allows, and
\* pion is to have those and all that came after.
held == IF heard.before =< MaxEarly THEN heard.before ELSE MaxEarly
Reached(j) == Skip(j, held, heard.before, heard.all)
Sole(s) == \A r \in Sess : r # s => shake[r] # shake[s]

\* The candidates are where the handshake is: held for the offer, with Answer,
\* or handed to pion.
CandInv ==
  /\ heard.before =< heard.all
  /\ sess = NoSess => heard.all = heard.before /\ early = First(peer, held)
  /\ sess # NoSess /\ Sole(sess) =>
       IF answering
         THEN heard.all = heard.before /\ pending = First(shake[sess], held) /\ applied[sess] = <<>>
         ELSE applied[sess] = Reached(shake[sess])

\* The smaller of two numbers, as the candidates' cap and a chunk take it.
LEMMA MinOfTwo ==
  ASSUME NEW a \in Int, NEW b \in Int
  PROVE  Min({a, b}) = IF a =< b THEN a ELSE b
  BY DEF Min

\* Joining, refusing, dropping, failing and losing all clean up.
LEMMA Cleans ==
  ASSUME SessionTypeOK, Join \/ Dropped \/ AnswerFails \/ Lost
  PROVE  /\ cleanup
         /\ \/ join' = join /\ peer' = NoJoin
            \/ join' = join + 1 /\ join' \in 0..MaxJoins /\ peer' \in {join', NoJoin}
  BY SessionAssumption DEF SessionTypeOK, Join, Dropped, AnswerFails, Lost

\* What cleaning up does to the current session, and to no other.
LEMMA Stops ==
  ASSUME SessionTypeOK, stop
  PROVE  /\ off' \in [Sess -> BOOLEAN] /\ feed' \in [Sess -> BOOLEAN]
         /\ pc' \in [Sess -> {"none", "new", "open", "gone", "closed"}]
         /\ fire' \in [Sess -> {"no", "due", "done"}]
         /\ sess # NoSess => off'[sess] /\ ~feed'[sess] /\ pc'[sess] = "closed"
         /\ \A s \in Sess : s # sess => off'[s] = off[s] /\ feed'[s] = feed[s] /\ pc'[s] = pc[s]
  <1>1. CASE sess = NoSess
    BY <1>1 DEF SessionTypeOK, stop
  <1>2. CASE sess # NoSess
    <2>1. /\ off \in [Sess -> BOOLEAN] /\ feed \in [Sess -> BOOLEAN] /\ sess \in Sess
          /\ pc \in [Sess -> {"none", "new", "open", "gone", "closed"}]
          /\ fire \in [Sess -> {"no", "due", "done"}]
      BY <1>2 DEF SessionTypeOK
    <2>2. /\ off' = [off EXCEPT ![sess] = TRUE]
          /\ feed' = [feed EXCEPT ![sess] = FALSE]
          /\ pc' = [pc EXCEPT ![sess] = "closed"]
          /\ fire' = [fire EXCEPT ![sess] = IF @ = "no" THEN "due" ELSE @]
      BY <1>2 DEF stop, Due
    <2>3. /\ off' \in [Sess -> BOOLEAN] /\ off'[sess]
          /\ \A s \in Sess : s # sess => off'[s] = off[s]
      BY <2>1, <2>2
    <2>4. /\ feed' \in [Sess -> BOOLEAN] /\ ~feed'[sess]
          /\ \A s \in Sess : s # sess => feed'[s] = feed[s]
      BY <2>1, <2>2
    <2>5. /\ pc' \in [Sess -> {"none", "new", "open", "gone", "closed"}] /\ pc'[sess] = "closed"
          /\ \A s \in Sess : s # sess => pc'[s] = pc[s]
      BY <2>1, <2>2
    <2>6. fire' \in [Sess -> {"no", "due", "done"}]
      BY <2>1, <2>2
    <2> QED
      BY <2>3, <2>4, <2>5, <2>6
  <1> QED
    BY <1>1, <1>2

\* Candidates 1..n of a join are a sequence, and the next one is put behind.
LEMMA FirstIs ==
  ASSUME NEW j \in 1..MaxJoins, NEW n \in 0..MaxTrickle
  PROVE  First(j, n) \in Seq(Cands) /\ Len(First(j, n)) = n
  <1>1. First(j, n) \in [1..n -> Cands] /\ n \in Nat
    BY SessionAssumption DEF First, Cands
  <1>2. First(j, n) \in Seq(Cands)
    BY <1>1, SeqDef
  <1>3. DOMAIN First(j, n) = 1..n
    BY DEF First
  <1> QED
    BY <1>1, <1>2, <1>3, LenProperties

\* Every step of a session's part keeps every variable in its type.
LEMMA SessionTypeStep ==
  ASSUME SessionTypeOK, HandInv, SessionNext
  PROVE  SessionTypeOK'
  <1> USE SessionAssumption DEF SessionTypeOK, hand, cur, peers
  <1>e. <<>> \in Seq(Cands) /\ Len(<<>>) = 0
    BY EmptySeq
  <1>1. CASE Join \/ Dropped \/ AnswerFails \/ Lost
    <2>1. cleanup /\ join' \in 0..MaxJoins /\ peer' \in 0..join'
      BY <1>1, Cleans DEF NoJoin
    <2>2. up' \in BOOLEAN
      BY <1>1 DEF Join, Dropped, AnswerFails, Lost
    <2>3. /\ off' \in [Sess -> BOOLEAN] /\ feed' \in [Sess -> BOOLEAN]
          /\ pc' \in [Sess -> {"none", "new", "open", "gone", "closed"}]
          /\ fire' \in [Sess -> {"no", "due", "done"}]
      BY <2>1, Stops DEF cleanup
    <2>4. /\ sess' = NoSess /\ answering' = FALSE /\ pending' = <<>>
          /\ authed' = FALSE /\ trickle' = FALSE /\ early' = <<>>
          /\ heard' \in [all : 0..MaxTrickle, before : 0..MaxTrickle]
          /\ UNCHANGED <<made, shake, applied, gather, stray>>
      BY <2>1 DEF cleanup, forget
    <2>5. pending' \in Seq(Cands) /\ Len(pending') =< MaxEarly
      BY <1>e, <2>4
    <2>6. early' \in Seq(Cands) /\ Len(early') =< MaxEarly
      BY <1>e, <2>4
    <2> QED
      BY <2>1, <2>2, <2>3, <2>4, <2>5, <2>6
  <1>2. CASE ICEServers
    BY <1>2 DEF ICEServers
  <1>3. CASE Proof
    BY <1>3 DEF Proof
  <1>4. CASE Offer
    <2>1. made + 1 \in Sess /\ peer \in 0..MaxJoins
      BY <1>4 DEF Offer, Sess
    <2> QED
      BY <1>4, <1>e, <2>1 DEF Offer
  <1>5. CASE Answer
    <2>1. sess \in Sess /\ applied[sess] \in Seq(Cands) /\ applied[sess] \o pending \in Seq(Cands)
      BY <1>5, ConcatProperties DEF Answer, HandInv
    <2>2. applied' \in [Sess -> Seq(Cands)]
      BY <1>5, <2>1 DEF Answer
    <2>3. pending' = <<>> /\ answering' = FALSE
          /\ UNCHANGED <<up, hand, sess, made, shake, pc, fire, off, feed, gather, stray>>
      BY <1>5 DEF Answer
    <2>4. pending' \in Seq(Cands) /\ Len(pending') =< MaxEarly
      BY <1>e, <2>3
    <2> QED
      BY <2>2, <2>3, <2>4
  <1>6. CASE Candidate
    <2> DEFINE c == <<peer, heard.all + 1>>
    <2>1. c \in Cands
      BY <1>6 DEF Candidate, HandInv, Cands, NoJoin
    <2>2. heard' \in [all : 0..MaxTrickle, before : 0..MaxTrickle]
      BY <1>6 DEF Candidate
    <2> HIDE DEF c
    <2>3. CASE sess # NoSess
      <3>1. Append(applied[sess], c) \in Seq(Cands)
        BY <2>1, <2>3
      <3> QED
        BY <1>6, <2>2, <2>3, <3>1 DEF Candidate, c
    <2>4. CASE sess = NoSess
      <3>1. early' = IF Len(early) < MaxEarly THEN Append(early, c) ELSE early
        BY <1>6, <2>4 DEF Candidate, Hold, c
      <3>2. early' \in Seq(Cands) /\ Len(early') =< MaxEarly
        BY <2>1, <3>1, AppendProperties
      <3> QED
        BY <1>6, <2>2, <2>4, <3>2 DEF Candidate
    <2> QED
      BY <2>3, <2>4
  <1>7. CASE Dial
    BY <1>7 DEF Dial
  <1>8. ASSUME NEW s \in Sess, Connected(s) PROVE SessionTypeOK'
    BY <1>8 DEF Connected
  <1>9. ASSUME NEW s \in Sess, FeedOn(s) PROVE SessionTypeOK'
    BY <1>9 DEF FeedOn
  <1>10. ASSUME NEW s \in Sess, PeerGone(s) PROVE SessionTypeOK'
    BY <1>10 DEF PeerGone, Due
  <1>11. ASSUME NEW s \in Sess, PeerBack(s) PROVE SessionTypeOK'
    BY <1>11 DEF PeerBack
  <1>12. ASSUME NEW s \in Sess, OnClose(s) PROVE SessionTypeOK'
    BY <1>12 DEF OnClose
  <1>13. ASSUME NEW s \in Sess, Gathered(s) PROVE SessionTypeOK'
    BY <1>13 DEF Gathered
  <1>14. ASSUME NEW s \in Sess, Trickled(s) PROVE SessionTypeOK'
    <2> DEFINE n == stray[s] + 1
    <2>1. stray[s] \in 0..2
      OBVIOUS
    <2>2. n \in 1..3
      BY <2>1
    <2> HIDE DEF n
    <2>3. n \in Int /\ 2 \in Int
      BY <2>2
    <2>4. Min({n, 2}) = IF n =< 2 THEN n ELSE 2
      BY <2>3, MinOfTwo, Zenon
    <2>5. Min({n, 2}) \in 0..2
      BY <2>2, <2>4
    <2> QED
      BY <1>14, <2>5 DEF Trickled, n
  <1> QED
    BY <1>1, <1>2, <1>3, <1>4, <1>5, <1>6, <1>7, <1>8, <1>9, <1>10,
       <1>11, <1>12, <1>13, <1>14 DEF SessionNext

\* Every step keeps the loop with the last join, and what it has of it.
LEMMA HandStep ==
  ASSUME SessionTypeOK, HandInv, MadeInv, SessionNext
  PROVE  HandInv' /\ MadeInv'
  <1> USE SessionAssumption DEF SessionTypeOK, HandInv, hand, cur, peers, NoJoin, NoSess, Sess
  <1>m. \A s \in 1..made : shake[s] \in 1..join
    BY DEF MadeInv
  <1>1. CASE Join \/ Dropped \/ AnswerFails \/ Lost
    <2>1. /\ UNCHANGED <<made, shake, applied, gather, stray>>
          /\ sess' = NoSess /\ answering' = FALSE /\ authed' = FALSE
          /\ \/ join' = join /\ peer' = NoJoin
             \/ join' = join + 1 /\ peer' \in {join', NoJoin}
      BY <1>1, Cleans DEF cleanup, forget
    <2>2. \A s \in 1..made : shake[s] \in 1..join' /\ shake[s] # peer'
      BY <1>m, <2>1
    <2>3. HandInv'
      BY <2>1, <2>2
    <2>4. MadeInv'
      <3> SUFFICES ASSUME NEW s \in Sess
                   PROVE  IF s =< made
                            THEN shake[s] \in 1..join'
                            ELSE shake[s] = NoJoin /\ applied[s] = <<>> /\ gather[s] = "silent" /\ stray[s] = 0
        BY <2>1 DEF MadeInv
      <3>1. CASE s =< made
        BY <2>2, <3>1
      <3>2. CASE ~(s =< made)
        BY <3>2 DEF MadeInv
      <3> QED
        BY <3>1, <3>2
    <2> QED
      BY <2>3, <2>4
  <1>2. CASE ICEServers
    BY <1>2 DEF ICEServers, MadeInv
  <1>3. CASE Proof
    BY <1>3 DEF Proof, MadeInv
  <1>4. CASE Offer
    <2>1. /\ made' = made + 1 /\ sess' = made + 1 /\ made + 1 \in Sess /\ answering'
          /\ shake' = [shake EXCEPT ![made + 1] = peer]
          /\ peer \in 1..join
          /\ \A s \in Sess : s # made + 1 => gather'[s] = gather[s]
          /\ UNCHANGED <<join, peer, authed, applied, stray>>
      BY <1>4 DEF Offer
    <2>2. HandInv'
      BY <2>1
    <2>3. MadeInv'
      <3> SUFFICES ASSUME NEW s \in Sess
                   PROVE  IF s =< made + 1
                            THEN shake'[s] \in 1..join
                            ELSE shake'[s] = NoJoin /\ applied[s] = <<>> /\ gather'[s] = "silent" /\ stray[s] = 0
        BY <2>1 DEF MadeInv
      <3>1. CASE s = made + 1
        BY <2>1, <3>1
      <3>2. CASE s =< made
        BY <1>m, <2>1, <3>2
      <3>3. CASE s > made + 1
        <4>1. ~(s =< made) /\ ~(s =< made + 1) /\ s # made + 1
          BY <3>3
        <4>2. shake[s] = NoJoin /\ applied[s] = <<>> /\ gather[s] = "silent" /\ stray[s] = 0
          BY <4>1 DEF MadeInv
        <4> QED
          BY <2>1, <4>1, <4>2
      <3> QED
        BY <3>1, <3>2, <3>3
    <2> QED
      BY <2>2, <2>3
  <1>5. CASE Answer
    BY <1>5 DEF Answer, MadeInv
  <1>6. CASE Candidate
    BY <1>6 DEF Candidate, MadeInv
  <1>7. CASE Dial
    BY <1>7 DEF Dial, MadeInv
  <1>8. ASSUME NEW s \in Sess, Connected(s) \/ FeedOn(s) \/ PeerGone(s) \/ PeerBack(s) \/ OnClose(s)
        PROVE  HandInv' /\ MadeInv'
    <2>1. UNCHANGED <<hand, cur, made, shake, applied, gather, stray>>
      BY <1>8 DEF Connected, FeedOn, PeerGone, PeerBack, OnClose
    <2> QED
      BY <2>1 DEF MadeInv
  <1>9. ASSUME NEW s \in Sess, Gathered(s) PROVE HandInv' /\ MadeInv'
    BY <1>9 DEF Gathered, MadeInv
  <1>10. ASSUME NEW s \in Sess, Trickled(s) PROVE HandInv' /\ MadeInv'
    BY <1>10 DEF Trickled, MadeInv
  <1> QED
    BY <1>1, <1>2, <1>3, <1>4, <1>5, <1>6, <1>7, <1>8, <1>9, <1>10 DEF SessionNext

\* A session stays in its join, and once overwritten by another offer of that
\* join it stays so.
LEMMA Reoffers ==
  ASSUME SessionTypeOK, MadeInv, SessionNext, NEW s \in 1..made
  PROVE  /\ shake'[s] = shake[s] /\ s \in 1..made'
         /\ Reoffered(s) => Reoffered(s)'
  <1> s \in Sess /\ s =< made
    BY SessionAssumption DEF SessionTypeOK, Sess
  <1>1. CASE Offer
    <2>1. shake' = [shake EXCEPT ![made + 1] = peer] /\ made' = made + 1
      BY <1>1 DEF Offer
    <2>2. \A t \in Sess : shake[t] = shake[s] => t # made + 1
      <3>1. IF s =< made THEN shake[s] \in 1..join ELSE shake[s] = NoJoin
        BY DEF MadeInv
      <3>2. shake[s] # 0
        BY <3>1
      <3>3. made \in Nat
        BY DEF SessionTypeOK
      <3>4. \A t \in Sess : IF t =< made THEN shake[t] \in 1..join ELSE shake[t] = NoJoin
        BY DEF MadeInv
      <3> QED
        BY <3>2, <3>3, <3>4 DEF NoJoin
    <2>3. \A t \in Sess : t # made + 1 => shake'[t] = shake[t]
      BY <2>1 DEF SessionTypeOK
    <2>4. s # made + 1 /\ s \in 1..made'
      BY <2>1 DEF SessionTypeOK
    <2> QED
      BY <2>2, <2>3, <2>4 DEF Reoffered
  <1>2. CASE ~Offer
    <2>1. UNCHANGED <<made, shake>>
      BY <1>2, Cleans DEF SessionNext, cleanup, ICEServers, Proof, Answer, Candidate, Dial,
         Connected, FeedOn, PeerGone, PeerBack, OnClose, Gathered, Trickled, peers
    <2> QED
      BY <2>1 DEF Reoffered
  <1> QED
    BY <1>1, <1>2

\* No step leaves a session behind that is not the current one.
LEMMA ForgottenStep ==
  ASSUME SessionTypeOK, HandInv, MadeInv, NoSessionForgotten, SessionNext
  PROVE  NoSessionForgotten'
  <1> DEFINE Ended(s) == off[s] /\ ~feed[s] /\ pc[s] = "closed"
  <1>o. \A s \in 1..made : s # sess /\ ~Reoffered(s)' => Ended(s)
    BY Reoffers DEF NoSessionForgotten
  <1>s. \A s \in 1..made : s \in Sess
    BY SessionAssumption DEF SessionTypeOK, Sess
  <1>1. CASE Join \/ Dropped \/ AnswerFails \/ Lost
    <2>1. cleanup /\ made' = made /\ sess' = NoSess
      BY <1>1, Cleans DEF cleanup, forget
    <2>2. \A s \in 1..made : s = sess => Ended(s)'
      BY <2>1, Stops DEF cleanup, NoSess
    <2>3. \A s \in 1..made : s # sess /\ Ended(s) => Ended(s)'
      BY <1>s, <2>1, Stops DEF cleanup
    <2> QED
      BY <1>o, <2>1, <2>2, <2>3 DEF NoSessionForgotten
  <1>2. CASE Offer
    <2>1. /\ made' = made + 1 /\ sess' = made + 1 /\ made + 1 \in Sess
          /\ shake' = [shake EXCEPT ![made + 1] = peer]
          /\ pc' = [pc EXCEPT ![made + 1] = "new"]
          /\ UNCHANGED <<off, feed>>
      BY <1>2, SessionAssumption DEF Offer, Sess, SessionTypeOK
    <2>2. ASSUME NEW s \in 1..made', s # sess', ~Reoffered(s)' PROVE Ended(s)'
      <3>1. s \in 1..made /\ s # made + 1 /\ s \in Sess
        BY <1>s, <2>1, <2>2 DEF SessionTypeOK
      <3>2. CASE s = sess
        <4>1. shake[s] = peer /\ made + 1 > s
          BY <3>1, <3>2 DEF HandInv, NoSess, SessionTypeOK, Sess
        <4>2. shake'[made + 1] = shake'[s]
          BY <2>1, <3>1, <4>1 DEF SessionTypeOK
        <4> QED
          BY <2>1, <2>2, <4>1, <4>2 DEF Reoffered
      <3>3. CASE s # sess
        <4>1. Ended(s)
          BY <1>o, <2>2, <3>1, <3>3
        <4> QED
          BY <2>1, <3>1, <4>1 DEF SessionTypeOK
      <3> QED
        BY <3>2, <3>3
    <2> QED
      BY <2>2 DEF NoSessionForgotten
  <1>3. CASE ICEServers \/ Proof \/ Answer \/ Candidate \/ Dial
    <2>1. UNCHANGED <<made, sess, off, feed, pc>>
      BY <1>3 DEF ICEServers, Proof, Answer, Candidate, Dial, cur, peers
    <2> QED
      BY <1>o, <2>1 DEF NoSessionForgotten
  <1>4. ASSUME NEW s \in Sess, \/ Connected(s) \/ FeedOn(s) \/ PeerGone(s) \/ PeerBack(s)
                              \/ OnClose(s) \/ Gathered(s) \/ Trickled(s)
        PROVE  NoSessionForgotten'
    <2>1. UNCHANGED <<made, sess>>
      BY <1>4 DEF Connected, FeedOn, PeerGone, PeerBack, OnClose, Gathered, Trickled, cur
    <2>2. \A r \in Sess : Ended(r) => Ended(r)'
      <3> USE DEF SessionTypeOK
      <3>1. CASE Connected(s)
        BY <3>1 DEF Connected
      <3>2. CASE FeedOn(s)
        BY <3>2 DEF FeedOn
      <3>3. CASE PeerGone(s)
        BY <3>3 DEF PeerGone
      <3>4. CASE PeerBack(s)
        BY <3>4 DEF PeerBack
      <3>5. CASE OnClose(s)
        BY <3>5 DEF OnClose
      <3>6. CASE Gathered(s) \/ Trickled(s)
        BY <3>6 DEF Gathered, Trickled
      <3> QED
        BY <1>4, <3>1, <3>2, <3>3, <3>4, <3>5, <3>6
    <2> QED
      BY <1>o, <1>s, <2>1, <2>2 DEF NoSessionForgotten
  <1> QED
    BY <1>1, <1>2, <1>3, <1>4 DEF SessionNext

\* No step lets a cancelled session be heard twice.
LEMMA QuietStep ==
  ASSUME SessionTypeOK, HandInv, MadeInv, NoSessionForgotten, QuietInv, SessionNext
  PROVE  QuietInv'
  <1> DEFINE Quiet(s) ==
        /\ stray[s] \in {0, 1}
        /\ stray[s] = 1 => shake[s] # join /\ off[s] /\ gather[s] = "on"
  <1>o. \A s \in 1..made : ~Reoffered(s)' => Quiet(s) /\ shake'[s] = shake[s]
    BY Reoffers DEF QuietInv
  <1>s. \A s \in 1..made : s \in Sess
    BY SessionAssumption DEF SessionTypeOK, Sess
  <1>m. \A s \in 1..made : shake[s] \in 1..join
    BY <1>s DEF MadeInv
  <1>1. CASE Join \/ Dropped \/ AnswerFails \/ Lost
    <2>1. cleanup /\ UNCHANGED <<made, shake, gather, stray>> /\ join' \in {join, join + 1}
      BY <1>1, Cleans DEF cleanup
    <2>2. \A s \in 1..made : off[s] => off'[s]
      BY <1>s, <2>1, Stops DEF cleanup, NoSess
    <2>3. \A s \in 1..made : shake[s] # join => shake[s] # join'
      BY <1>m, <2>1 DEF SessionTypeOK
    <2> QED
      BY <1>o, <2>1, <2>2, <2>3 DEF QuietInv
  <1>2. CASE Offer
    <2>1. /\ made' = made + 1 /\ made + 1 \in Sess
          /\ gather' = [gather EXCEPT ![made + 1] = IF trickle THEN "on" ELSE "silent"]
          /\ UNCHANGED <<off, stray, join>>
      BY <1>2, SessionAssumption DEF Offer, Sess, SessionTypeOK
    <2>2. stray[made + 1] = 0
      BY <2>1 DEF MadeInv, SessionTypeOK
    <2>3. \A s \in 1..made : gather'[s] = gather[s]
      BY <1>s, <2>1 DEF SessionTypeOK
    <2>4. \A s \in 1..made' : s = made + 1 \/ s \in 1..made
      BY <2>1 DEF SessionTypeOK
    <2> QED
      BY <1>o, <2>1, <2>2, <2>3, <2>4 DEF QuietInv
  <1>3. CASE ICEServers \/ Proof \/ Answer \/ Candidate \/ Dial
    <2>1. UNCHANGED <<made, join, off, gather, stray>>
      BY <1>3 DEF ICEServers, Proof, Answer, Candidate, Dial, hand, peers
    <2> QED
      BY <1>o, <2>1 DEF QuietInv
  <1>4. ASSUME NEW s \in Sess, Connected(s) \/ FeedOn(s) \/ PeerGone(s) \/ PeerBack(s) \/ OnClose(s)
        PROVE  QuietInv'
    <2>1. UNCHANGED <<made, join, gather, stray>>
      BY <1>4 DEF Connected, FeedOn, PeerGone, PeerBack, OnClose, hand
    <2>2. \A r \in Sess : off[r] => off'[r]
      BY <1>4 DEF Connected, FeedOn, PeerGone, PeerBack, OnClose, SessionTypeOK
    <2> QED
      BY <1>o, <1>s, <2>1, <2>2 DEF QuietInv
  <1>5. ASSUME NEW s \in Sess, Gathered(s) PROVE QuietInv'
    <2>1. ~off[s] /\ gather' = [gather EXCEPT ![s] = "checked"] /\ UNCHANGED <<made, join, off, stray>>
      BY <1>5 DEF Gathered, hand
    <2>2. \A r \in Sess : r # s => gather'[r] = gather[r]
      BY <2>1 DEF SessionTypeOK
    <2> QED
      BY <1>o, <1>s, <2>1, <2>2 DEF QuietInv
  <1>6. ASSUME NEW s \in Sess, Trickled(s) PROVE QuietInv'
    <2>1. /\ gather[s] = "checked" /\ gather' = [gather EXCEPT ![s] = "on"]
          /\ UNCHANGED <<made, shake, join, sess, off>>
      BY <1>6 DEF Trickled, hand, cur
    <2>2. \A r \in Sess : r # s => gather'[r] = gather[r] /\ stray'[r] = stray[r]
      BY <1>6 DEF Trickled, SessionTypeOK
    <2>3. ASSUME s \in 1..made, ~Reoffered(s)' PROVE Quiet(s)'
      <3>1. stray[s] = 0 /\ ~Reoffered(s)
        BY <1>o, <2>1, <2>3, Reoffers
      <3>2. CASE shake[s] = join
        <4>1. stray'[s] = stray[s]
          BY <1>6, <3>2 DEF Trickled, SessionTypeOK
        <4> QED
          BY <3>1, <4>1
      <3>3. CASE shake[s] # join
        <4>1. Min({0 + 1, 2}) = 1
          BY MinOfTwo
        <4>2. stray'[s] = 1
          BY <1>6, <3>1, <3>3, <4>1 DEF Trickled, SessionTypeOK
        <4>3. s # sess
          BY <1>m, <2>3, <3>3 DEF HandInv, NoJoin, NoSess, SessionTypeOK, Sess
        <4>4. off[s]
          BY <2>3, <3>1, <4>3 DEF NoSessionForgotten
        <4>5. gather'[s] = "on"
          BY <2>1 DEF SessionTypeOK
        <4> QED
          BY <2>1, <3>3, <4>2, <4>4, <4>5
      <3> QED
        BY <3>2, <3>3
    <2> QED
      BY <1>o, <1>s, <2>1, <2>2, <2>3 DEF QuietInv
  <1> QED
    BY <1>1, <1>2, <1>3, <1>4, <1>5, <1>6 DEF SessionNext

\* Of no candidates the first are the empty sequence.
LEMMA FirstNone == ASSUME NEW j PROVE First(j, 0) = <<>>
  <1>1. First(j, 0) \in [1..0 -> {}] /\ DOMAIN First(j, 0) = 1..0
    BY DEF First
  <1>2. First(j, 0) \in Seq({})
    BY <1>1, SeqDef
  <1>3. Len(First(j, 0)) = 0
    BY <1>1, <1>2, LenProperties
  <1> QED
    BY <1>2, <1>3, EmptySeq

\* What pion is to have is a sequence of candidates.
LEMMA SkipIs ==
  ASSUME NEW j \in 1..MaxJoins, NEW a \in 0..MaxTrickle, NEW b \in 0..a, NEW h \in 0..b
  PROVE  /\ Skip(j, h, b, a) \in Seq(Cands)
         /\ Len(Skip(j, h, b, a)) = h + (a - b)
         /\ \A i \in 1..(h + (a - b)) : Skip(j, h, b, a)[i] = <<j, IF i =< h THEN i ELSE b + i - h>>
  <1> DEFINE n == h + (a - b)
             at(i) == IF i =< h THEN i ELSE b + i - h
  <1>1. n \in Nat /\ \A i \in 1..n : at(i) \in 1..MaxTrickle
    BY SessionAssumption
  <1>2. Skip(j, h, b, a) = [i \in 1..n |-> <<j, at(i)>>]
    BY DEF Skip
  <1> HIDE DEF n, at
  <1>3. Skip(j, h, b, a) \in [1..n -> Cands] /\ DOMAIN Skip(j, h, b, a) = 1..n
    BY <1>1, <1>2 DEF Cands
  <1>4. Skip(j, h, b, a) \in Seq(Cands)
    BY <1>1, <1>3, SeqDef
  <1>5. Len(Skip(j, h, b, a)) = n
    BY <1>1, <1>3, <1>4, LenProperties
  <1> QED
    BY <1>2, <1>4, <1>5 DEF n, at

\* The next candidate goes behind.
LEMMA SkipNext ==
  ASSUME NEW j \in 1..MaxJoins, NEW a \in 0..MaxTrickle, NEW b \in 0..a, NEW h \in 0..b,
         a + 1 =< MaxTrickle
  PROVE  Append(Skip(j, h, b, a), <<j, a + 1>>) = Skip(j, h, b, a + 1)
  <1> DEFINE n == h + (a - b)
             s == Append(Skip(j, h, b, a), <<j, a + 1>>)
             t == Skip(j, h, b, a + 1)
  <1>1. n \in Nat /\ n + 1 = h + (a + 1 - b) /\ b + (n + 1) - h = a + 1 /\ ~(n + 1 =< h)
        /\ a + 1 \in 1..MaxTrickle /\ b \in 0..(a + 1)
    BY SessionAssumption
  <1>2. /\ Skip(j, h, b, a) \in Seq(Cands) /\ Len(Skip(j, h, b, a)) = n
        /\ \A i \in 1..n : Skip(j, h, b, a)[i] = <<j, IF i =< h THEN i ELSE b + i - h>>
    BY SkipIs
  <1>3. /\ t \in Seq(Cands) /\ Len(t) = n + 1
        /\ \A i \in 1..(n + 1) : t[i] = <<j, IF i =< h THEN i ELSE b + i - h>>
    <2>1. a + 1 \in 0..MaxTrickle /\ b \in 0..(a + 1)
      BY <1>1
    <2>2. /\ t \in Seq(Cands) /\ Len(t) = h + ((a + 1) - b)
          /\ \A i \in 1..(h + ((a + 1) - b)) : t[i] = <<j, IF i =< h THEN i ELSE b + i - h>>
      BY <2>1, SkipIs
    <2> QED
      BY <1>1, <2>2
  <1>4. <<j, a + 1>> \in Cands
    BY <1>1 DEF Cands
  <1>5. /\ s \in Seq(Cands) /\ Len(s) = n + 1
        /\ \A i \in 1..n : s[i] = Skip(j, h, b, a)[i]
        /\ s[n + 1] = <<j, a + 1>>
    <2> DEFINE p == Skip(j, h, b, a)
               c == <<j, a + 1>>
    <2>1. p \in Seq(Cands) /\ c \in Cands /\ Len(p) = n
      BY <1>2, <1>4
    <2> HIDE DEF p, c, n
    <2>2. /\ Append(p, c) \in Seq(Cands) /\ Len(Append(p, c)) = n + 1
          /\ \A i \in 1..n : Append(p, c)[i] = p[i]
          /\ Append(p, c)[n + 1] = c
      BY <2>1, AppendProperties
    <2> QED
      BY <2>2 DEF p, c
  <1> HIDE DEF s, t, n
  <1>6. ASSUME NEW i \in 1..(n + 1) PROVE s[i] = t[i]
    <2>1. CASE i = n + 1
      BY <1>1, <1>3, <1>5, <2>1
    <2>2. CASE i \in 1..n
      BY <1>1, <1>2, <1>3, <1>5, <2>2
    <2> QED
      BY <1>1, <2>1, <2>2
  <1>7. s = t
    BY <1>3, <1>5, <1>6, SeqEqual
  <1> QED
    BY <1>7 DEF s, t

\* Every candidate is where its handshake is, after every step.
LEMMA CandStep ==
  ASSUME SessionTypeOK, SessionTypeOK', HandInv, MadeInv, CandInv, SessionNext
  PROVE  CandInv'
  <1>t. /\ heard.all \in 0..MaxTrickle /\ heard.before \in 0..MaxTrickle
        /\ MaxTrickle \in Nat /\ MaxEarly \in Nat
    BY SessionAssumption DEF SessionTypeOK
  <1>a. ASSUME UNCHANGED <<peer, early, heard, sess, answering, pending, shake, applied>>
        PROVE  CandInv'
    BY <1>a DEF CandInv, held, Reached, Sole
  <1>1. CASE Join \/ Dropped \/ AnswerFails \/ Lost
    <2>1. sess' = NoSess /\ early' = <<>> /\ heard' = [all |-> 0, before |-> 0]
      BY <1>1, Cleans DEF cleanup, forget
    <2>2. held' = 0
      BY <1>t, <2>1 DEF held
    <2> QED
      BY <2>1, <2>2, FirstNone DEF CandInv
  <1>2. CASE ICEServers \/ Proof \/ Dial
    BY <1>2, <1>a DEF ICEServers, Proof, Dial, hand, cur, peers
  <1>3. CASE Offer
    <2>1. /\ sess' = made + 1 /\ made + 1 \in Sess /\ answering' = TRUE /\ pending' = early
          /\ shake' = [shake EXCEPT ![made + 1] = peer]
          /\ UNCHANGED <<heard, applied>>
      BY <1>3, SessionAssumption DEF Offer, Sess, SessionTypeOK
    <2>2. sess' # NoSess /\ shake'[sess'] = peer
      BY <2>1 DEF SessionTypeOK, Sess, NoSess
    <2>3. Sole(sess)' => sess = NoSess
      <3> SUFFICES ASSUME sess # NoSess PROVE ~Sole(sess)'
        OBVIOUS
      <3>1. sess \in Sess /\ sess # made + 1 /\ shake[sess] = peer
        BY DEF HandInv, SessionTypeOK, Sess
      <3>2. shake'[sess] = peer
        BY <2>1, <3>1 DEF SessionTypeOK
      <3> QED
        BY <2>1, <2>2, <3>1, <3>2 DEF Sole
    <2>4. applied'[sess'] = <<>>
      BY <2>1 DEF MadeInv, SessionTypeOK
    <2>5. held' = held
      BY <2>1 DEF held
    <2> QED
      BY <2>1, <2>2, <2>3, <2>4, <2>5 DEF CandInv
  <1>4. CASE Answer
    <2>1. /\ sess \in Sess /\ sess # NoSess /\ answering /\ answering' = FALSE
          /\ applied' = [applied EXCEPT ![sess] = @ \o pending]
          /\ UNCHANGED <<peer, early, heard, sess, shake>>
      BY <1>4 DEF Answer, HandInv, SessionTypeOK, hand
    <2>2. ASSUME Sole(sess) PROVE applied'[sess] = Reached(shake[sess])
      <3>1. /\ heard.all = heard.before
            /\ pending = First(shake[sess], held) /\ applied[sess] = <<>>
        BY <2>1, <2>2 DEF CandInv
      <3>2. applied'[sess] = pending
        BY <2>1, <3>1, ConcatEmptySeq DEF SessionTypeOK
      <3>3. held + (heard.all - heard.before) = held /\ held \in Nat
        BY <1>t, <3>1 DEF held
      <3>4. First(shake[sess], held) = Reached(shake[sess])
        BY <3>3 DEF First, Reached, Skip
      <3> QED
        BY <3>1, <3>2, <3>4
    <2>3. held' = held /\ Reached(shake[sess])' = Reached(shake[sess]) /\ (Sole(sess)' => Sole(sess))
      BY <2>1 DEF held, Reached, Sole
    <2> QED
      BY <2>1, <2>2, <2>3 DEF CandInv
  <1>5. CASE Candidate
    <2> DEFINE c == <<peer, heard.all + 1>>
    <2>1. /\ authed /\ ~answering /\ heard.all + 1 =< MaxTrickle
          /\ heard'.all = heard.all + 1
          /\ heard'.before = IF sess = NoSess THEN heard.all + 1 ELSE heard.before
          /\ UNCHANGED <<peer, sess, answering, pending, shake>>
      BY <1>5, <1>t DEF Candidate, Reads, cur
    <2>2. peer \in 1..MaxJoins
      BY <2>1 DEF HandInv, NoJoin, SessionTypeOK
    <2>3. c \in Cands
      BY <1>t, <2>1, <2>2 DEF Cands
    <2>4. CASE sess = NoSess
      <3>1. early' = IF Len(early) < MaxEarly THEN Append(early, c) ELSE early
        BY <1>5, <2>4 DEF Candidate, Hold
      <3>2. heard.all = heard.before /\ early = First(peer, held)
        BY <2>4 DEF CandInv
      <3>3. held \in 0..MaxTrickle /\ held' \in 0..MaxTrickle
        BY <1>t, <2>1, <2>4, <3>2 DEF held
      <3>4. Len(early) = held /\ early \in Seq(Cands)
        BY <2>2, <3>2, <3>3, FirstIs
      <3>5. CASE held < MaxEarly
        <4>1. held' = held + 1 /\ heard.all = held
          BY <1>t, <2>1, <2>4, <3>2, <3>5 DEF held
        <4>2. early' = Append(early, c)
          BY <3>1, <3>4, <3>5
        <4> HIDE DEF c
        <4>3. /\ early' \in Seq(Cands) /\ Len(early') = held + 1
              /\ \A i \in 1..held : early'[i] = early[i]
              /\ early'[held + 1] = c
          BY <2>3, <3>4, <4>2, AppendProperties
        <4>4. First(peer, held + 1) \in Seq(Cands) /\ Len(First(peer, held + 1)) = held + 1
          BY <2>2, <3>3, <4>1, FirstIs
        <4>5. \A i \in 1..(held + 1) : early'[i] = First(peer, held + 1)[i]
          BY <3>2, <3>3, <4>1, <4>3 DEF First, c
        <4>6. early' = First(peer, held + 1)
          BY <4>3, <4>4, <4>5, SeqEqual
        <4> QED
          BY <2>1, <2>4, <4>1, <4>6 DEF CandInv
      <3>6. CASE ~(held < MaxEarly)
        <4>1. held' = held
          BY <1>t, <2>1, <2>4, <3>2, <3>6 DEF held
        <4>2. early' = early
          BY <3>1, <3>4, <3>6
        <4> QED
          BY <1>t, <2>1, <2>4, <3>2, <4>1, <4>2 DEF CandInv
      <3> QED
        BY <3>5, <3>6
    <2>5. CASE sess # NoSess
      <3>1. /\ sess \in Sess /\ shake[sess] = peer
            /\ applied' = [applied EXCEPT ![sess] = Append(@, c)]
            /\ heard.before =< heard.all
        BY <1>5, <2>5 DEF Candidate, HandInv, CandInv, SessionTypeOK
      <3>2. held' = held /\ held \in Nat
        BY <1>t, <2>1, <2>5 DEF held
      <3>3. ASSUME Sole(sess) PROVE applied'[sess] = Reached(peer)'
        <4>1. applied[sess] = Reached(peer)
          BY <2>1, <2>5, <3>1, <3>3 DEF CandInv
        <4>2. applied'[sess] = Append(Reached(peer), c)
          BY <3>1, <4>1 DEF SessionTypeOK
        <4>3. heard.before \in 0..heard.all /\ held \in 0..heard.before
          BY <1>t, <3>1 DEF held
        <4>4. Append(Reached(peer), c) = Skip(peer, held, heard.before, heard.all + 1)
          BY <1>t, <2>1, <2>2, <4>3, SkipNext DEF Reached
        <4> QED
          BY <2>1, <2>5, <3>2, <4>2, <4>4 DEF Reached
      <3>4. Sole(sess)' => Sole(sess)
        BY <2>1 DEF Sole
      <3>5. heard'.before =< heard'.all
        BY <1>t, <2>1, <2>5, <3>1
      <3> QED
        BY <2>1, <2>5, <3>1, <3>3, <3>4, <3>5 DEF CandInv
    <2> QED
      BY <2>4, <2>5
  <1>6. ASSUME NEW s \in Sess, \/ Connected(s) \/ FeedOn(s) \/ PeerGone(s) \/ PeerBack(s)
                              \/ OnClose(s) \/ Gathered(s) \/ Trickled(s)
        PROVE  CandInv'
    <2>1. UNCHANGED <<hand, cur, shake, applied>>
      BY <1>6 DEF Connected, FeedOn, PeerGone, PeerBack, OnClose, Gathered, Trickled
    <2> QED
      BY <1>a, <2>1 DEF hand, cur
  <1> QED
    BY <1>1, <1>2, <1>3, <1>4, <1>5, <1>6 DEF SessionNext
-----------------------------------------------------------------------------
(* Bulk. *)

Kinds   == {"header", "chunk", "lifecycle", "error", "quality"}
Frames  == [kind : Kinds, id : Nat, len : Nat, bytes : 0..MaxPayload, data : Seq(Bytes)]
Jobs    == [at : {"idle", "list", "capture", "sims", "image"}, id : Nat, left : Seq(Bytes), size : Nat]
Asked   == [id : Requests, type : {"list", "screenshot", "quality", "bad"}]
Replies == Seq(Nat \X Nat)

\* What the handler is in, and what the channel carries.
JobInv ==
  /\ job \in Jobs
  /\ job.at = "idle" => job = Idle
  /\ job.at # "idle" => job.id \in Requests
  /\ job.left # <<>> => job.size \in 1..FrameMax /\ (bulkMax > 0 => job.size =< bulkMax)
ChannelInv ==
  /\ inbox \in Seq(Asked)
  /\ wire \in Seq(Frames)
  /\ got \in [need : 0..MaxPayload, have : Seq(Bytes)]
  /\ answers \in Seq(Replies)

\* How far a client is: the answers it has, and of the next one the bytes it
\* waits for and those it has.
Progress == {p \in [done : Nat, need : Nat, have : Nat] : p.need = 0 => p.have = 0}
Between(n) == [done |-> n, need |-> 0, have |-> 0]

\* n bytes of a payload, behind the first a.
Part(id, a, n) == [i \in 1..n |-> <<id, a + i>>]

\* Reading frame f takes the client from p to q.
Takes(p, f, q) ==
  \/ f.kind = "lifecycle" /\ q = p
  \/ /\ f.kind \in {"error", "quality"}
     /\ p.need = 0 /\ f.id = p.done + 1
     /\ q = Between(p.done + 1)
  \/ /\ f.kind = "header"
     /\ p.need = 0 /\ f.id = p.done + 1 /\ f.bytes \in 1..MaxPayload
     /\ q = [done |-> p.done, need |-> f.bytes, have |-> 0]
  \/ /\ f.kind = "chunk"
     /\ Len(f.data) \in 1..(p.need - p.have)
     /\ f.data = Part(p.done + 1, p.have, Len(f.data))
     /\ q = IF p.have + Len(f.data) = p.need
              THEN Between(p.done + 1)
              ELSE [done |-> p.done, need |-> p.need, have |-> p.have + Len(f.data)]

\* Where the client is, with answers a and transfer g, and where the frames of
\* w take it.
Reader(p, a, g) ==
  /\ p.done = Len(a) /\ p.need = g.need
  /\ g.have = Part(p.done + 1, 0, p.have)
Course(at, w, a, g) ==
  /\ at \in [0..Len(w) -> Progress]
  /\ Reader(at[0], a, g)
  /\ \A i \in 1..Len(w) : Takes(at[i - 1], w[i], at[i])

\* The requests after number n, of k, are those not taken yet.
Waiting(n, b, k) == n + Len(b) = k /\ \A i \in 1..Len(b) : b[i].id = n + i

\* Once it read them all the client is where the handler is.
Serving(p, j, b, k) ==
  /\ j.at \in {"idle", "list", "capture"} => p = Between(p.done)
  /\ j.at = "idle" => Waiting(p.done, b, k)
  /\ j.at # "idle" => j.id = p.done + 1 /\ Waiting(p.done + 1, b, k)
  /\ j.at \in {"sims", "image"} =>
       p.have < p.need /\ j.left = Part(p.done + 1, p.have, p.need - p.have)

\* A channel that has closed carries what it took before, and no more.
CourseInv ==
  Roomy => \E at \in [0..Len(wire) -> Progress] :
             /\ Course(at, wire, answers, got)
             /\ open => Serving(at[Len(wire)], job, inbox, asked)
-----------------------------------------------------------------------------
(* Parts of a payload. *)

\* A part of a payload is as long as it is said to be, byte by byte.
LEMMA PartIs ==
  ASSUME NEW id \in Nat, NEW a \in Nat, NEW n \in Nat
  PROVE  /\ Part(id, a, n) \in Replies /\ Len(Part(id, a, n)) = n
         /\ \A i \in 1..n : Part(id, a, n)[i] = <<id, a + i>>
  <1>1. Part(id, a, n) \in [1..n -> Nat \X Nat] /\ DOMAIN Part(id, a, n) = 1..n
    BY DEF Part
  <1>2. Part(id, a, n) \in Replies
    BY <1>1, SeqDef DEF Replies
  <1>3. Len(Part(id, a, n)) = n
    BY <1>1, <1>2, LenProperties DEF Replies
  <1> QED
    BY <1>2, <1>3 DEF Part

\* A whole payload is a part of it, and its bytes are bytes.
LEMMA PayloadIs ==
  ASSUME NEW id \in Requests, NEW n \in 1..MaxPayload
  PROVE  Payload(id, n) = Part(id, 0, n) /\ Payload(id, n) \in Seq(Bytes) /\ Payload(id, n) # <<>>
  <1> USE BulkAssumption
  <1>1. Payload(id, n) = Part(id, 0, n)
    BY DEF Payload, Part
  <1>2. Payload(id, n) \in [1..n -> Bytes]
    BY DEF Payload, Bytes
  <1>3. Payload(id, n) \in Seq(Bytes)
    BY <1>2, SeqDef
  <1>4. Len(Payload(id, n)) = n
    BY <1>1, PartIs DEF Requests
  <1> QED
    BY <1>1, <1>3, <1>4, EmptySeq

\* A part and the one behind it are one.
LEMMA PartConcat ==
  ASSUME NEW id \in Nat, NEW m \in Nat, NEW n \in Nat
  PROVE  Part(id, 0, m) \o Part(id, m, n) = Part(id, 0, m + n)
  <1> DEFINE s == Part(id, 0, m)
             t == Part(id, m, n)
             u == Part(id, 0, m + n)
  <1>1. /\ s \in Replies /\ Len(s) = m /\ \A i \in 1..m : s[i] = <<id, 0 + i>>
        /\ t \in Replies /\ Len(t) = n /\ \A i \in 1..n : t[i] = <<id, m + i>>
    BY PartIs
  <1>2. u \in Replies /\ Len(u) = m + n /\ \A i \in 1..(m + n) : u[i] = <<id, 0 + i>>
    <2>1. m + n \in Nat
      OBVIOUS
    <2> QED
      BY <2>1, PartIs
  <1> HIDE DEF s, t, u
  <1>3. /\ s \o t \in Replies /\ Len(s \o t) = m + n
        /\ \A i \in 1..(m + n) : (s \o t)[i] = IF i =< m THEN s[i] ELSE t[i - m]
    BY <1>1, ConcatProperties DEF Replies
  <1>4. ASSUME NEW i \in 1..(m + n) PROVE (s \o t)[i] = u[i]
    <2>1. CASE i =< m
      <3>1. i \in 1..m
        BY <2>1
      <3> QED
        BY <1>1, <1>2, <1>3, <2>1, <3>1
    <2>2. CASE ~(i =< m)
      <3>1. i - m \in 1..n /\ m + (i - m) = 0 + i
        BY <2>2
      <3>2. (s \o t)[i] = t[i - m] /\ t[i - m] = <<id, m + (i - m)>>
        BY <1>1, <1>3, <2>2, <3>1
      <3> QED
        BY <1>2, <3>1, <3>2
    <2> QED
      BY <2>1, <2>2
  <1>5. s \o t = u
    BY <1>2, <1>3, <1>4, SeqEqual DEF Replies
  <1> QED
    BY <1>5 DEF s, t, u

\* A part's first bytes are a part, and so are the others.
LEMMA PartCut ==
  ASSUME NEW id \in Nat, NEW a \in Nat, NEW n \in Nat, NEW m \in 0..n
  PROVE  /\ SubSeq(Part(id, a, n), 1, m) = Part(id, a, m)
         /\ SubSeq(Part(id, a, n), m + 1, n) = Part(id, a + m, n - m)
  <1> DEFINE s == Part(id, a, n)
             t == Part(id, a, m)
             u == Part(id, a + m, n - m)
             S == Nat \X Nat
  <1>1. s \in Seq(S) /\ Len(s) = n /\ \A i \in 1..n : s[i] = <<id, a + i>>
    BY PartIs DEF Replies
  <1>2. t \in Seq(S) /\ Len(t) = m /\ \A i \in 1..m : t[i] = <<id, a + i>>
    BY PartIs DEF Replies
  <1>3. u \in Seq(S) /\ Len(u) = n - m /\ \A i \in 1..(n - m) : u[i] = <<id, a + m + i>>
    <2>1. a + m \in Nat /\ n - m \in Nat
      OBVIOUS
    <2> QED
      BY <2>1, PartIs DEF Replies
  <1> HIDE DEF s, t, u, S
  <1>4. \A i \in 1..n : s[i] \in S
    BY <1>1 DEF S
  <1>5. /\ SubSeq(s, 1, m) \in Seq(S) /\ Len(SubSeq(s, 1, m)) = m
        /\ \A i \in 1..m : SubSeq(s, 1, m)[i] = s[i]
    <2>1. \A i \in 1..m : s[i] \in S
      BY <1>4
    <2>2. /\ SubSeq(s, 1, m) \in Seq(S)
          /\ Len(SubSeq(s, 1, m)) = IF 1 <= m THEN m - 1 + 1 ELSE 0
          /\ \A i \in 1..m - 1 + 1 : SubSeq(s, 1, m)[i] = s[1 + i - 1]
      BY <2>1, SubSeqProperties
    <2> QED
      BY <2>2
  <1>6. /\ SubSeq(s, m + 1, n) \in Seq(S) /\ Len(SubSeq(s, m + 1, n)) = n - m
        /\ \A i \in 1..(n - m) : SubSeq(s, m + 1, n)[i] = s[m + i]
    <2>1. \A i \in (m + 1)..n : s[i] \in S
      BY <1>4
    <2>2. /\ SubSeq(s, m + 1, n) \in Seq(S)
          /\ Len(SubSeq(s, m + 1, n)) = IF m + 1 <= n THEN n - (m + 1) + 1 ELSE 0
          /\ \A i \in 1..n - (m + 1) + 1 : SubSeq(s, m + 1, n)[i] = s[m + 1 + i - 1]
      BY <2>1, SubSeqProperties
    <2> QED
      BY <2>2
  <1>7. SubSeq(s, 1, m) = t
    <2>1. \A i \in 1..m : i \in 1..n
      OBVIOUS
    <2>2. \A i \in 1..m : SubSeq(s, 1, m)[i] = t[i]
      BY <1>1, <1>2, <1>5, <2>1
    <2> QED
      BY <1>2, <1>5, <2>2, SeqEqual
  <1>8. SubSeq(s, m + 1, n) = u
    <2>1. \A i \in 1..(n - m) : m + i \in 1..n /\ a + (m + i) = a + m + i
      OBVIOUS
    <2>2. \A i \in 1..(n - m) : SubSeq(s, m + 1, n)[i] = u[i]
      BY <1>1, <1>3, <1>6, <2>1
    <2> QED
      BY <1>3, <1>6, <2>2, SeqEqual
  <1> QED
    BY <1>7, <1>8 DEF s, t, u
-----------------------------------------------------------------------------
(* Types and frames. *)

\* The frames that are sent are frames.
LEMMA TextIs ==
  ASSUME NEW k \in Kinds, NEW id \in Nat, NEW n \in Nat, NEW b \in 0..MaxPayload
  PROVE  /\ Text(k, id, n, b) \in Frames
         /\ Text(k, id, n, b).kind = k /\ Text(k, id, n, b).id = id
         /\ Text(k, id, n, b).len = n /\ Text(k, id, n, b).bytes = b
  <1>1. <<>> \in Seq(Bytes)
    BY EmptySeq
  <1> QED
    BY <1>1 DEF Text, Frames

\* So is a chunk.
LEMMA BinaryIs ==
  ASSUME NEW d \in Seq(Bytes)
  PROVE  /\ Binary(d) \in Frames /\ Binary(d).kind = "chunk"
         /\ Binary(d).data = d /\ Binary(d).len = Len(d)
  <1>1. Len(d) \in Nat /\ 0 \in 0..MaxPayload
    BY LenProperties, BulkAssumption
  <1> QED
    BY <1>1 DEF Binary, Frames, Kinds

\* Each frame by itself keeps its bound.
Bounded(f) ==
  /\ f.kind \in {"header", "chunk", "quality"} => f.len =< FrameMax
  /\ f.kind = "lifecycle" => f.len =< MaxRest + Escape * (MsgMax + 1)

\* A frame sent, or not, leaves the channel with frames that keep their bounds.
LEMMA Sent ==
  ASSUME wire \in Seq(Frames), FrameBounds, NEW f \in Frames, Bounded(f),
         wire' = wire \/ wire' = Append(wire, f)
  PROVE  wire' \in Seq(Frames) /\ FrameBounds'
  <1>1. CASE wire' = wire
    BY <1>1 DEF FrameBounds
  <1>2. CASE wire' = Append(wire, f)
    <2>1. /\ wire' \in Seq(Frames) /\ DOMAIN wire' = 1..(Len(wire) + 1) /\ DOMAIN wire = 1..Len(wire)
          /\ \A i \in 1..Len(wire) : wire'[i] = wire[i]
          /\ wire'[Len(wire) + 1] = f /\ Len(wire) \in Nat
      BY <1>2, AppendProperties, LenProperties
    <2>2. \A i \in 1..(Len(wire) + 1) : i \in 1..Len(wire) \/ i = Len(wire) + 1
      BY <2>1
    <2>3. \A i \in 1..Len(wire) : Bounded(wire[i])
      BY <2>1 DEF FrameBounds, Bounded
    <2>4. \A i \in 1..(Len(wire) + 1) : Bounded(wire'[i])
      BY <2>1, <2>2, <2>3
    <2>5. \A i \in DOMAIN wire' : Bounded(wire'[i])
      BY <2>1, <2>4
    <2> QED
      BY <2>1, <2>5 DEF FrameBounds, Bounded
  <1> QED
    BY <1>1, <1>2

\* A text that is no longer is marshalled no longer.
LEMMA Stretched ==
  ASSUME NEW a \in Nat, NEW b \in Nat, a =< b
  PROVE  /\ Escape * a \in Nat /\ Escape * b \in Nat
         /\ Escape * a =< Escape * b /\ a =< Escape * a
  <1>1. Escape \in Nat /\ Escape >= 1
    BY BulkAssumption
  <1>2. PICK c \in Nat : b = a + c
    <2>1. b - a \in Nat /\ b = a + (b - a)
      OBVIOUS
    <2> QED
      BY <2>1
  <1>3. PICK e \in Nat : Escape = 1 + e
    <2>1. Escape - 1 \in Nat /\ Escape = 1 + (Escape - 1)
      BY <1>1
    <2> QED
      BY <2>1
  <1>4. Escape * a \in Nat /\ Escape * c \in Nat /\ e * a \in Nat
    BY <1>1
  <1>5. Escape * b = Escape * a + Escape * c
    BY <1>1, <1>2
  <1>6. Escape * a = a + e * a
    BY <1>3
  <1> QED
    BY <1>4, <1>5, <1>6

\* What json.Marshal makes of a text is bounded by what it makes of a longer one.
LEMMA Marshalled ==
  ASSUME NEW n \in Nat, NEW m \in Nat, n =< m, NEW rest \in Nat, NEW len \in Marshal(n, rest)
  PROVE  len \in Nat /\ len =< rest + Escape * m /\ Escape * m \in Nat
  <1>1. /\ Escape * n \in Nat /\ Escape * m \in Nat /\ Escape * n =< Escape * m /\ n =< Escape * n
    BY Stretched
  <1>2. len = rest + n \/ len = rest + Escape * n
    BY DEF Marshal
  <1>3. PICK x \in Nat : x = Escape * n
    BY <1>1
  <1>4. PICK y \in Nat : y = Escape * m
    BY <1>1
  <1>5. x =< y /\ n =< x /\ (len = rest + n \/ len = rest + x)
    BY <1>1, <1>2, <1>3, <1>4
  <1>6. len \in Nat /\ len =< rest + y
    BY <1>5
  <1> QED
    BY <1>4, <1>6

\* An error that is sent has some length, and at most this one.
LEMMA ErrorIs ==
  ASSUME NEW id, bulkError(id)
  PROVE  \E len \in Nat : len =< 1 + Escape * MaxText /\ Send(Text("error", id, len, 0))
  <1>1. PICK n \in {1, MaxText} : \E len \in Marshal(n, 1) : Send(Text("error", id, len, 0))
    BY DEF bulkError
  <1>2. PICK len \in Marshal(n, 1) : Send(Text("error", id, len, 0))
    BY <1>1
  <1>3. n \in Nat /\ n =< MaxText /\ MaxText \in Nat
    BY <1>1, BulkAssumption
  <1>4. len \in Nat /\ len =< 1 + Escape * MaxText
    BY <1>2, <1>3, Marshalled
  <1> QED
    BY <1>2, <1>4

\* A lifecycle reply is bounded by the cap.
LEMMA LifecycleIs ==
  ASSUME Lifecycle
  PROVE  \E len \in Nat : len =< MaxRest + Escape * (MsgMax + 1) /\ Send(Text("lifecycle", 0, len, 0))
  <1>1. PICK n \in {1, MaxText}, rest \in {1, MaxRest} :
          \E len \in Marshal(Capped(n), rest) : Send(Text("lifecycle", 0, len, 0))
    BY DEF Lifecycle
  <1>2. PICK len \in Marshal(Capped(n), rest) : Send(Text("lifecycle", 0, len, 0))
    BY <1>1
  <1>3. /\ Capped(n) \in Nat /\ Capped(n) =< MsgMax + 1 /\ MsgMax + 1 \in Nat
        /\ rest \in Nat /\ rest =< MaxRest /\ MaxRest \in Nat
    BY BulkAssumption DEF Capped
  <1>4. len \in Nat /\ len =< rest + Escape * (MsgMax + 1) /\ Escape * (MsgMax + 1) \in Nat
    BY <1>2, <1>3, Marshalled
  <1>5. len =< MaxRest + Escape * (MsgMax + 1)
    BY <1>3, <1>4
  <1> QED
    BY <1>2, <1>4, <1>5

\* bulkError keeps the bounds too.
LEMMA ErrorSent ==
  ASSUME wire \in Seq(Frames), FrameBounds, NEW id \in Requests, bulkError(id)
  PROVE  wire' \in Seq(Frames) /\ FrameBounds'
  <1>1. PICK n \in Nat : Send(Text("error", id, n, 0))
    BY ErrorIs
  <1>2. Text("error", id, n, 0) \in Frames /\ Text("error", id, n, 0).kind = "error"
    BY TextIs, BulkAssumption DEF Kinds, Requests
  <1>3. Bounded(Text("error", id, n, 0))
    BY <1>2 DEF Bounded
  <1> QED
    BY <1>1, <1>2, <1>3, Sent DEF Send

\* A transfer begins with its header and all its bytes, or not at all.
LEMMA Begun ==
  ASSUME wire \in Seq(Frames), FrameBounds, bulkMax \in Nat,
         NEW at \in {"sims", "image"}, NEW id \in Requests, NEW n \in 1..MaxPayload, Begin(at, id, n)
  PROVE  /\ wire' \in Seq(Frames) /\ FrameBounds'
         /\ job' = Idle \/ /\ job' = [at |-> at, id |-> id, left |-> Payload(id, n), size |-> chunkSize]
                           /\ chunkSize \in 1..FrameMax /\ (bulkMax > 0 => chunkSize =< bulkMax)
  <1> DEFINE h == Text("header", id, 1, n)
  <1>1. h \in Frames /\ Bounded(h)
    <2>1. h \in Frames /\ h.len = 1 /\ h.kind = "header" /\ 1 =< FrameMax
      BY TextIs, BulkAssumption DEF Kinds, Requests
    <2> QED
      BY <2>1 DEF Bounded
  <1>2. chunkSize \in 1..FrameMax /\ (bulkMax > 0 => chunkSize =< bulkMax)
    BY BulkAssumption DEF chunkSize
  <1>3. CASE Sendable(h)
    BY <1>1, <1>2, <1>3, Sent DEF Begin
  <1>4. CASE ~Sendable(h)
    <2>1. job' = Idle /\ (UNCHANGED wire \/ bulkError(id))
      BY <1>4 DEF Begin
    <2> QED
      BY <1>1, <2>1, Sent, ErrorSent
  <1> QED
    BY <1>3, <1>4

BulkInv == BulkTypeOK /\ JobInv /\ ChannelInv /\ FrameBounds

\* Every step of a channel's part keeps every variable in its type, and every
\* frame in one packet.
LEMMA BulkTypeStep ==
  ASSUME BulkInv, BulkNext
  PROVE  BulkInv'
  <1> USE DEF BulkInv, Requests
  <1>i. Idle \in Jobs
        /\ Idle.at = "idle" /\ Idle.left = <<>> /\ Idle.id = 0
    BY EmptySeq DEF Idle, Jobs
  <1>b. bulkMax \in Nat
    BY BulkAssumption DEF BulkTypeOK
  <1>j. job.at # "idle" => job.id \in Requests
    BY DEF JobInv
  \* What a step has to show: the job, the inbox, the wire and what the client has.
  <1>q. ASSUME open' \in BOOLEAN, bulkMax' = bulkMax, attached' \in BOOLEAN,
               asked' \in 0..MaxRequests, life' \in 0..MaxLife,
               inbox' \in Seq(Asked), JobInv',
               job'.at \in {"sims", "image"} <=> job'.left # <<>>,
               wire' \in Seq(Frames), FrameBounds',
               got' \in [need : 0..MaxPayload, have : Seq(Bytes)], answers' \in Seq(Replies)
        PROVE  BulkInv'
    <2>1. \A i \in DOMAIN inbox' : inbox'[i].type \in {"list", "screenshot", "quality", "bad"}
      <3>1. DOMAIN inbox' = 1..Len(inbox') /\ \A i \in 1..Len(inbox') : inbox'[i] \in Asked
        BY <1>q, ElementOfSeq, LenProperties
      <3> QED
        BY <3>1 DEF Asked
    <2>2. job'.left \in Seq(Bytes) /\ job'.at \in {"idle", "list", "capture", "sims", "image"}
      BY <1>q DEF JobInv, Jobs
    <2>3. got'.need \in 0..MaxPayload /\ got'.have \in Seq(Bytes)
      BY <1>q
    <2>4. BulkTypeOK'
      BY <1>q, <2>1, <2>2, <2>3 DEF BulkTypeOK
    <2> QED
      BY <1>q, <2>4 DEF ChannelInv
  <1>o. /\ open \in BOOLEAN /\ attached \in BOOLEAN /\ asked \in 0..MaxRequests /\ life \in 0..MaxLife
        /\ (job.at \in {"sims", "image"} <=> job.left # <<>>)
    BY DEF BulkTypeOK
  <1>1. CASE Handle
    <2> DEFINE r == Head(inbox)
    <2>1. /\ r \in Asked /\ inbox' \in Seq(Asked) /\ job = Idle
          /\ UNCHANGED <<open, bulkMax, asked, life, got, answers>>
      BY <1>1, HeadTailProperties DEF Handle, ChannelInv
    <2>2. r.id \in Requests
      BY <2>1 DEF Asked
    <2> HIDE DEF r, Requests
    <2>3. CASE \E at \in {"list", "capture"} :
                 job' = [Idle EXCEPT !.at = at, !.id = r.id] /\ UNCHANGED <<wire, attached>>
      <3>1. PICK at \in {"list", "capture"} : job' = [Idle EXCEPT !.at = at, !.id = r.id]
        BY <2>3
      <3>2. job' = [at |-> at, id |-> r.id, left |-> <<>>, size |-> 0]
        BY <3>1 DEF Idle
      <3>3. job'.at = at /\ job'.id = r.id /\ job'.left = <<>>
        BY <3>2
      <3>4. <<>> \in Seq(Bytes) /\ r.id \in Nat
        BY <2>2, EmptySeq DEF Requests
      <3>5. job' \in Jobs
        BY <3>2, <3>4 DEF Jobs
      <3>6. JobInv'
        BY <2>2, <3>3, <3>5 DEF JobInv
      <3> QED
        BY <1>o, <1>q, <2>1, <2>3, <3>3, <3>6 DEF ChannelInv, FrameBounds
    <2>4. CASE bulkError(r.id) /\ UNCHANGED <<job, attached>>
      BY <1>o, <1>q, <1>i, <2>1, <2>2, <2>4, ErrorSent DEF ChannelInv, JobInv
    <2>5. CASE attached' = FALSE /\ Send(Text("quality", r.id, 1, 0)) /\ UNCHANGED job
      <3> DEFINE f == Text("quality", r.id, 1, 0)
      <3>1. f \in Frames /\ f.len = 1 /\ f.kind = "quality" /\ 1 =< FrameMax
        BY <2>2, TextIs, BulkAssumption DEF Kinds, Requests
      <3>2. wire' = wire \/ wire' = Append(wire, f)
        BY <2>5 DEF Send
      <3> HIDE DEF f
      <3>b. Bounded(f)
        BY <3>1 DEF Bounded
      <3>3. wire' \in Seq(Frames) /\ FrameBounds'
        BY <3>1, <3>b, <3>2, Sent DEF ChannelInv
      <3> QED
        BY <1>o, <1>q, <1>i, <2>1, <2>5, <3>3 DEF ChannelInv, JobInv
    <2> QED
      BY <1>1, <2>3, <2>4, <2>5 DEF Handle, r
  <1>2. CASE \/ Listed \/ Captured \/ NotCaptured
    <2>1. job.id \in Requests /\ UNCHANGED <<open, bulkMax, attached, asked, inbox, life, got, answers>>
      BY <1>2, <1>j DEF Listed, Captured, NotCaptured
    <2> HIDE DEF Requests
    <2>2. CASE \E at \in {"sims", "image"}, n \in 1..MaxPayload : Begin(at, job.id, n)
      <3>1. PICK at \in {"sims", "image"}, n \in 1..MaxPayload : Begin(at, job.id, n)
        BY <2>2
      <3>2. /\ wire' \in Seq(Frames) /\ FrameBounds'
            /\ job' = Idle \/ /\ job' = [at |-> at, id |-> job.id, left |-> Payload(job.id, n), size |-> chunkSize]
                              /\ chunkSize \in 1..FrameMax /\ (bulkMax > 0 => chunkSize =< bulkMax)
        BY <1>b, <2>1, <3>1, Begun DEF ChannelInv
      <3>3. Payload(job.id, n) \in Seq(Bytes) /\ Payload(job.id, n) # <<>>
        BY <2>1, PayloadIs
      <3>4. JobInv' /\ (job'.at \in {"sims", "image"} <=> job'.left # <<>>)
        <4>1. CASE job' = Idle
          BY <1>i, <4>1 DEF JobInv
        <4>2. CASE job' # Idle
          BY <2>1, <3>2, <3>3, <4>2 DEF JobInv, Requests, Jobs
        <4> QED
          BY <4>1, <4>2
      <3> QED
        BY <1>o, <1>q, <2>1, <3>2, <3>4 DEF ChannelInv
    <2>3. CASE bulkError(job.id) /\ job' = Idle
      BY <1>o, <1>q, <1>i, <2>1, <2>3, ErrorSent DEF ChannelInv, JobInv
    <2> QED
      BY <1>2, <2>2, <2>3 DEF Listed, Captured, NotCaptured
  <1>3. CASE Chunk
    <2> DEFINE m == Min({job.size, Len(job.left)})
               d == SubSeq(job.left, 1, m)
    <2>1. /\ job.at \in {"sims", "image"} /\ job.left # <<>> /\ job.left \in Seq(Bytes)
          /\ job.size \in 1..FrameMax /\ job.id \in Requests
          /\ UNCHANGED <<open, bulkMax, attached, asked, inbox, life, got, answers>>
      BY <1>3, <1>j, <1>o DEF Chunk, JobInv, Jobs
    <2>2. Len(job.left) \in Nat \ {0} /\ job.size \in Int /\ \A i \in 1..Len(job.left) : job.left[i] \in Bytes
      BY <2>1, EmptySeq, LenProperties, ElementOfSeq, BulkAssumption
    <2>3. m \in 1..FrameMax /\ m =< Len(job.left)
      <3>1. m = IF job.size =< Len(job.left) THEN job.size ELSE Len(job.left)
        BY <2>2, MinOfTwo
      <3> QED
        BY <2>1, <2>2, <3>1, BulkAssumption
    <2> HIDE DEF m, Requests
    <2>4. d \in Seq(Bytes) /\ Len(d) = m
      <3>1. \A i \in 1..m : job.left[i] \in Bytes
        BY <2>2, <2>3
      <3> QED
        BY <2>3, <3>1, SubSeqProperties
    <2> HIDE DEF d
    <2>5. Binary(d) \in Frames /\ Bounded(Binary(d))
      <3>1. Binary(d) \in Frames /\ Binary(d).len =< FrameMax /\ Binary(d).kind = "chunk"
        BY <2>3, <2>4, BinaryIs
      <3> QED
        BY <3>1 DEF Bounded
    <2>6. CASE Sendable(Binary(d))
      <3>1. wire' = Append(wire, Binary(d)) /\ job' = Remaining(Cut(job.left, job.size))
        BY <1>3, <2>6 DEF Chunk, d, m
      <3>2. wire' \in Seq(Frames) /\ FrameBounds'
        BY <2>5, <3>1, Sent DEF ChannelInv
      <3>3. Cut(job.left, job.size) \in Seq(Bytes)
        BY <2>1, <2>2, SubSeqProperties DEF Cut
      <3>4. JobInv' /\ (job'.at \in {"sims", "image"} <=> job'.left # <<>>)
        <4>1. CASE Cut(job.left, job.size) = <<>>
          BY <1>i, <3>1, <4>1 DEF JobInv, Remaining
        <4>2. CASE Cut(job.left, job.size) # <<>>
          BY <2>1, <3>1, <3>3, <4>2 DEF JobInv, Remaining, Jobs
        <4> QED
          BY <4>1, <4>2
      <3> QED
        BY <1>o, <1>q, <2>1, <3>2, <3>4 DEF ChannelInv
    <2>7. CASE ~Sendable(Binary(d))
      <3>1. job' = Idle /\ (UNCHANGED wire \/ bulkError(job.id))
        BY <1>3, <2>7 DEF Chunk, d, m
      <3>2. wire' \in Seq(Frames) /\ FrameBounds'
        BY <2>1, <2>5, <3>1, Sent, ErrorSent DEF ChannelInv
      <3> QED
        BY <1>o, <1>q, <1>i, <2>1, <3>1, <3>2 DEF ChannelInv, JobInv
    <2> QED
      BY <2>6, <2>7
  <1>4. CASE Lifecycle
    <2>1. PICK n \in Nat : n =< MaxRest + Escape * (MsgMax + 1) /\ Send(Text("lifecycle", 0, n, 0))
      BY <1>4, LifecycleIs
    <2> DEFINE f == Text("lifecycle", 0, n, 0)
    <2>2. f \in Frames /\ f.len = n /\ f.kind = "lifecycle"
      BY TextIs, BulkAssumption DEF Kinds
    <2>3. f \in Frames /\ Bounded(f)
      BY <2>1, <2>2 DEF Bounded
    <2>4. wire' = wire \/ wire' = Append(wire, f)
      BY <2>1 DEF Send
    <2> HIDE DEF f
    <2>5. wire' \in Seq(Frames) /\ FrameBounds'
      BY <2>3, <2>4, Sent DEF ChannelInv
    <2>6. /\ UNCHANGED <<open, bulkMax, asked, inbox, job, got, answers>>
          /\ attached' \in BOOLEAN /\ life' \in 0..MaxLife
      BY <1>4, <1>o, BulkAssumption DEF Lifecycle
    <2> QED
      BY <1>o, <1>q, <2>5, <2>6 DEF ChannelInv, JobInv
  <1>5. CASE Hangup
    BY <1>5, <1>o, <1>q DEF Hangup, ChannelInv, JobInv, FrameBounds
  <1>6. CASE Ask
    <2>1. PICK t \in {"list", "screenshot", "quality", "bad"} : inbox' = Append(inbox, [id |-> asked', type |-> t])
      BY <1>6 DEF Ask
    <2>2. asked' \in Requests /\ UNCHANGED <<open, bulkMax, attached, job, life, wire, got, answers>>
      BY <1>6, <1>o, BulkAssumption DEF Ask
    <2>3. [id |-> asked', type |-> t] \in Asked
      BY <2>2 DEF Asked
    <2>4. inbox' \in Seq(Asked)
      BY <2>1, <2>3, AppendProperties DEF ChannelInv
    <2> QED
      BY <1>o, <1>q, <2>2, <2>4 DEF ChannelInv, JobInv, FrameBounds
  <1>7. CASE Read
    <2> DEFINE f == Head(wire)
               have == got.have \o f.data
    <2>1. wire # <<>> /\ wire' = Tail(wire) /\ UNCHANGED <<open, bulkMax, attached, asked, inbox, job, life>>
      BY <1>7 DEF Read
    <2>2. /\ f \in Frames /\ wire' \in Seq(Frames) /\ Len(wire') = Len(wire) - 1
          /\ \A i \in 1..Len(wire') : wire'[i] = wire[i + 1]
      BY <2>1, HeadTailProperties DEF ChannelInv
    <2>3. FrameBounds'
      <3>1. DOMAIN wire' = 1..Len(wire') /\ DOMAIN wire = 1..Len(wire) /\ Len(wire) \in Nat
        BY <2>2, LenProperties DEF ChannelInv
      <3>2. \A i \in 1..Len(wire') : i + 1 \in 1..Len(wire)
        BY <2>2, <3>1
      <3> QED
        BY <2>2, <3>1, <3>2 DEF FrameBounds
    <2>4. f.data \in Seq(Bytes) /\ f.bytes \in 0..MaxPayload /\ f.id \in Nat /\ f.kind \in Kinds
      BY <2>2 DEF Frames
    <2> HIDE DEF f
    <2>5. have \in Seq(Bytes) /\ got.have \in Seq(Bytes) /\ got.need \in 0..MaxPayload
      BY <2>4, ConcatProperties DEF ChannelInv
    <2>6. have \in Replies
      <3>1. Bytes \subseteq Nat \X Nat
        BY BulkAssumption DEF Bytes
      <3> QED
        BY <2>5, <3>1, SeqMonotonic DEF Replies
    <2>7. <<<<f.id, 0>>>> \in Replies
      BY <2>4 DEF Replies
    <2>8. /\ \/ UNCHANGED got \/ got' = NoXfer \/ got' = [need |-> f.bytes, have |-> <<>>]
             \/ got' = [got EXCEPT !.have = have]
          /\ \/ UNCHANGED answers \/ answers' = Append(answers, have)
             \/ answers' = Append(answers, <<<<f.id, 0>>>>)
      BY <1>7, <2>4 DEF Read, f, Kinds
    <2> HIDE DEF have
    <2>9. answers' \in Seq(Replies)
      <3>1. answers \in Seq(Replies)
        BY DEF ChannelInv
      <3>2. Append(answers, have) \in Seq(Replies)
        BY <2>6, <3>1, AppendProperties
      <3>3. Append(answers, <<<<f.id, 0>>>>) \in Seq(Replies)
        BY <2>7, <3>1, AppendProperties
      <3> QED
        BY <2>8, <3>1, <3>2, <3>3
    <2>10. got' \in [need : 0..MaxPayload, have : Seq(Bytes)]
      <3>1. <<>> \in Seq(Bytes) /\ 0 \in 0..MaxPayload
        BY EmptySeq, BulkAssumption
      <3>2. got \in [need : 0..MaxPayload, have : Seq(Bytes)]
        BY DEF ChannelInv
      <3>3. [got EXCEPT !.have = have] \in [need : 0..MaxPayload, have : Seq(Bytes)]
        BY <2>5, <3>2
      <3>4. NoXfer \in [need : 0..MaxPayload, have : Seq(Bytes)]
        BY <3>1 DEF NoXfer
      <3>5. [need |-> f.bytes, have |-> <<>>] \in [need : 0..MaxPayload, have : Seq(Bytes)]
        BY <2>4, <3>1
      <3> QED
        BY <2>8, <3>2, <3>3, <3>4, <3>5
    <2> QED
      BY <1>o, <1>q, <2>1, <2>2, <2>3, <2>9, <2>10 DEF ChannelInv, JobInv
  <1> QED
    BY <1>1, <1>2, <1>3, <1>4, <1>5, <1>6, <1>7 DEF BulkNext
-----------------------------------------------------------------------------
(* What the client reads. *)

\* Nothing of a payload is the empty sequence.
LEMMA PartEmpty ==
  ASSUME NEW id \in Nat, NEW a \in Nat
  PROVE  Part(id, a, 0) = <<>>
  <1>1. Part(id, a, 0) \in Replies /\ Len(Part(id, a, 0)) = 0
    BY PartIs
  <1> QED
    BY <1>1, EmptySeq DEF Replies

\* Between two answers the client waits for no bytes.
LEMMA BetweenIs ==
  ASSUME NEW n \in Nat
  PROVE  Between(n) \in Progress /\ Between(n).done = n /\ Between(n).need = 0 /\ Between(n).have = 0
  BY DEF Between, Progress

\* The frame that is sent takes the client one place further.
LEMMA Extended ==
  ASSUME NEW w \in Seq(Frames), NEW a, NEW g, NEW at, Course(at, w, a, g),
         NEW f \in Frames, NEW q \in Progress, Takes(at[Len(w)], f, q)
  PROVE  \E b \in [0..Len(Append(w, f)) -> Progress] :
           Course(b, Append(w, f), a, g) /\ b[Len(Append(w, f))] = q
  <1> DEFINE n == Len(w)
             v == Append(w, f)
             b == [i \in 0..(n + 1) |-> IF i =< n THEN at[i] ELSE q]
  <1>1. /\ n \in Nat /\ Len(v) = n + 1 /\ v[n + 1] = f
        /\ \A i \in 1..n : v[i] = w[i]
    BY AppendProperties, LenProperties
  <1>2. /\ at \in [0..n -> Progress] /\ Reader(at[0], a, g)
        /\ \A i \in 1..n : Takes(at[i - 1], w[i], at[i])
    BY DEF Course
  <1> HIDE DEF n, v, Takes, Reader, Progress
  <1>3. \A i \in 0..(n + 1) : i =< n => i \in 0..n
    BY <1>1
  <1>4. b \in [0..(n + 1) -> Progress]
    BY <1>2, <1>3
  <1>5. b[0] = at[0] /\ b[n + 1] = q
    BY <1>1
  <1>6. ASSUME NEW i \in 1..(n + 1) PROVE Takes(b[i - 1], v[i], b[i])
    <2>1. CASE i = n + 1
      <3>1. b[i] = q /\ b[i - 1] = at[n] /\ v[i] = f
        BY <1>1, <2>1
      <3> QED
        BY <3>1 DEF n
    <2>2. CASE i # n + 1
      <3>1. i \in 1..n /\ i - 1 \in 0..n /\ i \in 0..(n + 1) /\ i - 1 \in 0..(n + 1) /\ i - 1 =< n /\ i =< n
        BY <1>1, <2>2
      <3>2. b[i] = at[i] /\ b[i - 1] = at[i - 1] /\ v[i] = w[i]
        BY <1>1, <3>1
      <3> HIDE DEF b
      <3> QED
        BY <1>2, <3>1, <3>2
    <2> QED
      BY <2>1, <2>2
  <1> HIDE DEF b
  <1>7. b \in [0..Len(v) -> Progress] /\ Course(b, v, a, g) /\ b[Len(v)] = q
    BY <1>1, <1>2, <1>4, <1>5, <1>6 DEF Course
  <1> QED
    BY <1>7 DEF v

\* The frame that is read has taken the client one place further.
LEMMA Shortened ==
  ASSUME NEW w \in Seq(Frames), w # <<>>, NEW a, NEW g, NEW at, Course(at, w, a, g),
         NEW c, NEW h, Reader(at[1], c, h)
  PROVE  \E b \in [0..Len(Tail(w)) -> Progress] :
           Course(b, Tail(w), c, h) /\ b[Len(Tail(w))] = at[Len(w)]
  <1> DEFINE n == Len(w)
             v == Tail(w)
             b == [i \in 0..(n - 1) |-> at[i + 1]]
  <1>1. /\ n \in Nat \ {0} /\ Len(v) = n - 1
        /\ \A i \in 1..(n - 1) : v[i] = w[i + 1]
    <2>1. n \in Nat /\ n # 0
      BY EmptySeq, LenProperties
    <2>2. Len(v) = n - 1 /\ \A i \in 1..Len(v) : v[i] = w[i + 1]
      BY HeadTailProperties
    <2> QED
      BY <2>1, <2>2
  <1>2. /\ at \in [0..n -> Progress]
        /\ \A i \in 1..n : Takes(at[i - 1], w[i], at[i])
    BY DEF Course
  <1> HIDE DEF n, v, Takes, Reader, Progress
  <1>3. b \in [0..(n - 1) -> Progress]
    BY <1>1, <1>2
  <1>4. b[0] = at[1] /\ b[n - 1] = at[n]
    BY <1>1
  <1>5. ASSUME NEW i \in 1..(n - 1) PROVE Takes(b[i - 1], v[i], b[i])
    <2>1. i \in 0..(n - 1) /\ i - 1 \in 0..(n - 1) /\ i + 1 \in 1..n /\ (i + 1) - 1 = i /\ (i - 1) + 1 = i
      BY <1>1
    <2>2. b[i] = at[i + 1] /\ b[i - 1] = at[i] /\ v[i] = w[i + 1]
      BY <1>1, <2>1
    <2>3. Takes(at[(i + 1) - 1], w[i + 1], at[i + 1])
      BY <1>2, <2>1
    <2> QED
      BY <2>1, <2>2, <2>3
  <1> HIDE DEF b
  <1>6. b \in [0..Len(v) -> Progress] /\ Course(b, v, c, h) /\ b[Len(v)] = at[n]
    BY <1>1, <1>3, <1>4, <1>5 DEF Course
  <1> QED
    BY <1>6 DEF v, n

\* The requests behind the first wait, and so does a new one.
LEMMA Shifted ==
  ASSUME NEW b \in Seq(Asked), b # <<>>, NEW n \in Nat, NEW k \in Nat, Waiting(n, b, k)
  PROVE  Head(b).id = n + 1 /\ Waiting(n + 1, Tail(b), k)
  <1>1. Len(b) \in Nat /\ Len(b) # 0 /\ Head(b) = b[1]
    BY EmptySeq, LenProperties, HeadTailProperties
  <1>2. Len(Tail(b)) = Len(b) - 1 /\ \A i \in 1..Len(Tail(b)) : Tail(b)[i] = b[i + 1]
    BY HeadTailProperties
  <1>3. \A i \in 1..Len(Tail(b)) : i + 1 \in 1..Len(b) /\ n + (i + 1) = (n + 1) + i
    BY <1>1, <1>2
  <1>4. n + Len(b) = k /\ (\A i \in 1..Len(b) : b[i].id = n + i) /\ 1 \in 1..Len(b)
    BY <1>1 DEF Waiting
  <1>5. (n + 1) + Len(Tail(b)) = k
    BY <1>1, <1>2, <1>4
  <1> QED
    BY <1>1, <1>2, <1>3, <1>4, <1>5 DEF Waiting

\* A new request (Ask) waits behind the others.
LEMMA Queued ==
  ASSUME NEW b \in Seq(Asked), NEW n \in Nat, NEW k \in Nat, NEW r \in Asked, r.id = k + 1, Waiting(n, b, k)
  PROVE  Waiting(n, Append(b, r), k + 1)
  <1>1. /\ Len(b) \in Nat /\ Len(Append(b, r)) = Len(b) + 1 /\ Append(b, r)[Len(b) + 1] = r
        /\ \A i \in 1..Len(b) : Append(b, r)[i] = b[i]
    BY AppendProperties, LenProperties
  <1>2. n + Len(b) = k /\ \A i \in 1..Len(b) : b[i].id = n + i
    BY DEF Waiting
  <1>3. n + (Len(b) + 1) = k + 1
    <2>1. Len(b) \in Nat /\ n + Len(b) = k
      BY <1>1, <1>2
    <2> QED
      BY <2>1
  <1>4. \A i \in 1..(Len(b) + 1) : i \in 1..Len(b) \/ i = Len(b) + 1
    BY <1>1
  <1> QED
    BY <1>1, <1>2, <1>3, <1>4 DEF Waiting

\* Where the peer takes the longest text it takes every frame, while the
\* channel is open.
LEMMA Fitting ==
  ASSUME Roomy, bulkMax \in Nat, NEW f, f.len \in Nat,
         f.len =< 1 + Escape * MaxText \/ bulkMax = 0 \/ f.len =< bulkMax
  PROVE  Sendable(f) <=> open
  <1>1. Escape * MaxText \in Nat
    BY Stretched, BulkAssumption
  <1>2. PICK x \in Nat : x = Escape * MaxText
    BY <1>1
  <1>3. (bulkMax = 0 \/ bulkMax >= 1 + x) /\ (f.len =< 1 + x \/ bulkMax = 0 \/ f.len =< bulkMax)
    BY <1>2 DEF Roomy
  <1>4. bulkMax = 0 \/ f.len =< bulkMax
    BY <1>3
  <1> QED
    BY <1>4 DEF Sendable
-----------------------------------------------------------------------------
(* The handler and the client. *)

\* No answer is another request's, and the frames on the wire, read in order,
\* take the client to where the handler is: so it stays with every step.
LEMMA CourseStep ==
  ASSUME BulkInv, CourseInv, AnswersMatch, BulkNext
  PROVE  CourseInv' /\ AnswersMatch'
  <1>m. bulkMax' = bulkMax /\ bulkMax \in Nat /\ (Roomy' <=> Roomy)
    <2>1. bulkMax' = bulkMax
      BY DEF BulkNext, Handle, Listed, Captured, NotCaptured, Chunk, Lifecycle, Hangup, Ask, Read
    <2>2. bulkMax \in Nat
      BY BulkAssumption DEF BulkInv, BulkTypeOK
    <2> QED
      BY <2>1, <2>2 DEF Roomy
  <1> SUFFICES ASSUME Roomy
               PROVE  CourseInv' /\ AnswersMatch'
    BY <1>m DEF CourseInv, AnswersMatch
  <1>w. /\ wire \in Seq(Frames) /\ inbox \in Seq(Asked) /\ answers \in Seq(Replies) /\ asked \in Nat
        /\ open \in BOOLEAN /\ Len(wire) \in Nat
    BY LenProperties, BulkAssumption DEF BulkInv, ChannelInv, BulkTypeOK
  <1>l. Escape * MaxText \in Nat /\ 1 =< 1 + Escape * MaxText
    BY Stretched, BulkAssumption
  <1>j. /\ job.at \in {"idle", "list", "capture", "sims", "image"}
        /\ job.at = "idle" => job = Idle
        /\ job.at # "idle" => job.id \in Requests
        /\ job.at \in {"sims", "image"} => job.left # <<>> /\ job.left \in Seq(Bytes)
        /\ job.left # <<>> => job.size \in 1..FrameMax /\ (bulkMax > 0 => job.size =< bulkMax)
    BY DEF BulkInv, JobInv, BulkTypeOK
  <1>i. Idle.at = "idle"
    BY DEF Idle
  <1>a. PICK at \in [0..Len(wire) -> Progress] :
          Course(at, wire, answers, got) /\ (open => Serving(at[Len(wire)], job, inbox, asked))
    BY DEF CourseInv
  <1> DEFINE p == at[Len(wire)]
             d == p.done
  <1>p. p \in Progress /\ d \in Nat /\ p.need \in Nat /\ p.have \in Nat /\ (open => Serving(p, job, inbox, asked))
    BY <1>a, <1>w DEF Progress
  <1>d. d + 1 \in Nat /\ Between(d + 1) \in Progress /\ Between(d + 1).done = d + 1
    BY <1>p, BetweenIs
  <1> HIDE DEF p
  \* Where a step leaves what the client has, the frame that it sends is the next.
  <1>s. ASSUME UNCHANGED <<wire, answers, got>>, open' => Serving(p, job', inbox', asked')
        PROVE  CourseInv' /\ AnswersMatch'
    <2>1. Course(at, wire', answers', got') /\ at \in [0..Len(wire') -> Progress] /\ at[Len(wire')] = p
      BY <1>a, <1>s DEF p
    <2>2. CourseInv'
      BY <1>s, <2>1 DEF CourseInv
    <2> QED
      BY <1>s, <2>2 DEF AnswersMatch
  <1>x. ASSUME NEW f \in Frames, NEW q \in Progress, Takes(p, f, q), wire' = Append(wire, f),
               UNCHANGED <<answers, got>>, open' => Serving(q, job', inbox', asked')
        PROVE  CourseInv' /\ AnswersMatch'
    <2>1. PICK b \in [0..Len(wire') -> Progress] : Course(b, wire', answers, got) /\ b[Len(wire')] = q
      BY <1>a, <1>w, <1>x, Extended DEF p
    <2>2. CourseInv'
      BY <1>x, <2>1 DEF CourseInv
    <2> QED
      BY <1>x, <2>2 DEF AnswersMatch
  \* A channel that has closed takes no frame.
  <1>c. CASE ~open /\ ~Read
    <2>1. \A f : Send(f) => UNCHANGED wire
      BY <1>c DEF Send, Sendable
    <2>2. \A id : bulkError(id) => UNCHANGED wire
      BY <2>1 DEF bulkError
    <2>3. \A a, id, n : Begin(a, id, n) => UNCHANGED wire
      BY <1>c, <2>2 DEF Begin, Sendable
    <2>4. UNCHANGED <<open, answers, got>>
      BY <1>c DEF BulkNext, Handle, Listed, Captured, NotCaptured, Chunk, Lifecycle, Hangup, Ask
    <2>5. UNCHANGED wire
      <3>1. CASE Listed \/ Captured \/ NotCaptured
        BY <2>2, <2>3, <3>1 DEF Listed, Captured, NotCaptured
      <3>2. CASE Chunk
        BY <1>c, <2>2, <3>2 DEF Chunk, Sendable
      <3>3. CASE Lifecycle
        BY <2>1, <3>3 DEF Lifecycle
      <3> QED
        BY <1>c, <3>1, <3>2, <3>3 DEF BulkNext, Handle, Hangup, Ask
    <2> QED
      BY <1>c, <1>s, <2>4, <2>5
  \* The text that answers request d + 1, and the handler is free again.
  <1>e. ASSUME NEW k \in {"error", "quality"}, NEW n \in Nat, open, p = Between(d),
               wire' = Append(wire, Text(k, d + 1, n, 0)), UNCHANGED <<answers, got, asked>>,
               job' = Idle, Waiting(d + 1, inbox', asked)
        PROVE  CourseInv' /\ AnswersMatch'
    <2> DEFINE f == Text(k, d + 1, n, 0)
    <2>1. f \in Frames /\ f.kind = k /\ f.id = d + 1
      <3>1. k \in Kinds /\ n \in Nat /\ 0 \in 0..MaxPayload
        BY <1>w, <1>e, BulkAssumption DEF Kinds
      <3> QED
        BY <1>d, <3>1, TextIs
    <2>2. p.need = 0
      BY <1>e, <1>p, BetweenIs
    <2> HIDE DEF f
    <2>3. Takes(p, f, Between(d + 1))
      BY <1>e, <2>1, <2>2 DEF Takes
    <2>4. Serving(Between(d + 1), job', inbox', asked')
      BY <1>d, <1>e, <1>i DEF Serving
    <2> QED
      BY <1>d, <1>e, <1>x, <2>1, <2>3, <2>4 DEF f
  <1>f. ASSUME NEW k \in Kinds, NEW id \in Nat, NEW n \in Nat, NEW b \in 0..MaxPayload,
               n =< 1 + Escape * MaxText, open
        PROVE  Sendable(Text(k, id, n, b))
    <2>1. Text(k, id, n, b).len = n
      BY TextIs
    <2> QED
      BY <1>f, <1>m, <2>1, Fitting
  <1>g. ASSUME NEW id \in Nat, open, bulkError(id)
        PROVE  \E n \in Nat : wire' = Append(wire, Text("error", id, n, 0))
    <2>1. PICK n \in Nat : n =< 1 + Escape * MaxText /\ Send(Text("error", id, n, 0))
      BY <1>g, ErrorIs
    <2>2. Sendable(Text("error", id, n, 0))
      BY <1>f, <1>g, <2>1, BulkAssumption DEF Kinds
    <2> QED
      BY <2>1, <2>2 DEF Send
  <1>1. CASE Handle
    <2> DEFINE r == Head(inbox)
    <2>1. /\ open /\ job = Idle /\ inbox # <<>> /\ inbox' = Tail(inbox)
          /\ UNCHANGED <<open, bulkMax, asked, life, got, answers>>
      BY <1>1 DEF Handle
    <2>2. p = Between(d) /\ Waiting(d, inbox, asked)
      BY <1>p, <1>i, <2>1 DEF Serving
    <2>3. r.id = d + 1 /\ Waiting(d + 1, inbox', asked)
      BY <1>p, <1>w, <2>1, <2>2, Shifted
    <2> HIDE DEF r
    <2>4. CASE \E a \in {"list", "capture"} :
                 job' = [Idle EXCEPT !.at = a, !.id = r.id] /\ UNCHANGED <<wire, attached>>
      <3>1. PICK a \in {"list", "capture"} : job' = [Idle EXCEPT !.at = a, !.id = r.id]
        BY <2>4
      <3>2. job' = [at |-> a, id |-> d + 1, left |-> <<>>, size |-> 0]
        BY <2>3, <3>1 DEF Idle
      <3>3. job'.at \in {"list", "capture"} /\ job'.id = d + 1
        BY <3>2
      <3>4. Serving(p, job', inbox', asked')
        BY <2>1, <2>2, <2>3, <3>3 DEF Serving
      <3> QED
        BY <1>s, <2>1, <2>4, <3>4
    <2>5. CASE bulkError(r.id) /\ UNCHANGED <<job, attached>>
      <3>1. PICK n \in Nat : wire' = Append(wire, Text("error", d + 1, n, 0))
        BY <1>d, <1>g, <2>1, <2>3, <2>5
      <3> QED
        BY <1>e, <2>1, <2>2, <2>3, <2>5, <3>1
    <2>6. CASE attached' = FALSE /\ Send(Text("quality", r.id, 1, 0)) /\ UNCHANGED job
      <3>1. wire' = Append(wire, Text("quality", d + 1, 1, 0))
        <4>1. Sendable(Text("quality", d + 1, 1, 0))
          BY <1>d, <1>f, <1>l, <2>1, BulkAssumption DEF Kinds
        <4> QED
          BY <2>3, <2>6, <4>1 DEF Send
      <3> QED
        BY <1>e, <2>1, <2>2, <2>3, <2>6, <3>1
    <2> QED
      BY <1>1, <2>4, <2>5, <2>6 DEF Handle, r
  <1>2. CASE open /\ (Listed \/ Captured \/ NotCaptured)
    <2>1. /\ job.at \in {"list", "capture"}
          /\ UNCHANGED <<open, bulkMax, attached, asked, inbox, life, got, answers>>
      BY <1>2 DEF Listed, Captured, NotCaptured
    <2>2. p = Between(d) /\ job.id = d + 1 /\ Waiting(d + 1, inbox, asked) /\ job.id \in Requests
      BY <1>2, <1>j, <1>p, <2>1 DEF Serving
    <2>3. CASE \E a \in {"sims", "image"}, n \in 1..MaxPayload : Begin(a, job.id, n)
      <3>1. PICK a \in {"sims", "image"}, n \in 1..MaxPayload : Begin(a, job.id, n)
        BY <2>3
      <3> DEFINE h == Text("header", d + 1, 1, n)
                 q == [done |-> d, need |-> n, have |-> 0]
      <3>2. n \in 0..MaxPayload /\ n \in Nat /\ n > 0
        BY BulkAssumption
      <3>3. h \in Frames /\ h.kind = "header" /\ h.id = d + 1 /\ h.bytes = n
        BY <1>d, <3>2, TextIs DEF Kinds
      <3>4. Sendable(h)
        BY <1>2, <1>d, <1>f, <1>l, <3>2 DEF Kinds
      <3>5. /\ wire' = Append(wire, h)
            /\ job' = [at |-> a, id |-> d + 1, left |-> Payload(d + 1, n), size |-> chunkSize]
        BY <2>2, <3>1, <3>4 DEF Begin
      <3>6. Payload(d + 1, n) = Part(d + 1, 0, n)
        BY <2>2, PayloadIs
      <3>7. q \in Progress /\ q.done = d /\ q.need = n /\ q.have = 0
        BY <1>p, <3>2 DEF Progress
      <3>8. Takes(p, h, q)
        <4>1. p.need = 0
          BY <1>p, <2>2, BetweenIs
        <4> HIDE DEF h
        <4> QED
          BY <3>3, <4>1 DEF Takes
      <3> HIDE DEF h, q
      <3>9. Serving(q, job', inbox', asked')
        <4>1. job'.at = a /\ job'.id = d + 1 /\ job'.left = Part(d + 1, 0, n)
          BY <3>5, <3>6
        <4>2. n - 0 = n /\ 0 < n
          BY <3>2
        <4> QED
          BY <2>1, <2>2, <3>7, <4>1, <4>2 DEF Serving
      <3> QED
        BY <1>x, <2>1, <3>3, <3>5, <3>7, <3>8, <3>9
    <2>4. CASE bulkError(job.id) /\ job' = Idle
      <3>1. PICK n \in Nat : wire' = Append(wire, Text("error", d + 1, n, 0))
        BY <1>2, <1>d, <1>g, <2>2, <2>4
      <3> QED
        BY <1>2, <1>e, <2>1, <2>2, <2>4, <3>1
    <2> QED
      BY <1>2, <2>3, <2>4 DEF Listed, Captured, NotCaptured
  <1>3. CASE open /\ Chunk
    <2> DEFINE k == p.need - p.have
               m == Min({job.size, Len(job.left)})
               f == Binary(SubSeq(job.left, 1, m))
    <2>1. /\ job.at \in {"sims", "image"} /\ job.left \in Seq(Bytes)
          /\ job.size \in 1..FrameMax /\ (bulkMax > 0 => job.size =< bulkMax)
          /\ UNCHANGED <<open, bulkMax, attached, asked, inbox, life, got, answers>>
      BY <1>3, <1>j DEF Chunk
    <2>2. /\ p.have < p.need /\ job.left = Part(d + 1, p.have, k)
          /\ job.id = d + 1 /\ Waiting(d + 1, inbox, asked)
      BY <1>3, <1>p, <2>1 DEF Serving
    <2>3. k \in Nat \ {0}
      BY <1>p, <2>2
    <2>a. p.have \in Nat /\ p.need \in Nat /\ k = p.need - p.have
      BY <1>p
    <2> HIDE DEF k
    <2>4. Len(job.left) = k
      <3>1. Len(Part(d + 1, p.have, k)) = k
        BY <1>d, <2>a, <2>3, PartIs
      <3> QED
        BY <2>2, <3>1
    <2>5. m = (IF job.size =< k THEN job.size ELSE k) /\ m \in 1..k /\ m =< job.size /\ job.size \in Nat
      <3>1. job.size \in Int /\ k \in Int /\ FrameMax \in Nat
        BY <2>1, <2>3, BulkAssumption
      <3>2. m = IF job.size =< k THEN job.size ELSE k
        BY <2>4, <3>1, MinOfTwo
      <3> HIDE DEF m, k
      <3> QED
        BY <2>1, <2>3, <3>1, <3>2
    <2> HIDE DEF m, k
    <2>6. /\ SubSeq(job.left, 1, m) = Part(d + 1, p.have, m)
          /\ SubSeq(job.left, m + 1, k) = Part(d + 1, p.have + m, k - m)
      <3>1. m \in 0..k /\ k \in Nat
        BY <2>3, <2>5
      <3> QED
        <4> DEFINE e == d + 1
                   h == p.have
        <4>1. e \in Nat /\ h \in Nat
          BY <1>d, <2>a
        <4>2. job.left = Part(e, h, k)
          BY <2>2
        <4> HIDE DEF e, h
        <4>3. /\ SubSeq(Part(e, h, k), 1, m) = Part(e, h, m)
              /\ SubSeq(Part(e, h, k), m + 1, k) = Part(e, h + m, k - m)
          BY <3>1, <4>1, PartCut
        <4> QED
          BY <4>2, <4>3 DEF e, h
    <2>7. f \in Frames /\ f.kind = "chunk" /\ f.data = Part(d + 1, p.have, m) /\ f.len = m /\ Len(f.data) = m
      <3>1. \A i \in 1..m : job.left[i] \in Bytes
        <4>1. \A i \in 1..m : i \in 1..Len(job.left)
          BY <2>3, <2>4, <2>5
        <4> QED
          BY <2>1, <4>1, ElementOfSeq
      <3>2. SubSeq(job.left, 1, m) \in Seq(Bytes)
        BY <2>5, <3>1, SubSeqProperties
      <3>3. Len(SubSeq(job.left, 1, m)) = m
        <4>1. m \in Nat
          BY <2>5
        <4> QED
          BY <1>d, <1>p, <2>6, <4>1, PartIs
      <3> QED
        BY <2>6, <3>2, <3>3, BinaryIs
    <2> HIDE DEF f
    <2>8. Sendable(f)
      <3>1. m \in Nat /\ (bulkMax = 0 \/ m =< bulkMax)
        BY <1>m, <2>1, <2>5
      <3> QED
        BY <1>3, <1>m, <2>7, <3>1, Fitting
    <2>9. wire' = Append(wire, f) /\ job' = Remaining(Cut(job.left, job.size))
      BY <1>3, <2>8 DEF Chunk, f, m
    <2> DEFINE q == IF p.have + m = p.need THEN Between(d + 1)
                      ELSE [done |-> d, need |-> p.need, have |-> p.have + m]
    <2>10. q \in Progress /\ Takes(p, f, q)
      <3>1. p.have + m \in Nat /\ m \in 1..(p.need - p.have)
        BY <2>a, <2>5
      <3>2. p.need # 0
        BY <1>p, <2>2
      <3>3. q \in Progress
        <4>1. [done |-> d, need |-> p.need, have |-> p.have + m] \in Progress
          BY <1>p, <3>1, <3>2 DEF Progress
        <4> QED
          BY <1>d, <4>1
      <3>4. Takes(p, f, q)
        BY <2>7, <3>1 DEF Takes
      <3> QED
        BY <3>3, <3>4
    <2>11. CASE job.size < k
      <3>1. m = job.size /\ p.have + m # p.need /\ k - m \in Nat \ {0} /\ p.have + m \in Nat
            /\ p.need - (p.have + m) = k - m /\ p.have + m < p.need
        <4>1. m = job.size /\ m < k /\ m \in Nat
          BY <2>3, <2>5, <2>11
        <4> QED
          BY <2>a, <2>3, <4>1
      <3>2. Cut(job.left, job.size) = Part(d + 1, p.have + m, k - m)
        BY <2>4, <2>6, <3>1 DEF Cut
      <3>3. Len(Part(d + 1, p.have + m, k - m)) = k - m
        BY <1>d, <3>1, PartIs
      <3>4. Cut(job.left, job.size) # <<>>
        BY <3>1, <3>2, <3>3, EmptySeq
      <3>5. job' = [job EXCEPT !.left = Part(d + 1, p.have + m, k - m)]
        BY <2>9, <3>2, <3>4 DEF Remaining
      <3>6. job'.at = job.at /\ job'.id = d + 1 /\ job'.left = Part(d + 1, p.have + m, k - m)
        <4>1. job \in Jobs
          BY DEF BulkInv, JobInv
        <4> QED
          BY <2>2, <3>5, <4>1
      <3>7. q.done = d /\ q.need = p.need /\ q.have = p.have + m
        BY <3>1
      <3> HIDE DEF q
      <3>8. Serving(q, job', inbox', asked')
        BY <2>1, <2>2, <3>1, <3>6, <3>7 DEF Serving
      <3> QED
        BY <1>x, <2>1, <2>7, <2>9, <2>10, <3>8
    <2>12. CASE ~(job.size < k)
      <3>1. m = k /\ p.have + m = p.need
        <4>1. m = k
          BY <2>3, <2>5, <2>12
        <4> QED
          BY <2>a, <4>1
      <3>2. Cut(job.left, job.size) = <<>>
        <4>1. job.size + 1 \in Int /\ k \in Int /\ job.size + 1 > k
          BY <2>3, <2>5, <2>12
        <4> QED
          BY <2>1, <2>4, <4>1, SubSeqEmpty DEF Cut
      <3>3. job' = Idle /\ q = Between(d + 1)
        BY <2>9, <3>1, <3>2 DEF Remaining
      <3>4. Serving(Between(d + 1), job', inbox', asked')
        BY <1>d, <1>i, <2>1, <2>2, <3>3 DEF Serving
      <3> HIDE DEF q
      <3> QED
        BY <1>x, <2>1, <2>7, <2>9, <2>10, <3>3, <3>4
    <2> QED
      BY <2>11, <2>12
  <1>4. CASE open /\ Lifecycle
    <2>1. PICK n \in Nat : Send(Text("lifecycle", 0, n, 0))
      BY <1>4, LifecycleIs
    <2> DEFINE f == Text("lifecycle", 0, n, 0)
    <2>3. f \in Frames /\ f.kind = "lifecycle"
      BY TextIs, BulkAssumption DEF Kinds
    <2>4. wire' = wire \/ wire' = Append(wire, f)
      BY <2>1 DEF Send
    <2>5. UNCHANGED <<open, bulkMax, asked, inbox, job, got, answers>>
      BY <1>4 DEF Lifecycle
    <2> HIDE DEF f
    <2>6. Takes(p, f, p) /\ Serving(p, job', inbox', asked')
      BY <1>4, <1>p, <2>3, <2>5 DEF Takes
    <2> QED
      BY <1>p, <1>s, <1>x, <2>3, <2>4, <2>5, <2>6
  <1>5. CASE Hangup
    <2>1. ~open' /\ UNCHANGED <<wire, answers, got>>
      BY <1>5 DEF Hangup
    <2> QED
      BY <1>s, <2>1
  <1>6. CASE Ask
    <2>1. PICK t \in {"list", "screenshot", "quality", "bad"} : inbox' = Append(inbox, [id |-> asked', type |-> t])
      BY <1>6 DEF Ask
    <2>2. /\ open /\ asked' = asked + 1 /\ asked' \in Requests
          /\ UNCHANGED <<open, bulkMax, attached, job, life, wire, got, answers>>
      BY <1>6, <1>w, BulkAssumption DEF Ask, Requests
    <2> DEFINE r == [id |-> asked', type |-> t]
    <2>3. r \in Asked /\ r.id = asked + 1
      BY <2>2 DEF Asked
    <2> HIDE DEF r
    <2>4. \A n \in Nat : Waiting(n, inbox, asked) => Waiting(n, inbox', asked')
      BY <1>w, <2>1, <2>2, <2>3, Queued DEF r
    <2>5. Serving(p, job', inbox', asked')
      BY <1>d, <1>p, <2>2, <2>4 DEF Serving
    <2> QED
      BY <1>s, <2>2, <2>5
  <1>7. CASE Read
    <2> DEFINE f    == wire[1]
               o    == at[0]
               e    == o.done + 1
               have == got.have \o f.data
    <2>1. /\ wire # <<>> /\ wire' = Tail(wire) /\ Head(wire) = f
          /\ UNCHANGED <<open, bulkMax, attached, asked, inbox, job, life>>
      <3>1. wire # <<>> /\ wire' = Tail(wire) /\ UNCHANGED <<open, bulkMax, attached, asked, inbox, job, life>>
        BY <1>7 DEF Read
      <3> QED
        BY <1>w, <3>1, HeadTailProperties
    <2>2. 1 \in 1..Len(wire) /\ 1 \in 0..Len(wire) /\ 0 \in 0..Len(wire)
      BY <1>w, <2>1, EmptySeq
    <2>3. f \in Frames /\ o \in Progress /\ at[1] \in Progress
      BY <1>a, <1>w, <2>2, ElementOfSeq
    <2>4. Reader(o, answers, got) /\ Takes(o, f, at[1])
      <3>1. Takes(at[1 - 1], wire[1], at[1]) /\ 1 - 1 = 0
        BY <1>a, <2>2 DEF Course
      <3> QED
        BY <1>a, <3>1 DEF Course
    <2>5. /\ o.done \in Nat /\ o.need \in Nat /\ o.have \in Nat /\ (o.need = 0 => o.have = 0)
          /\ e \in Nat /\ Len(answers) = o.done /\ got.need = o.need /\ got.have = Part(e, 0, o.have)
      BY <2>3, <2>4 DEF Progress, Reader
    <2>6. got \in [need : 0..MaxPayload, have : Seq(Bytes)]
      BY DEF BulkInv, ChannelInv
    <2>7. f.kind \in Kinds
      BY <2>3 DEF Frames
    <2> HIDE DEF f, o, Reader, Takes
    \* It is enough that the client is where the frame was to take it.
    <2>q. ASSUME Reader(at[1], answers', got'),
                 \/ UNCHANGED answers
                 \/ \E x \in Replies : answers' = Append(answers, x) /\ x \in {<<<<e, 0>>>>, Payload(e, Len(x))}
          PROVE  CourseInv' /\ AnswersMatch'
      <3>1. PICK b \in [0..Len(wire') -> Progress] :
              Course(b, wire', answers', got') /\ b[Len(wire')] = p
        BY <1>a, <1>w, <2>1, <2>q, Shortened DEF p
      <3>2. CourseInv'
        BY <1>p, <2>1, <3>1 DEF CourseInv
      <3>3. AnswersMatch'
        <4>1. CASE UNCHANGED answers
          BY <4>1 DEF AnswersMatch
        <4>2. CASE ~UNCHANGED answers
          <5>1. PICK x \in Replies : answers' = Append(answers, x) /\ x \in {<<<<e, 0>>>>, Payload(e, Len(x))}
            BY <2>q, <4>2
          <5>2. /\ DOMAIN answers = 1..o.done /\ DOMAIN answers' = 1..e /\ answers'[e] = x
                /\ \A i \in 1..o.done : answers'[i] = answers[i]
            BY <1>w, <2>5, <5>1, AppendProperties, LenProperties
          <5>3. \A i \in 1..e : i \in 1..o.done \/ i = e
            BY <2>5
          <5> HIDE DEF e
          <5> QED
            BY <5>1, <5>2, <5>3 DEF AnswersMatch
        <4> QED
          BY <4>1, <4>2
      <3> QED
        BY <3>2, <3>3
    <2>8. CASE f.kind = "lifecycle"
      <3>1. at[1] = o
        BY <2>4, <2>8 DEF Takes
      <3>2. UNCHANGED <<got, answers>>
        BY <1>7, <2>1, <2>8 DEF Read
      <3> QED
        BY <2>4, <2>q, <3>1, <3>2
    <2>9. CASE f.kind \in {"error", "quality"}
      <3>1. o.need = 0 /\ f.id = e /\ at[1] = Between(e)
        BY <2>4, <2>9 DEF Takes
      <3>2. answers' = Append(answers, <<<<e, 0>>>>) /\ got' = got
        BY <1>7, <2>1, <2>9, <3>1 DEF Read
      <3> HIDE DEF e
      <3>3. <<<<e, 0>>>> \in Replies
        BY <2>5 DEF Replies
      <3>4. Len(answers') = o.done + 1
        BY <1>w, <2>5, <3>2, <3>3, AppendProperties
      <3>5. got.have = Part(e + 1, 0, 0)
        BY <2>5, <3>1, PartEmpty
      <3>6. Reader(at[1], answers', got')
        BY <2>5, <3>1, <3>2, <3>4, <3>5, BetweenIs DEF Reader, e
      <3> QED
        BY <2>q, <3>2, <3>3, <3>6
    <2>10. CASE f.kind = "header"
      <3>1. o.need = 0 /\ at[1] = [done |-> o.done, need |-> f.bytes, have |-> 0]
        BY <2>4, <2>10 DEF Takes
      <3>2. got' = [need |-> f.bytes, have |-> <<>>] /\ answers' = answers
        BY <1>7, <2>1, <2>10 DEF Read
      <3>3. at[1].done = o.done /\ at[1].need = f.bytes /\ at[1].have = 0
        BY <3>1
      <3>4. got'.need = f.bytes /\ got'.have = Part(e, 0, 0)
        BY <2>5, <3>2, PartEmpty
      <3>5. Reader(at[1], answers', got')
        BY <2>5, <3>2, <3>3, <3>4 DEF Reader
      <3> QED
        BY <2>q, <3>2, <3>5
    <2>11. CASE f.kind = "chunk"
      <3> DEFINE n == Len(f.data)
                 t == o.have + n
      <3>1. /\ n \in 1..(o.need - o.have) /\ f.data = Part(e, o.have, n)
            /\ at[1] = IF t = o.need THEN Between(e) ELSE [done |-> o.done, need |-> o.need, have |-> t]
        BY <2>4, <2>11 DEF Takes
      <3> HIDE DEF n
      <3>2. n \in Nat /\ t \in Nat /\ t =< o.need
        BY <2>5, <3>1
      <3> HIDE DEF e
      <3>3. have = Part(e, 0, t) /\ have \in Replies /\ Len(have) = t
        <4> DEFINE h == o.have
        <4>1. h \in Nat /\ e \in Nat /\ t = h + n
          BY <2>5
        <4>2. have = Part(e, 0, h) \o Part(e, h, n)
          BY <2>5, <3>1
        <4> HIDE DEF h, have, t
        <4>3. have = Part(e, 0, t)
          BY <3>2, <4>1, <4>2, PartConcat
        <4> QED
          BY <3>2, <4>1, <4>3, PartIs
      <3>4. IF Len(have) < got.need
              THEN got' = [got EXCEPT !.have = have] /\ answers' = answers
              ELSE got' = NoXfer /\ answers' = Append(answers, have)
        BY <1>7, <2>1, <2>11 DEF Read
      <3> HIDE DEF have, t
      <3>5. CASE t = o.need
        <4>1. got' = NoXfer /\ answers' = Append(answers, have) /\ at[1] = Between(e)
          BY <2>5, <3>1, <3>2, <3>3, <3>4, <3>5
        <4>2. Len(answers') = o.done + 1
          BY <1>w, <2>5, <3>3, <4>1, AppendProperties
        <4>3. got'.need = 0 /\ got'.have = Part(e + 1, 0, 0)
          BY <2>5, <4>1, PartEmpty DEF NoXfer
        <4>4. Reader(at[1], answers', got')
          BY <2>5, <4>1, <4>2, <4>3, BetweenIs DEF Reader, e
        <4>5. have = Payload(e, Len(have))
          <5>1. \A i \in 1..t : 0 + i = i
            BY <3>2
          <5>2. Part(e, 0, t) = Payload(e, t)
            BY <5>1 DEF Part, Payload
          <5> QED
            BY <3>3, <5>2
        <4> QED
          BY <2>q, <3>3, <4>1, <4>4, <4>5
      <3>6. CASE t # o.need
        <4>1. Len(have) < got.need
          BY <2>5, <3>2, <3>3, <3>6
        <4>2. got' = [got EXCEPT !.have = have] /\ answers' = answers
          BY <3>4, <4>1
        <4>3. got'.need = o.need /\ got'.have = Part(e, 0, t)
          BY <2>5, <2>6, <3>3, <4>2
        <4>4. at[1].done = o.done /\ at[1].need = o.need /\ at[1].have = t
          BY <3>1, <3>6
        <4>5. Reader(at[1], answers', got')
          BY <2>5, <4>2, <4>3, <4>4 DEF Reader, e
        <4> QED
          BY <2>q, <4>2, <4>5
      <3> QED
        BY <3>5, <3>6
    <2> QED
      BY <2>7, <2>8, <2>9, <2>10, <2>11 DEF Kinds
  <1> QED
    BY <1>c, <1>w, <1>1, <1>2, <1>3, <1>4, <1>5, <1>6, <1>7 DEF BulkNext, Handle
-----------------------------------------------------------------------------
(* Peer. *)

SInv == SessionTypeOK /\ HandInv /\ MadeInv /\ NoSessionForgotten /\ QuietInv /\ CandInv
IInv == SInv /\ BulkInv /\ CourseInv /\ AnswersMatch

\* No session is made at first, and the daemon is not connected.
LEMMA SInit == SessionInit => SInv
  <1> SUFFICES ASSUME SessionInit PROVE SInv
    OBVIOUS
  <1> USE SessionAssumption DEF SessionInit
  <1>e. <<>> \in Seq(Cands) /\ Len(<<>>) = 0
    BY EmptySeq
  <1>1. SessionTypeOK
    <2>1. /\ up \in BOOLEAN /\ join \in 0..MaxJoins /\ peer \in 0..join
          /\ authed \in BOOLEAN /\ trickle \in BOOLEAN /\ answering \in BOOLEAN
          /\ sess \in Sess \cup {NoSess} /\ made \in 0..MaxSess
      <3>1. /\ up = FALSE /\ authed = FALSE /\ trickle = FALSE /\ answering = FALSE
            /\ join = 0 /\ peer = 0 /\ sess = NoSess /\ made = 0
        BY DEF NoJoin
      <3>2. 0 \in 0..MaxJoins /\ 0 \in 0..0 /\ 0 \in 0..MaxSess
        OBVIOUS
      <3> QED
        BY <3>1, <3>2
    <2>2. early \in Seq(Cands) /\ Len(early) =< MaxEarly /\ pending \in Seq(Cands) /\ Len(pending) =< MaxEarly
      BY <1>e
    <2>3. heard \in [all : 0..MaxTrickle, before : 0..MaxTrickle]
      OBVIOUS
    <2>4. shake \in [Sess -> 0..MaxJoins]
      BY DEF NoJoin
    <2>5. applied \in [Sess -> Seq(Cands)]
      BY <1>e
    <2>6. /\ pc \in [Sess -> {"none", "new", "open", "gone", "closed"}]
          /\ fire \in [Sess -> {"no", "due", "done"}]
          /\ off \in [Sess -> BOOLEAN] /\ feed \in [Sess -> BOOLEAN]
          /\ gather \in [Sess -> {"silent", "on", "checked"}] /\ stray \in [Sess -> 0..2]
      OBVIOUS
    <2> QED
      BY <2>1, <2>2, <2>3, <2>4, <2>5, <2>6 DEF SessionTypeOK
  <1>2. made = 0 /\ 1..made = {}
    OBVIOUS
  <1>3. HandInv
    BY <1>2 DEF HandInv, NoJoin, NoSess
  <1>4. MadeInv
    BY <1>2 DEF MadeInv, NoJoin, Sess
  <1>5. NoSessionForgotten /\ QuietInv
    BY <1>2 DEF NoSessionForgotten, QuietInv
  <1>6. CandInv
    <2>1. held = 0
      BY DEF held
    <2>2. First(peer, 0) = <<>>
      BY FirstNone
    <2>3. heard.all = 0 /\ heard.before = 0 /\ early = <<>> /\ sess = NoSess
      OBVIOUS
    <2> QED
      BY <2>1, <2>2, <2>3 DEF CandInv
  <1> QED
    BY <1>1, <1>3, <1>4, <1>5, <1>6 DEF SInv

\* Nothing was asked at first, and the channel is empty.
LEMMA BInit == BulkInit => BulkInv /\ CourseInv /\ AnswersMatch
  <1> SUFFICES ASSUME BulkInit PROVE BulkInv /\ CourseInv /\ AnswersMatch
    OBVIOUS
  <1>e. <<>> \in Seq(Bytes) /\ <<>> \in Seq(Asked) /\ <<>> \in Seq(Frames) /\ <<>> \in Seq(Replies)
        /\ Len(<<>>) = 0 /\ DOMAIN <<>> = {}
    BY EmptySeq
  <1>i. inbox = <<>> /\ wire = <<>> /\ answers = <<>> /\ job = Idle /\ got = NoXfer /\ asked = 0
    BY DEF BulkInit
  <1>j. /\ Idle \in Jobs
        /\ Idle.at = "idle" /\ Idle.left = <<>>
    BY <1>e DEF Idle, Jobs
  <1>g. NoXfer \in [need : 0..MaxPayload, have : Seq(Bytes)] /\ NoXfer.need = 0 /\ NoXfer.have = <<>>
    BY <1>e, BulkAssumption DEF NoXfer
  <1>1. BulkTypeOK
    <2>1. open \in BOOLEAN /\ bulkMax \in Negotiated /\ attached \in BOOLEAN /\ asked \in 0..MaxRequests /\ life \in 0..MaxLife
      <3>1. open = TRUE /\ bulkMax \in Negotiated /\ attached = FALSE /\ asked = 0 /\ life = 0
        BY DEF BulkInit
      <3>2. 0 \in 0..MaxRequests /\ 0 \in 0..MaxLife
        BY BulkAssumption
      <3> QED
        BY <3>1, <3>2
    <2>2. \A i \in DOMAIN inbox : inbox[i].type \in {"list", "screenshot", "quality", "bad"}
      BY <1>e, <1>i
    <2>3. /\ job.at \in {"idle", "list", "capture", "sims", "image"} /\ job.left \in Seq(Bytes)
          /\ (job.at \in {"sims", "image"} <=> job.left # <<>>)
      BY <1>e, <1>i, <1>j
    <2>4. got.need \in 0..MaxPayload /\ got.have \in Seq(Bytes)
      BY <1>g, <1>i
    <2> QED
      BY <2>1, <2>2, <2>3, <2>4 DEF BulkTypeOK
  <1>2. JobInv
    BY <1>i, <1>j DEF JobInv
  <1>3. ChannelInv /\ FrameBounds /\ AnswersMatch
    BY <1>e, <1>i, <1>g DEF ChannelInv, FrameBounds, AnswersMatch
  <1>4. CourseInv
    <2> DEFINE at == [i \in 0..0 |-> Between(0)]
    <2>1. Between(0) \in Progress /\ Between(0).done = 0 /\ Between(0).need = 0 /\ Between(0).have = 0
      BY BetweenIs
    <2>2. at \in [0..Len(wire) -> Progress] /\ at[0] = Between(0) /\ Len(wire) = 0 /\ 1..Len(wire) = {}
      BY <1>e, <1>i, <2>1
    <2>3. Part(1, 0, 0) = <<>>
      BY PartEmpty
    <2>4. Reader(Between(0), answers, got)
      BY <1>e, <1>i, <1>g, <2>1, <2>3 DEF Reader
    <2>5. Serving(Between(0), job, inbox, asked)
      <3>1. Waiting(0, inbox, asked)
        <4>1. Len(inbox) = 0 /\ 1..0 = {}
          BY <1>e, <1>i
        <4> QED
          BY <1>i, <4>1 DEF Waiting
      <3> QED
        BY <1>i, <1>j, <2>1, <3>1 DEF Serving
    <2> HIDE DEF at
    <2>6. Course(at, wire, answers, got) /\ Serving(at[Len(wire)], job, inbox, asked)
      BY <2>2, <2>4, <2>5 DEF Course
    <2> QED
      BY <2>2, <2>6 DEF CourseInv
  <1> QED
    BY <1>1, <1>2, <1>3, <1>4 DEF BulkInv

\* Every step of a session's part keeps its invariant.
LEMMA SStep ==
  ASSUME SInv, SessionNext
  PROVE  SInv'
  <1>1. SessionTypeOK'
    BY SessionTypeStep DEF SInv
  <1> QED
    BY <1>1, HandStep, ForgottenStep, QuietStep, CandStep DEF SInv

\* A part keeps what holds of it while the other takes its steps.
LEMMA SStays ==
  ASSUME SInv, UNCHANGED sessionVars
  PROVE  SInv'
  BY DEF SInv, sessionVars, hand, cur, peers, SessionTypeOK, HandInv, MadeInv, NoSessionForgotten,
         QuietInv, CandInv, Reoffered, Sole, held, Reached

\* The channel, too, keeps what holds of it.
LEMMA BStays ==
  ASSUME BulkInv, CourseInv, AnswersMatch, UNCHANGED bulkVars
  PROVE  BulkInv' /\ CourseInv' /\ AnswersMatch'
  BY DEF BulkInv, CourseInv, AnswersMatch, bulkVars, BulkTypeOK, JobInv, ChannelInv, FrameBounds, Roomy

\* The inductive invariant holds in every behaviour of a peer.
THEOREM Inductive == PeerSpec => []IInv
  <1>1. PeerInit => IInv
    BY SInit, BInit DEF PeerInit, IInv
  <1>2. IInv /\ [PeerNext]_peerVars => IInv'
    <2> SUFFICES ASSUME IInv, [PeerNext]_peerVars PROVE IInv'
      OBVIOUS
    <2>1. CASE SessionNext /\ UNCHANGED bulkVars
      BY <2>1, SStep, BStays DEF IInv
    <2>2. CASE BulkNext /\ UNCHANGED sessionVars
      BY <2>2, SStays, BulkTypeStep, CourseStep DEF IInv
    <2>3. CASE UNCHANGED peerVars
      BY <2>3, SStays, BStays DEF IInv, peerVars
    <2> QED
      BY <2>1, <2>2, <2>3 DEF PeerNext
  <1> QED
    BY <1>1, <1>2, PTL DEF PeerSpec

\* Both parts keep their types, and neither the early nor the pending candidates
\* outgrow their cap (remote.go:328, peer.go:185).
THEOREM TypeCorrect == PeerSpec => []PeerTypeOK
  <1>1. IInv => PeerTypeOK
    BY DEF IInv, SInv, BulkInv, PeerTypeOK
  <1> QED
    BY <1>1, Inductive, PTL

\* Whatever join, refusal, failed answer or lost connection comes, no session of
\* a client that is gone keeps its feed or its peer (remote.go:177-192).
THEOREM NoneForgotten == PeerSpec => []NoSessionForgotten
  <1>1. IInv => NoSessionForgotten
    BY DEF IInv, SInv
  <1> QED
    BY <1>1, Inductive, PTL

\* pion gets the candidates of its own client, in order, after the offer
\* (remote.go:298-306, 324-333, peer.go:179-193).
THEOREM CandidatesArrive == PeerSpec => []CandidatesReach
  <1>1. IInv => CandidatesReach
    <2> DEFINE n == Min({heard.before, MaxEarly})
               m == heard.all - heard.before
    <2> SUFFICES ASSUME IInv, sess # NoSess, ~answering, \A r \in Sess : r # sess => shake[r] # shake[sess]
                 PROVE  applied[sess] = [i \in 1..(n + m) |->
                          <<shake[sess], IF i =< n THEN i ELSE heard.before + i - n>>]
      BY DEF CandidatesReach
    <2>1. heard.before \in Int /\ MaxEarly \in Int
      BY SessionAssumption DEF IInv, SInv, SessionTypeOK
    <2>2. Min({heard.before, MaxEarly}) = IF heard.before =< MaxEarly THEN heard.before ELSE MaxEarly
      BY <2>1, MinOfTwo, Zenon
    <2>3. n = held
      BY <2>2 DEF held
    <2>4. applied[sess] = Reached(shake[sess])
      BY DEF IInv, SInv, CandInv, Sole
    <2> HIDE DEF n
    <2> QED
      BY <2>3, <2>4 DEF Reached, Skip
  <1> QED
    BY <1>1, Inductive, PTL

\* Of a cancelled session at most the one candidate that had passed the check
\* reaches the client of a later handshake (remote.go:284-296).
THEOREM QuietOnceDead == PeerSpec => []DeadIsQuiet
  <1>1. IInv => DeadIsQuiet
    <2> SUFFICES ASSUME IInv, NEW s \in 1..made, ~Reoffered(s) PROVE stray[s] =< 1
      BY DEF DeadIsQuiet
    <2>1. stray[s] \in {0, 1}
      BY DEF IInv, SInv, QuietInv
    <2> QED
      BY <2>1
  <1> QED
    BY <1>1, Inductive, PTL

\* Answer by answer a client gets what it asked for, and every payload whole
\* (bulk.go:76-84, 110-114, 246-271).
THEOREM AnswersArrive == PeerSpec => []AnswersMatch
  <1>1. IInv => AnswersMatch
    BY DEF IInv
  <1> QED
    BY <1>1, Inductive, PTL

\* However long the backend's error and whatever SCTP negotiated, a transfer's
\* frames and a quality's echo fit one packet, and a lifecycle reply keeps the
\* bound the cap gives it, which is no packet's (bulk.go:236-244, 281-295).
THEOREM FramesBounded == PeerSpec => []FrameBounds
  <1>1. IInv => FrameBounds
    BY DEF IInv, BulkInv
  <1> QED
    BY <1>1, Inductive, PTL
=============================================================================
