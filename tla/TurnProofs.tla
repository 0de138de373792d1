----------------------------- MODULE TurnProofs -----------------------------
(***************************************************************************)
(* Proofs about Turn, for any number of joins and reports and every TTL    *)
(* and timeout: the newest report wins, a credential handed out has nearly *)
(* half its life left, and a join waits a bounded time for it.             *)
(***************************************************************************)
EXTENDS Turn, FiniteSetTheorems, TLAPS

\* A row stands for a key once a report was taken for it.
RowInv == \A k \in Key : row[k].there <=> first[k] # {}

\* Nothing is minted while nobody asks; while f.mu is held a request is under
\* way, within its deadline, and a credential is minted after it was sent.
MuInv ==
  /\ mu = Nobody => minted = Never
  /\ mu # Nobody => now =< deadline /\ deadline =< now + FetchMax
  /\ mu # Nobody /\ minted # Never => deadline =< minted + FetchMax

\* A cached credential outlives its refresh.
CacheInv == refresh > 0 => cached + FetchMax >= refresh + (TTL - TTL \div 2)

\* The joins that had f.mu, or needed none.
Served == {c \in Client : step[c] \in {"fetch", "done"}}

\* A join at the lock has waited for no more than the requests of those.
WaitInv ==
  \A c \in Client : step[c] \in {"lock", "fetch"} =>
    (IF mu = Nobody THEN now ELSE deadline) =< since[c] + Cardinality(Served) * FetchMax

IInv == TurnTypeOK /\ RowInv /\ NewestWins /\ MuInv /\ CacheInv /\ LifeLeft /\ WaitInv

\* Products of naturals.
LEMMA ProdNat ==
  ASSUME NEW m \in Nat, NEW f \in Nat
  PROVE  m * f \in Nat
  OBVIOUS

LEMMA MultMono ==
  ASSUME NEW m \in Nat, NEW k \in Nat, NEW f \in Nat, m =< k
  PROVE  m * f =< k * f
  <1>1. PICK e \in Nat : k = m + e
    BY k - m \in Nat
  <1>2. k * f = m * f + e * f /\ e * f \in Nat /\ m * f \in Nat
    BY <1>1
  <1> QED
    BY <1>2

\* A bound may be raised.
LEMMA Larger ==
  ASSUME NEW x \in Nat, NEW y \in Nat, NEW s \in Nat, NEW m \in Nat, NEW k \in Nat, NEW f \in Nat,
         x =< y, y =< s + m * f, m * f =< k * f
  PROVE  x =< s + k * f
  <1>1. m * f \in Nat /\ k * f \in Nat
    OBVIOUS
  <1> QED
    BY <1>1

\* A time cut to the second is a time.
LEMMA WholeType ==
  ASSUME NEW t \in Nat
  PROVE  Whole(t) \in Nat
  <1>1. Second \in Nat \ {0}
    BY TurnAssumption
  <1>2. t \div Second \in Nat
    BY <1>1
  <1> QED
    BY <1>1, <1>2 DEF Whole

\* Half a TTL is no more than the TTL.
LEMMA HalfType == TTL \div 2 \in Nat /\ TTL \div 2 =< TTL
  BY TurnAssumption

\* The joins are finitely many, and so are those served.
LEMMA ServedCard ==
  /\ IsFiniteSet(Served)
  /\ Cardinality(Served) \in Nat
  /\ Cardinality(Served) =< Cardinality(Client)
  <1>1. IsFiniteSet(Client) /\ Served \subseteq Client
    BY TurnAssumption DEF Served
  <1> QED
    BY <1>1, FS_Subset, FS_CardinalityType

\* The invariant holds when the broker starts.
LEMMA InitIInv == TurnInit => IInv
  <1> SUFFICES ASSUME TurnInit PROVE IInv
    OBVIOUS
  <1> USE TurnAssumption DEF TurnInit
  <1>1. TurnTypeOK
    <2>1. Never \in Nat
      BY DEF Never
    <2>2. Absent \in [issued : Nat, expires : Nat, there : BOOLEAN] /\ Unanswered \in [at : Nat, expires : Nat]
      BY DEF Absent, Unanswered, NoRelay
    <2> QED
      BY <2>1, <2>2 DEF TurnTypeOK, Nobody
  <1>2. RowInv /\ NewestWins
    BY DEF RowInv, NewestWins, Absent
  <1>3. MuInv /\ CacheInv
    BY DEF MuInv, CacheInv
  <1>4. LifeLeft /\ WaitInv
    BY DEF LifeLeft, WaitInv, Unanswered
  <1> QED
    BY <1>1, <1>2, <1>3, <1>4 DEF IInv

\* What the endpoint does with a report keeps every row typed.
LEMMA UpsertType ==
  ASSUME TurnTypeOK, NEW r \in Reports, Upsert(r)
  PROVE  row' \in [Key -> [issued : Nat, expires : Nat, there : BOOLEAN]]
  <1>1. r.key \in Key /\ Whole(r.issued) \in Nat /\ Whole(r.expires) \in Nat
    BY TurnAssumption, WholeType
  <1>2. [issued |-> Whole(r.issued), expires |-> Whole(r.expires), there |-> TRUE]
          \in [issued : Nat, expires : Nat, there : BOOLEAN]
    BY <1>1
  <1> QED
    BY <1>1, <1>2 DEF TurnTypeOK, Upsert

\* Every step keeps every variable in its type, and f.mu with the one join
\* that is fetching.
LEMMA TypeStep ==
  ASSUME TurnTypeOK, [TurnNext]_turnVars
  PROVE  TurnTypeOK'
  <1>0. /\ Never \in Nat /\ Nobody \notin Client /\ NoRelay \in Nat
        /\ FetchMax \in Nat /\ TTL \in Nat /\ TTL \div 2 \in Nat /\ MaxTime \in Nat
    BY TurnAssumption, HalfType DEF Never, Nobody, NoRelay
  <1> USE <1>0 DEF TurnTypeOK, subs, turn, Goto, Give, Unlock
  <1>1. CASE \E r \in Reports : handleSubscription(r)
    <2>1. PICK r \in Reports : handleSubscription(r)
      BY <1>1
    <2>2. row' \in [Key -> [issued : Nat, expires : Nat, there : BOOLEAN]]
      BY <2>1, UpsertType DEF handleSubscription
    <2> QED
      BY <2>1, <2>2 DEF handleSubscription
  <1>2. ASSUME NEW c \in Client, Proved(c) PROVE TurnTypeOK'
    BY <1>2 DEF Proved
  <1>3. ASSUME NEW c \in Client, Lookup(c) PROVE TurnTypeOK'
    <2>1. step' \in [Client -> {"new", "lookup", "lock", "fetch", "done"}] /\ since' \in [Client -> 0..MaxTime]
      BY <1>3 DEF Lookup
    <2>2. given' \in [Client -> [at : Nat, expires : Nat]]
      BY <1>3 DEF Lookup
    <2>3. \A d \in Client : step'[d] = "fetch" <=> mu = d
      BY <1>3 DEF Lookup
    <2>4. UNCHANGED <<now, subs, turn>>
      BY <1>3 DEF Lookup
    <2> QED
      BY <2>1, <2>2, <2>3, <2>4
  <1>4. ASSUME NEW c \in Client, Cached(c) PROVE TurnTypeOK'
    BY <1>4 DEF Cached
  <1>5. ASSUME NEW c \in Client, Fetch(c) PROVE TurnTypeOK'
    BY <1>5 DEF Fetch
  <1>6. ASSUME NEW c \in Client, Fetched(c) PROVE TurnTypeOK'
    BY <1>6 DEF Fetched
  <1>7. ASSUME NEW c \in Client, FetchFails(c) PROVE TurnTypeOK'
    BY <1>7 DEF FetchFails
  <1>8. CASE Mint
    BY <1>8 DEF Mint
  <1>9. CASE Tick
    BY <1>9 DEF Tick
  <1>10. CASE UNCHANGED turnVars
    BY <1>10 DEF turnVars
  <1> QED
    BY <1>1, <1>2, <1>3, <1>4, <1>5, <1>6, <1>7, <1>8, <1>9, <1>10 DEF TurnNext, iceServers

\* Only a report changes the table.
LEMMA RowStep ==
  ASSUME TurnTypeOK, RowInv, NewestWins, [TurnNext]_turnVars
  PROVE  RowInv' /\ NewestWins'
  <1>1. CASE \E r \in Reports : handleSubscription(r)
    <2>1. PICK r \in Reports : handleSubscription(r)
      BY <1>1
    <2>2. r.key \in Key /\ Whole(r.issued) \in Nat /\ Whole(r.expires) \in Nat
      BY TurnAssumption, WholeType
    <2>3. /\ first' = [first EXCEPT ![r.key] =
                        IF \E q \in @ : Whole(q.issued) = Whole(r.issued) THEN @ ELSE @ \cup {r}]
          /\ Upsert(r)
      BY <2>1 DEF handleSubscription
    <2>4. ASSUME NEW k \in Key, k # r.key
          PROVE  row'[k] = row[k] /\ first'[k] = first[k]
      BY <2>2, <2>3, <2>4 DEF TurnTypeOK, Upsert
    <2>5. first'[r.key] = IF \E q \in first[r.key] : Whole(q.issued) = Whole(r.issued)
                            THEN first[r.key] ELSE first[r.key] \cup {r}
      BY <2>2, <2>3 DEF TurnTypeOK
    <2>6. \A q \in first[r.key] : Whole(q.issued) \in Nat
      BY <2>2, TurnAssumption, WholeType DEF TurnTypeOK
    <2> DEFINE Newest(q, S) == \A p \in S : p # q => Whole(p.issued) < Whole(q.issued)
    <2>7. CASE row[r.key].there /\ Whole(r.issued) =< row[r.key].issued
      <3>1. row' = row
        BY <2>3, <2>7 DEF Upsert
      <3>2. PICK q \in first[r.key] :
              /\ row[r.key].issued = Whole(q.issued) /\ row[r.key].expires = Whole(q.expires)
              /\ Newest(q, first[r.key])
        BY <2>2, <2>7 DEF RowInv, NewestWins
      <3>3. q \in first'[r.key] /\ Newest(q, first'[r.key])
        BY <2>2, <2>5, <2>6, <2>7, <3>2
      <3> QED
        BY <2>2, <2>4, <2>7, <3>1, <3>2, <3>3 DEF RowInv, NewestWins
    <2>8. CASE ~(row[r.key].there /\ Whole(r.issued) =< row[r.key].issued)
      <3>1. row'[r.key] = [issued |-> Whole(r.issued), expires |-> Whole(r.expires), there |-> TRUE]
        BY <2>2, <2>3, <2>8 DEF TurnTypeOK, Upsert
      <3>2. \A p \in first[r.key] : Whole(p.issued) < Whole(r.issued)
        <4> SUFFICES ASSUME NEW p \in first[r.key] PROVE Whole(p.issued) < Whole(r.issued)
          OBVIOUS
        <4>1. PICK q \in first[r.key] : row[r.key].issued = Whole(q.issued) /\ Newest(q, first[r.key])
          BY <2>2 DEF NewestWins
        <4>2. row[r.key].there
          BY <2>2 DEF RowInv
        <4>3. Whole(q.issued) < Whole(r.issued)
          BY <2>2, <2>6, <2>8, <4>1, <4>2
        <4> QED
          BY <2>2, <2>6, <4>1, <4>3
      <3>3. first'[r.key] = first[r.key] \cup {r}
        BY <2>2, <2>5, <2>6, <3>2
      <3>4. r \in first'[r.key] /\ Newest(r, first'[r.key])
        BY <3>2, <3>3
      <3> QED
        BY <2>4, <3>1, <3>4 DEF RowInv, NewestWins
    <2> QED
      BY <2>7, <2>8
  <1>2. CASE UNCHANGED subs
    BY <1>2 DEF RowInv, NewestWins, subs
  <1>3. [TurnNext]_turnVars => (\E r \in Reports : handleSubscription(r)) \/ UNCHANGED subs
    BY DEF TurnNext, turnVars, subs, Proved, iceServers, Lookup, Cached, Fetch, Fetched, FetchFails, Mint, Tick
  <1> QED
    BY <1>1, <1>2, <1>3

\* Every step keeps the request under way within its deadline.
LEMMA MuStep ==
  ASSUME TurnTypeOK, TurnTypeOK', MuInv, [TurnNext]_turnVars
  PROVE  MuInv'
  <1>0. Nobody \notin Client /\ FetchMax \in Nat /\ MaxTime \in Nat
    BY TurnAssumption DEF Nobody
  <1> USE <1>0 DEF TurnTypeOK, MuInv, turn, Goto, Give, Unlock
  <1>1. CASE UNCHANGED <<now, turn>>
    BY <1>1
  <1>2. ASSUME NEW c \in Client, Fetch(c) PROVE MuInv'
    BY <1>2 DEF Fetch, Never
  <1>3. ASSUME NEW c \in Client, Fetched(c) \/ FetchFails(c) PROVE MuInv'
    BY <1>3 DEF Fetched, FetchFails
  <1>4. CASE Mint
    BY <1>4 DEF Mint
  <1>5. CASE Tick
    <2>1. mu # Nobody => now < deadline
      BY <1>5 DEF Tick
    <2> QED
      BY <1>5, <2>1 DEF Tick
  <1>6. \/ UNCHANGED <<now, turn>>
        \/ \E c \in Client : Fetch(c) \/ Fetched(c) \/ FetchFails(c)
        \/ Mint \/ Tick
    BY DEF TurnNext, turnVars, handleSubscription, Proved, iceServers, Lookup, Cached
  <1> QED
    BY <1>1, <1>2, <1>3, <1>4, <1>5, <1>6

\* Every step keeps enough life in the credential, cached or handed out.
LEMMA LifeStep ==
  ASSUME TurnTypeOK, TurnTypeOK', MuInv, CacheInv, LifeLeft, [TurnNext]_turnVars
  PROVE  CacheInv' /\ LifeLeft'
  <1>0. /\ FetchMax \in Nat /\ TTL \in Nat \ {0} /\ MaxTime \in Nat /\ NoRelay = 0
        /\ TTL \div 2 \in Nat /\ TTL \div 2 =< TTL /\ Nobody \notin Client
    BY TurnAssumption, HalfType DEF NoRelay, Nobody
  <1> DEFINE h == TTL \div 2
  <1>00. h \in Nat /\ h =< TTL
    BY <1>0
  <1>1. CASE UNCHANGED <<cached, refresh, given>>
    BY <1>1 DEF CacheInv, LifeLeft
  <1>2. ASSUME NEW c \in Client, given' = [given EXCEPT ![c] = [at |-> now, expires |-> NoRelay]],
               UNCHANGED <<cached, refresh>>
        PROVE  CacheInv' /\ LifeLeft'
    BY <1>2 DEF TurnTypeOK, CacheInv, LifeLeft
  <1>3. ASSUME NEW c \in Client, NEW e \in Nat,
               given' = [given EXCEPT ![c] = [at |-> now, expires |-> e]],
               e + FetchMax >= now + (TTL - h)
        PROVE  LifeLeft'
    BY <1>3 DEF TurnTypeOK, LifeLeft
  <1>4. ASSUME NEW c \in Client, Cached(c) PROVE CacheInv' /\ LifeLeft'
    <2>1. cached \in Nat /\ refresh \in Nat /\ now \in Nat /\ now < refresh
      BY <1>4, <1>0 DEF Cached, TurnTypeOK
    <2>2. cached + FetchMax >= refresh + (TTL - h)
      BY <2>1 DEF CacheInv
    <2>3. cached + FetchMax >= now + (TTL - h)
      BY <1>0, <1>00, <2>1, <2>2
    <2>4. LifeLeft'
      BY <1>3, <1>4, <2>1, <2>3 DEF Cached, Give
    <2> QED
      BY <1>4, <2>4 DEF Cached, CacheInv, turn
  <1>5. ASSUME NEW c \in Client, Fetched(c) PROVE CacheInv' /\ LifeLeft'
    <2>1. now \in Nat /\ minted \in Nat /\ deadline \in Nat
      BY <1>0 DEF TurnTypeOK
    <2>2. now =< minted + FetchMax
      BY <1>0, <1>5, <2>1 DEF Fetched, TurnTypeOK, MuInv
    <2>3. cached' = minted + TTL /\ refresh' = now + h
      BY <1>5 DEF Fetched
    <2>4. cached' + FetchMax >= refresh' + (TTL - h)
      BY <1>0, <1>00, <2>1, <2>2, <2>3
    <2>5. (minted + TTL) + FetchMax >= now + (TTL - h) /\ minted + TTL \in Nat
      BY <1>0, <1>00, <2>1, <2>2
    <2> QED
      BY <1>3, <1>5, <2>4, <2>5 DEF Fetched, Give, CacheInv
  <1>6. ASSUME NEW c \in Client, FetchFails(c) PROVE CacheInv' /\ LifeLeft'
    BY <1>2, <1>6 DEF FetchFails, Give
  <1>7. ASSUME NEW c \in Client, Lookup(c) PROVE CacheInv' /\ LifeLeft'
    BY <1>1, <1>2, <1>7 DEF Lookup, Give, turn
  <1>8. \/ UNCHANGED <<cached, refresh, given>>
        \/ \E c \in Client : Lookup(c) \/ Cached(c) \/ Fetched(c) \/ FetchFails(c)
    BY DEF TurnNext, turnVars, turn, handleSubscription, Proved, iceServers, Fetch, Mint, Tick
  <1> QED
    BY <1>1, <1>4, <1>5, <1>6, <1>7, <1>8

\* Nobody is served twice: a join that goes on makes one more of them at most.
LEMMA ServedStep ==
  ASSUME TurnTypeOK, NEW c \in Client, NEW s \in {"lock", "fetch", "done"}, Goto(c, s),
         step[c] \in {"new", "lookup", "lock"} \/ s = "done"
  PROVE  /\ IsFiniteSet(Served')
         /\ Served \subseteq Served'
         /\ Cardinality(Served') \in Nat
         /\ Cardinality(Served) =< Cardinality(Served')
         /\ s # "lock" /\ c \notin Served => Cardinality(Served') = Cardinality(Served) + 1
  <1>1. Served' = IF s = "lock" THEN Served \ {c} ELSE Served \cup {c}
    BY DEF TurnTypeOK, Goto, Served
  <1>2. s = "lock" => c \notin Served
    BY DEF Served
  <1>3. Served' = Served \/ Served' = Served \cup {c}
    BY <1>1, <1>2
  <1>4. IsFiniteSet(Served) /\ Cardinality(Served) \in Nat
    BY ServedCard
  <1>5. IsFiniteSet(Served \cup {c})
        /\ Cardinality(Served \cup {c}) = IF c \in Served THEN Cardinality(Served) ELSE Cardinality(Served) + 1
    BY <1>4, FS_AddElement
  <1>6. CASE Served' = Served
    <2>1. s # "lock" => c \in Served
      BY <1>1, <1>6
    <2> QED
      BY <1>4, <1>6, <2>1
  <1>7. CASE Served' = Served \cup {c}
    BY <1>4, <1>5, <1>7
  <1> QED
    BY <1>3, <1>6, <1>7

\* Every step keeps the wait within the requests of the joins before.
LEMMA WaitStep ==
  ASSUME TurnTypeOK, TurnTypeOK', MuInv, MuInv', WaitInv, [TurnNext]_turnVars
  PROVE  WaitInv'
  <1>0. /\ FetchMax \in Nat /\ MaxTime \in Nat /\ Nobody \notin Client
        /\ IsFiniteSet(Served) /\ Cardinality(Served) \in Nat
    BY TurnAssumption, ServedCard DEF Nobody
  <1> DEFINE n == Cardinality(Served)
             Bound(c, m) == since[c] + m * FetchMax
  <1>1. CASE UNCHANGED <<now, step, since, mu, deadline>>
    BY <1>1 DEF WaitInv, Served
  <1>2. ASSUME NEW c \in Client, Proved(c) PROVE WaitInv'
    <2>1. Served' = Served
      BY <1>2 DEF Proved, Goto, TurnTypeOK, Served
    <2> QED
      BY <1>2, <2>1 DEF Proved, Goto, turn, TurnTypeOK, WaitInv
  <1>3. CASE Tick
    <2>1. Served' = Served
      BY <1>3 DEF Tick, Served
    <2>2. mu = Nobody => \A c \in Client : step[c] \notin {"lock", "fetch"}
      BY <1>0, <1>3 DEF Tick, Idle, TurnTypeOK
    <2> QED
      BY <1>3, <2>1, <2>2 DEF Tick, turn, WaitInv
  <1>4. CASE Mint
    BY <1>4 DEF Mint, WaitInv, Served
  <1>5. ASSUME NEW c \in Client, NEW d \in Client, Lookup(c), step'[d] \in {"lock", "fetch"}
        PROVE  (IF mu' = Nobody THEN now' ELSE deadline') =< since'[d] + Cardinality(Served') * FetchMax
    <2>1. PICK s \in {"lock", "done"} : Goto(c, s)
      BY <1>5 DEF Lookup
    <2>2. /\ Cardinality(Served') \in Nat /\ n =< Cardinality(Served') /\ IsFiniteSet(Served')
          /\ Served \subseteq Served'
      BY <1>5, <2>1, ServedStep DEF Lookup
    <2>3. n * FetchMax =< Cardinality(Served') * FetchMax
      BY <1>0, <2>2, MultMono
    <2>4. UNCHANGED <<now, mu, deadline>> /\ since' = [since EXCEPT ![c] = now]
      BY <1>5 DEF Lookup, turn
    <2>5. CASE d # c
      <3>1. step'[d] = step[d] /\ since'[d] = since[d]
        BY <1>5, <2>1, <2>4, <2>5 DEF TurnTypeOK, Goto
      <3>2. (IF mu = Nobody THEN now ELSE deadline) =< since[d] + n * FetchMax
        BY <1>5, <3>1 DEF WaitInv
      <3>3. since[d] \in Nat /\ now \in Nat /\ deadline \in Nat
        BY <1>0 DEF TurnTypeOK
      <3> QED
        BY <1>0, <2>2, <2>3, <2>4, <3>1, <3>2, <3>3, Larger
    <2>6. CASE d = c
      <3>1. since'[d] = now /\ now \in Nat /\ deadline \in Nat
        BY <1>0, <2>4, <2>6 DEF TurnTypeOK
      <3>2. CASE mu = Nobody
        BY <1>0, <2>2, <2>4, <3>1, <3>2, ProdNat
      <3>3. CASE mu # Nobody
        <4>1. mu \in Served /\ deadline =< now + FetchMax
          BY <3>3 DEF TurnTypeOK, Served, MuInv
        <4>2. Cardinality(Served) >= 1
          BY <1>0, <4>1, FS_EmptySet
        <4>3. 1 * FetchMax =< Cardinality(Served') * FetchMax
          BY <1>0, <2>2, <4>2, MultMono
        <4> QED
          BY <1>0, <2>2, <2>4, <3>1, <3>3, <4>1, <4>3, ProdNat
      <3> QED
        BY <3>2, <3>3
    <2> QED
      BY <2>5, <2>6
  <1>6. ASSUME NEW c \in Client, NEW d \in Client, step'[d] \in {"lock", "fetch"},
               Cached(c) \/ Fetched(c) \/ FetchFails(c)
        PROVE  (IF mu' = Nobody THEN now' ELSE deadline') =< since'[d] + Cardinality(Served') * FetchMax
    <2>1. Goto(c, "done") /\ UNCHANGED <<now, since>> /\ mu' = Nobody
      BY <1>6 DEF Cached, Fetched, FetchFails, Unlock, turn
    <2>2. Cardinality(Served') \in Nat /\ n =< Cardinality(Served')
      BY <2>1, ServedStep
    <2>3. n * FetchMax =< Cardinality(Served') * FetchMax
      BY <1>0, <2>2, MultMono
    <2>4. d # c /\ step[d] = step'[d]
      BY <1>6, <2>1 DEF TurnTypeOK, Goto
    <2>5. (IF mu = Nobody THEN now ELSE deadline) =< since[d] + n * FetchMax
      BY <1>6, <2>4 DEF WaitInv
    <2>6. since[d] \in Nat /\ now \in Nat /\ deadline \in Nat
      BY <1>0 DEF TurnTypeOK
    <2>7. now =< IF mu = Nobody THEN now ELSE deadline
      BY <2>6 DEF MuInv
    <2> QED
      BY <1>0, <2>1, <2>2, <2>3, <2>5, <2>6, <2>7, Larger
  <1>7. ASSUME NEW c \in Client, NEW d \in Client, step'[d] \in {"lock", "fetch"}, Fetch(c)
        PROVE  (IF mu' = Nobody THEN now' ELSE deadline') =< since'[d] + Cardinality(Served') * FetchMax
    <2>1. /\ Goto(c, "fetch") /\ UNCHANGED <<now, since>>
          /\ mu = Nobody /\ mu' = c /\ deadline' = now + FetchMax /\ step[c] = "lock"
      BY <1>7 DEF Fetch
    <2>2. Cardinality(Served') = n + 1
      BY <2>1, ServedStep DEF Served
    <2>3. step[d] \in {"lock", "fetch"}
      BY <1>7, <2>1 DEF TurnTypeOK, Goto
    <2>4. now =< since[d] + n * FetchMax
      BY <2>1, <2>3 DEF WaitInv
    <2>5. since[d] \in Nat /\ now \in Nat
      BY <1>0 DEF TurnTypeOK
    <2>6. (n + 1) * FetchMax = n * FetchMax + FetchMax /\ n * FetchMax \in Nat
      BY <1>0
    <2> HIDE DEF n
    <2>7. deadline' =< since[d] + Cardinality(Served') * FetchMax
      BY <1>0, <2>1, <2>2, <2>4, <2>5, <2>6
    <2> QED
      BY <1>0, <2>1, <2>7
  <1>8. \/ UNCHANGED <<now, step, since, mu, deadline>> \/ Tick \/ Mint
        \/ \E c \in Client : Proved(c) \/ Lookup(c) \/ Cached(c) \/ Fetched(c) \/ FetchFails(c) \/ Fetch(c)
    BY DEF TurnNext, turnVars, turn, handleSubscription, iceServers
  <1> QED
    BY <1>1, <1>2, <1>3, <1>4, <1>5, <1>6, <1>7, <1>8 DEF WaitInv

\* The invariant is inductive.
LEMMA Inductive == TurnSpec => []IInv
  <1>1. IInv /\ [TurnNext]_turnVars => IInv'
    BY TypeStep, RowStep, MuStep, LifeStep, WaitStep DEF IInv
  <1> QED
    BY <1>1, InitIInv, PTL DEF TurnSpec

\* Every variable has its type, and f.mu is held by the join that is fetching.
THEOREM TypeCorrect == TurnSpec => []TurnTypeOK
  <1>1. IInv => TurnTypeOK
    BY DEF IInv
  <1> QED
    BY <1>1, Inductive, PTL

\* However late, often or out of order reports arrive, the row is the newest of
\* those that were taken, and the first of that second (sqlite.go:39-56).
THEOREM NewestReportWins == TurnSpec => []NewestWins
  <1>1. IInv => NewestWins
    BY DEF IInv
  <1> QED
    BY <1>1, Inductive, PTL

\* A credential handed out has nearly half its TTL left (cfturn.go:62-70, 102).
THEOREM CredentialLives == TurnSpec => []LifeLeft
  <1>1. IInv => LifeLeft
    BY DEF IInv
  <1> QED
    BY <1>1, Inductive, PTL

\* A join waits for no more than one request per join (cfturn.go:57-67).
THEOREM JoinWaitsBounded == TurnSpec => []WaitBounded
  <1>1. IInv => WaitBounded
    <2> SUFFICES ASSUME IInv, NEW c \in Client, step[c] \in {"lock", "fetch"}
                 PROVE  now =< since[c] + Cardinality(Client) * FetchMax
      BY DEF WaitBounded
    <2>1. /\ FetchMax \in Nat /\ now \in Nat /\ deadline \in Nat /\ since[c] \in Nat
          /\ Cardinality(Served) \in Nat /\ Cardinality(Served) =< Cardinality(Client)
          /\ Cardinality(Client) \in Nat
      BY TurnAssumption, ServedCard, FS_CardinalityType DEF IInv, TurnTypeOK
    <2>2. Cardinality(Served) * FetchMax =< Cardinality(Client) * FetchMax
      BY <2>1, MultMono
    <2>3. (IF mu = Nobody THEN now ELSE deadline) =< since[c] + Cardinality(Served) * FetchMax
      BY DEF IInv, WaitInv
    <2>4. now =< IF mu = Nobody THEN now ELSE deadline
      BY <2>1 DEF IInv, MuInv
    <2> QED
      BY <2>1, <2>2, <2>3, <2>4, Larger
  <1> QED
    BY <1>1, Inductive, PTL
=============================================================================
