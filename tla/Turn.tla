-------------------------------- MODULE Turn --------------------------------
(***************************************************************************)
(* How the broker decides who is handed a TURN relay, and with which       *)
(* credential: the subscription endpoint and its table                     *)
(* (internal/signalbroker/subscription.go, internal/store/sqlite.go),      *)
(* iceServers on the goroutine of each join whose proof was verified       *)
(* (broker.go), and the credential all of them share (cfturn.go).          *)
(*                                                                         *)
(* Reports reach the endpoint late, twice or out of order, whatever the    *)
(* client meant.  f.mu is held over the request to Cloudflare, which mints *)
(* a credential at some moment before its answer arrives, and may not      *)
(* answer at all; the HTTP client gives up after FetchMax.  Signatures,    *)
(* HTTP status codes and the STUN entry everybody gets are left out.       *)
(***************************************************************************)
EXTENDS Naturals, FiniteSets

CONSTANTS
  Client,     \* bound: the joins whose proof the broker verified
  Key,        \* client public keys
  KeyOf,      \* the key of each join
  Reports,    \* the subscription reports clients sign: key, issued, expires
  Second,     \* clock units in a second
  Window,     \* replayWindow
  TTL,        \* TURNTTL
  FetchMax,   \* the HTTP client's timeout
  MaxTime     \* bound: the clock stops here

ASSUME TurnAssumption ==
  /\ KeyOf \in [Client -> Key]
  /\ Reports \subseteq [key : Key, issued : Nat, expires : Nat]
  /\ Second \in Nat \ {0}
  /\ Window \in Nat /\ TTL \in Nat \ {0} /\ FetchMax \in Nat /\ MaxTime \in Nat
  /\ IsFiniteSet(Client) /\ "nobody" \notin Client

VARIABLES
  now,          \* the broker's clock
  gate,         \* how the broker is configured: who gets a relay
  row,          \* the subscriptions table: per key, issued_at and expires_at
  first,        \* history: per key, the first report taken of each second
  step,         \* per join: where iceServers is
  since,        \* per join: when it looked its subscription up
  mu,           \* who holds f.mu
  deadline,     \* when the request under way is given up
  minted,       \* when Cloudflare minted its answer, or Never
  cached,       \* when the cached credential expires
  refresh,      \* from when on it is fetched again
  given         \* per join: when it was answered, and its credential's expiry

subs == <<gate, row, first>>
turn == <<mu, deadline, minted, cached, refresh>>
turnVars == <<now, subs, step, since, turn, given>>

\* No relay is configured, TURNOpen hands one to every client whose proof was
\* verified, or the subscription decides.
Gates == {"none", "open", "subscribed"}

Nobody == "nobody"
Never  == MaxTime + FetchMax + 1
Absent == [issued |-> 0, expires |-> 0, there |-> FALSE]
NoRelay == 0
Unanswered == [at |-> 0, expires |-> NoRelay]

\* Every variable has its type, and f.mu is held by the join that is fetching.
TurnTypeOK ==
  /\ now \in 0..MaxTime
  /\ row \in [Key -> [issued : Nat, expires : Nat, there : BOOLEAN]]
  /\ gate \in Gates
  /\ first \in [Key -> SUBSET Reports]
  /\ step \in [Client -> {"new", "lookup", "lock", "fetch", "done"}]
  /\ since \in [Client -> 0..MaxTime]
  /\ mu \in Client \cup {Nobody}
  /\ deadline \in Nat
  /\ minted \in Nat
  /\ cached \in Nat /\ refresh \in Nat
  /\ given \in [Client -> [at : Nat, expires : Nat]]
  /\ \A c \in Client : step[c] = "fetch" <=> mu = c

TurnInit ==
  /\ now = 0
  /\ row = [k \in Key |-> Absent]
  /\ gate \in Gates
  /\ first = [k \in Key |-> {}]
  /\ step = [c \in Client |-> "new"]
  /\ since = [c \in Client |-> 0]
  /\ mu = Nobody
  /\ deadline = Never
  /\ minted = Never
  /\ cached = 0 /\ refresh = 0
  /\ given = [c \in Client |-> Unanswered]
-----------------------------------------------------------------------------
(* The subscription table.  Times are stored as RFC 3339 without a         *)
(* fraction, so to the second, and compared as strings.                    *)

Whole(t) == (t \div Second) * Second

\* Mutant of Upsert: a report of the row's own second replaces it.
UpsertMutant(r) ==
  row' = IF row[r.key].there /\ Whole(r.issued) < row[r.key].issued
           THEN row
           ELSE [row EXCEPT ![r.key] = [issued |-> Whole(r.issued), expires |-> Whole(r.expires),
                                        there |-> TRUE]]

\* Only a strictly newer report replaces the row.
Upsert(r) ==
  row' = IF row[r.key].there /\ Whole(r.issued) =< row[r.key].issued
           THEN row
           ELSE [row EXCEPT ![r.key] = [issued |-> Whole(r.issued), expires |-> Whole(r.expires),
                                        there |-> TRUE]]

Active(k) == row[k].there /\ row[k].expires > now

\* POST /v1/subscription with a report both of whose signatures hold.  One
\* outside the window is refused, and so is one the store fails on.
handleSubscription(r) ==
  /\ now =< r.issued + Window
  /\ r.issued =< now + Window
  /\ Upsert(r)
  /\ first' = [first EXCEPT ![r.key] =
                  IF \E q \in @ : Whole(q.issued) = Whole(r.issued) THEN @ ELSE @ \cup {r}]
  /\ UNCHANGED <<now, gate, step, since, turn, given>>
-----------------------------------------------------------------------------
(* iceServers and turnFetcher.get, on the goroutine of join c. *)

Goto(c, where) == step' = [step EXCEPT ![c] = where]
Give(c, expires) == given' = [given EXCEPT ![c] = [at |-> now, expires |-> expires]]

\* The broker has verified the proof.
Proved(c) ==
  /\ step[c] = "new"
  /\ Goto(c, "lookup")
  /\ UNCHANGED <<now, subs, since, turn, given>>

\* The gate: TURNOpen bypasses the subscription, and a lookup of it that fails
\* counts as none.
Lookup(c) ==
  /\ step[c] = "lookup"
  /\ since' = [since EXCEPT ![c] = now]
  /\ \/ /\ gate = "open" \/ (gate = "subscribed" /\ Active(KeyOf[c]))
        /\ Goto(c, "lock") /\ UNCHANGED given
     \/ gate # "open" /\ Goto(c, "done") /\ Give(c, NoRelay)
  /\ UNCHANGED <<now, subs, turn>>

\* f.mu is taken.  The cached credential does until refresh, ...
Cached(c) ==
  /\ step[c] = "lock"
  /\ mu = Nobody
  /\ now < refresh
  /\ Give(c, cached)
  /\ Goto(c, "done")
  /\ UNCHANGED <<now, subs, since, turn>>

\* ... and from then on a new one is asked for, with f.mu held.
Fetch(c) ==
  /\ step[c] = "lock"
  /\ mu = Nobody
  /\ now >= refresh
  /\ mu' = c
  /\ deadline' = now + FetchMax
  /\ Goto(c, "fetch")
  /\ UNCHANGED <<now, subs, since, minted, cached, refresh, given>>

\* Cloudflare mints the credential.
Mint ==
  /\ mu # Nobody
  /\ minted = Never
  /\ minted' = now
  /\ UNCHANGED <<now, subs, step, since, mu, deadline, cached, refresh, given>>

Unlock == mu' = Nobody /\ deadline' = Never /\ minted' = Never

\* Mutant of Fetched: the credential is kept for its whole TTL.
FetchedMutant(c) ==
  /\ step[c] = "fetch"
  /\ minted # Never
  /\ cached' = minted + TTL
  /\ refresh' = now + TTL
  /\ Give(c, minted + TTL)
  /\ Unlock
  /\ Goto(c, "done")
  /\ UNCHANGED <<now, subs, since>>

\* Its answer arrives: the credential is cached, and handed to join c.
Fetched(c) ==
  /\ step[c] = "fetch"
  /\ minted # Never
  /\ cached' = minted + TTL
  /\ refresh' = now + TTL \div 2
  /\ Give(c, minted + TTL)
  /\ Unlock
  /\ Goto(c, "done")
  /\ UNCHANGED <<now, subs, since>>

\* Mutant of FetchFails: an error path without the deferred unlock.
FetchFailsMutant(c) ==
  /\ step[c] = "fetch"
  /\ Give(c, NoRelay)
  /\ UNCHANGED turn
  /\ Goto(c, "done")
  /\ UNCHANGED <<now, subs, since>>

\* The request fails or times out: STUN only, and nothing is cached.
FetchFails(c) ==
  /\ step[c] = "fetch"
  /\ Give(c, NoRelay)
  /\ Unlock
  /\ UNCHANGED <<cached, refresh>>
  /\ Goto(c, "done")
  /\ UNCHANGED <<now, subs, since>>

\* Next to the time Cloudflare takes, goroutines and the table take none.
Idle ==
  /\ \A c \in Client : step[c] # "lookup"
  /\ mu = Nobody => \A c \in Client : step[c] # "lock"

Tick ==
  /\ now < MaxTime
  /\ (\E c \in Client : step[c] = "fetch") => now < deadline
  /\ Idle
  /\ now' = now + 1
  /\ UNCHANGED <<subs, step, since, turn, given>>

iceServers(c) == Lookup(c) \/ Cached(c) \/ Fetch(c) \/ Fetched(c) \/ FetchFails(c)

TurnNext ==
  \/ \E r \in Reports : handleSubscription(r)
  \/ \E c \in Client : Proved(c) \/ iceServers(c)
  \/ Mint
  \/ Tick

TurnSpec == TurnInit /\ [][TurnNext]_turnVars
-----------------------------------------------------------------------------
\* Reports may arrive late, twice and in any order: no report that was taken is
\* newer than the row, and the row is the report of its second that was taken
\* first, which a later one of the same second does not replace
\* (sqlite.go:39-56, subscription.go:42-46).
NewestWins ==
  \A k \in Key : first[k] # {} =>
    \E r \in first[k] :
      /\ row[k].issued = Whole(r.issued) /\ row[k].expires = Whole(r.expires)
      /\ \A q \in first[k] : q # r => Whole(q.issued) < Whole(r.issued)

\* Whoever is handed a relay gets a credential with nearly half its life left,
\* whether it was cached or fetched, and however long Cloudflare took
\* (cfturn.go:62-70, 102).
LifeLeft ==
  \A c \in Client : given[c].expires # NoRelay =>
    given[c].expires + FetchMax >= given[c].at + (TTL - TTL \div 2)

\* A join waits for its own request and for those of the joins before it, each
\* at most FetchMax: a slow Cloudflare delays the broker's answers, it does not
\* stop them (broker.go:97, cfturn.go:57-67).
WaitBounded ==
  \A c \in Client : step[c] \in {"lock", "fetch"} =>
    now =< since[c] + Cardinality(Client) * FetchMax
=============================================================================
