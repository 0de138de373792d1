--------------------------- MODULE PairingProofs ---------------------------
(***************************************************************************)
(* Proofs about Pairing, for every set of client keys, every TTL and every *)
(* number of codes: a code lets in one key, and a pinned key had a code.   *)
(***************************************************************************)
EXTENDS Pairing, TLAPS

\* The inductive invariant holds when the daemon starts with an empty store.
LEMMA InitIInv == Init => IInv
  <1> USE PairingAssumption
  <1> SUFFICES ASSUME Init PROVE IInv
    OBVIOUS
  <1>0. FlagsOK
    BY DEF Init, FlagsOK
  <1>1. TypeOK
    BY <1>0 DEF Init, TypeOK, FlagsOK, Time, Secret, None, NoTimer
  <1>2. GateInv /\ CodeInv /\ OneKeyPerCode /\ PinnedByCode /\ BlockHasTimer
    BY DEF Init, GateInv, CodeInv, OneKeyPerCode, PinnedByCode, BlockHasTimer, Secret, None
  <1> QED
    BY <1>1, <1>2 DEF IInv

\* An open window was armed, and neither used nor cancelled since.
LEMMA OpenWindow ==
  ASSUME State = "open"
  PROVE  armed /\ ~consumed /\ ~cancelled
  BY DEF State

\* Every step keeps the flags Boolean.
LEMMA FlagStep ==
  ASSUME FlagsOK, [Next]_vars
  PROVE  FlagsOK'
  <1> USE PairingAssumption DEF FlagsOK, window, ui, control, store, revoke, gate, history, Time, Secret, None, NoTimer
  <1>1. CASE onPair
    BY <1>1 DEF onPair, Open
  <1>2. CASE show
    BY <1>2 DEF show
  <1>3. CASE CancelStep
    BY <1>3 DEF CancelStep, onCancel, Close, retire
  <1>4. CASE TimerFires
    BY <1>4 DEF TimerFires
  <1>5. CASE ExpireStep
    BY <1>5 DEF ExpireStep, onExpire, Close, retire
  <1>6. CASE PostPair
    BY <1>6 DEF PostPair, Open
  <1>7. CASE GetPair
    BY <1>7 DEF GetPair
  <1>8. CASE \E k \in Key, s \in Secret \cup {None} : Connect(k, s)
    BY <1>8 DEF Connect, Ready, Accepts, cleanup
  <1>9. CASE BadProof
    BY <1>9 DEF BadProof, Ready, cleanup
  <1>10. CASE Proof
    BY <1>10 DEF Proof, Ready, Add, cleanup
  <1>11. CASE Enrolled
    BY <1>11 DEF Enrolled, retire
  <1>12. CASE PeerLeft
    BY <1>12 DEF PeerLeft, Ready, cleanup
  <1>13. CASE \E k \in Key : UnpairLoad(k)
    BY <1>13 DEF UnpairLoad
  <1>14. CASE UnpairSave
    BY <1>14 DEF UnpairSave
  <1>15. CASE Restart
    BY <1>15 DEF Restart, cleanup
  <1>16. CASE Tick
    BY <1>16 DEF Tick
  <1>17. CASE UNCHANGED vars
    BY <1>17 DEF vars
  <1> QED
    BY <1>1, <1>2, <1>3, <1>4, <1>5, <1>6, <1>7, <1>8, <1>9, <1>10, <1>11, <1>12, <1>13, <1>14, <1>15, <1>16, <1>17 DEF Next

\* Every step keeps every variable in its type.
LEMMA TypeStep ==
  ASSUME TypeOK, GateInv, FlagsOK', [Next]_vars
  PROVE  TypeOK'
  <1> USE PairingAssumption DEF TypeOK, FlagsOK, GateInv, window, ui, control, store, revoke, gate, history, Time, Secret, None, NoTimer
  <1>1. CASE onPair
    BY <1>1 DEF onPair, Open
  <1>2. CASE show
    BY <1>2 DEF show
  <1>3. CASE CancelStep
    BY <1>3 DEF CancelStep, onCancel, Close, retire
  <1>4. CASE TimerFires
    BY <1>4 DEF TimerFires
  <1>5. CASE ExpireStep
    BY <1>5 DEF ExpireStep, onExpire, Close, retire
  <1>6. CASE PostPair
    BY <1>6 DEF PostPair, Open
  <1>7. CASE GetPair
    BY <1>7 DEF GetPair
  <1>8. CASE \E k \in Key, s \in Secret \cup {None} : Connect(k, s)
    BY <1>8 DEF Connect, Ready, Accepts, cleanup
  <1>9. CASE BadProof
    BY <1>9 DEF BadProof, Ready, cleanup
  <1>10. CASE Proof
    BY <1>10 DEF Proof, Ready, Add, cleanup
  <1>11. CASE Enrolled
    BY <1>11 DEF Enrolled, retire
  <1>12. CASE PeerLeft
    BY <1>12 DEF PeerLeft, Ready, cleanup
  <1>13. CASE \E k \in Key : UnpairLoad(k)
    BY <1>13 DEF UnpairLoad
  <1>14. CASE UnpairSave
    BY <1>14 DEF UnpairSave
  <1>15. CASE Restart
    BY <1>15 DEF Restart, cleanup
  <1>16. CASE Tick
    BY <1>16 DEF Tick
  <1>17. CASE UNCHANGED vars
    BY <1>17 DEF vars
  <1> QED
    BY <1>1, <1>2, <1>3, <1>4, <1>5, <1>6, <1>7, <1>8, <1>9, <1>10, <1>11, <1>12, <1>13, <1>14, <1>15, <1>16, <1>17 DEF Next

\* A key is being enrolled exactly while a code is held for it.
LEMMA GateStep ==
  ASSUME TypeOK, GateInv, CodeInv, [Next]_vars
  PROVE  GateInv'
  <1> USE PairingAssumption DEF TypeOK, FlagsOK, GateInv, CodeInv, window, ui, control, store, revoke, gate, history, Time, Secret, None, NoTimer
  <1>1. CASE onPair
    BY <1>1 DEF onPair, Open
  <1>2. CASE show
    BY <1>2 DEF show
  <1>3. CASE CancelStep
    BY <1>3 DEF CancelStep, onCancel, Close, retire
  <1>4. CASE TimerFires
    BY <1>4 DEF TimerFires
  <1>5. CASE ExpireStep
    BY <1>5 DEF ExpireStep, onExpire, Close, retire
  <1>6. CASE PostPair
    BY <1>6 DEF PostPair, Open
  <1>7. CASE GetPair
    BY <1>7 DEF GetPair
  <1>8. CASE \E k \in Key, s \in Secret \cup {None} : Connect(k, s)
    <2>1. PICK k \in Key, s \in Secret \cup {None} : Connect(k, s)
      BY <1>8
    <2>2. CASE k \in mem
      BY <2>1, <2>2 DEF Connect, Ready, Accepts, cleanup
    <2>3. CASE k \notin mem /\ Accepts(s)
      <3>1. s = secret /\ secret # None
        BY <2>3, OpenWindow DEF Accepts
      <3> QED
        BY <2>1, <2>3, <3>1 DEF Connect, Ready
    <2>4. CASE k \notin mem /\ ~Accepts(s)
      BY <2>1, <2>4 DEF Connect, Ready, cleanup
    <2> QED
      BY <2>2, <2>3, <2>4
  <1>9. CASE BadProof
    BY <1>9 DEF BadProof, Ready, cleanup
  <1>10. CASE Proof
    BY <1>10 DEF Proof, Ready, Add, cleanup
  <1>11. CASE Enrolled
    BY <1>11 DEF Enrolled, retire
  <1>12. CASE PeerLeft
    BY <1>12 DEF PeerLeft, Ready, cleanup
  <1>13. CASE \E k \in Key : UnpairLoad(k)
    BY <1>13 DEF UnpairLoad
  <1>14. CASE UnpairSave
    BY <1>14 DEF UnpairSave
  <1>15. CASE Restart
    BY <1>15 DEF Restart, cleanup
  <1>16. CASE Tick
    BY <1>16 DEF Tick
  <1>17. CASE UNCHANGED vars
    BY <1>17 DEF vars
  <1> QED
    BY <1>1, <1>2, <1>3, <1>4, <1>5, <1>6, <1>7, <1>8, <1>9, <1>10, <1>11, <1>12, <1>13, <1>14, <1>15, <1>16, <1>17 DEF Next

\* verify clears the secret it accepts, so the armed code is always an unused one.
LEMMA CodeStep ==
  ASSUME TypeOK, GateInv, CodeInv, [Next]_vars
  PROVE  CodeInv'
  <1> USE PairingAssumption DEF TypeOK, GateInv, CodeInv, window, ui, control, store, revoke, gate, history, Time, Secret, None, NoTimer
  <1>1. CASE onPair
    BY <1>1 DEF onPair, Open
  <1>2. CASE show
    BY <1>2 DEF show
  <1>3. CASE CancelStep
    BY <1>3 DEF CancelStep, onCancel, Close, retire
  <1>4. CASE TimerFires
    BY <1>4 DEF TimerFires
  <1>5. CASE ExpireStep
    BY <1>5 DEF ExpireStep, onExpire, Close, retire
  <1>6. CASE PostPair
    BY <1>6 DEF PostPair, Open
  <1>7. CASE GetPair
    BY <1>7 DEF GetPair
  <1>8. CASE \E k \in Key, s \in Secret \cup {None} : Connect(k, s)
    <2>1. PICK k \in Key, s \in Secret \cup {None} : Connect(k, s)
      BY <1>8
    <2>2. CASE k \in mem
      BY <2>1, <2>2 DEF Connect, Ready, Accepts, cleanup
    <2>3. CASE k \notin mem /\ Accepts(s)
      <3>1. s = secret /\ secret # None
        BY <2>3, OpenWindow DEF Accepts
      <3> QED
        BY <2>1, <2>3, <3>1 DEF Connect, Ready
    <2>4. CASE k \notin mem /\ ~Accepts(s)
      BY <2>1, <2>4 DEF Connect, Ready, cleanup
    <2> QED
      BY <2>2, <2>3, <2>4
  <1>9. CASE BadProof
    BY <1>9 DEF BadProof, Ready, cleanup
  <1>10. CASE Proof
    BY <1>10 DEF Proof, Ready, Add, cleanup
  <1>11. CASE Enrolled
    BY <1>11 DEF Enrolled, retire
  <1>12. CASE PeerLeft
    BY <1>12 DEF PeerLeft, Ready, cleanup
  <1>13. CASE \E k \in Key : UnpairLoad(k)
    BY <1>13 DEF UnpairLoad
  <1>14. CASE UnpairSave
    BY <1>14 DEF UnpairSave
  <1>15. CASE Restart
    BY <1>15 DEF Restart, cleanup
  <1>16. CASE Tick
    BY <1>16 DEF Tick
  <1>17. CASE UNCHANGED vars
    BY <1>17 DEF vars
  <1> QED
    BY <1>1, <1>2, <1>3, <1>4, <1>5, <1>6, <1>7, <1>8, <1>9, <1>10, <1>11, <1>12, <1>13, <1>14, <1>15, <1>16, <1>17 DEF Next

\* A pin is added only for the key that holds the code.
LEMMA OneKeyStep ==
  ASSUME TypeOK, GateInv, CodeInv, OneKeyPerCode, [Next]_vars
  PROVE  OneKeyPerCode'
  <1> USE PairingAssumption DEF TypeOK, GateInv, CodeInv, OneKeyPerCode, window, ui, control, store, revoke, gate, history, Time, Secret, None, NoTimer
  <1>1. CASE onPair
    BY <1>1 DEF onPair, Open
  <1>2. CASE show
    BY <1>2 DEF show
  <1>3. CASE CancelStep
    BY <1>3 DEF CancelStep, onCancel, Close, retire
  <1>4. CASE TimerFires
    BY <1>4 DEF TimerFires
  <1>5. CASE ExpireStep
    BY <1>5 DEF ExpireStep, onExpire, Close, retire
  <1>6. CASE PostPair
    BY <1>6 DEF PostPair, Open
  <1>7. CASE GetPair
    BY <1>7 DEF GetPair
  <1>8. CASE \E k \in Key, s \in Secret \cup {None} : Connect(k, s)
    BY <1>8 DEF Connect, Ready, Accepts, cleanup
  <1>9. CASE BadProof
    BY <1>9 DEF BadProof, Ready, cleanup
  <1>10. CASE Proof
    BY <1>10 DEF Proof, Ready, Add, cleanup
  <1>11. CASE Enrolled
    BY <1>11 DEF Enrolled, retire
  <1>12. CASE PeerLeft
    BY <1>12 DEF PeerLeft, Ready, cleanup
  <1>13. CASE \E k \in Key : UnpairLoad(k)
    BY <1>13 DEF UnpairLoad
  <1>14. CASE UnpairSave
    BY <1>14 DEF UnpairSave
  <1>15. CASE Restart
    BY <1>15 DEF Restart, cleanup
  <1>16. CASE Tick
    BY <1>16 DEF Tick
  <1>17. CASE UNCHANGED vars
    BY <1>17 DEF vars
  <1> QED
    BY <1>1, <1>2, <1>3, <1>4, <1>5, <1>6, <1>7, <1>8, <1>9, <1>10, <1>11, <1>12, <1>13, <1>14, <1>15, <1>16, <1>17 DEF Next

\* The map, the file and the sibling's copy are only ever copied from one another, apart from the key a code lets in.
LEMMA PinnedStep ==
  ASSUME TypeOK, GateInv, CodeInv, PinnedByCode, [Next]_vars
  PROVE  PinnedByCode'
  <1> USE PairingAssumption DEF TypeOK, GateInv, PinnedByCode, window, ui, control, store, revoke, gate, history, Time, Secret, None, NoTimer
  <1>1. CASE onPair
    BY <1>1 DEF onPair, Open
  <1>2. CASE show
    BY <1>2 DEF show
  <1>3. CASE CancelStep
    BY <1>3 DEF CancelStep, onCancel, Close, retire
  <1>4. CASE TimerFires
    BY <1>4 DEF TimerFires
  <1>5. CASE ExpireStep
    BY <1>5 DEF ExpireStep, onExpire, Close, retire
  <1>6. CASE PostPair
    BY <1>6 DEF PostPair, Open
  <1>7. CASE GetPair
    BY <1>7 DEF GetPair
  <1>8. CASE \E k \in Key, s \in Secret \cup {None} : Connect(k, s)
    BY <1>8 DEF Connect, Ready, Accepts, cleanup
  <1>9. CASE BadProof
    BY <1>9 DEF BadProof, Ready, cleanup
  <1>10. CASE Proof
    <2>1. CASE ~enrolling
      BY <1>10, <2>1 DEF Proof
    <2>2. CASE enrolling
      <3>1. mem' = mem \cup {authPub} /\ disk' \subseteq disk \cup mem \cup {authPub} /\ loaded' = loaded
        BY <1>10, <2>2 DEF Proof, Add
      <3>2. via \in Secret /\ enrolledBy' = [enrolledBy EXCEPT ![via] = @ \cup {authPub}]
        BY <1>10, <2>2 DEF Proof, Add
      <3>3. authPub \in enrolledBy'[via] /\ \A s \in Secret : enrolledBy[s] \subseteq enrolledBy'[s]
        BY <3>2
      <3> QED
        BY <3>1, <3>2, <3>3
    <2> QED
      BY <2>1, <2>2
  <1>11. CASE Enrolled
    BY <1>11 DEF Enrolled, retire
  <1>12. CASE PeerLeft
    BY <1>12 DEF PeerLeft, Ready, cleanup
  <1>13. CASE \E k \in Key : UnpairLoad(k)
    BY <1>13 DEF UnpairLoad
  <1>14. CASE UnpairSave
    BY <1>14 DEF UnpairSave
  <1>15. CASE Restart
    BY <1>15 DEF Restart, cleanup
  <1>16. CASE Tick
    BY <1>16 DEF Tick
  <1>17. CASE UNCHANGED vars
    BY <1>17 DEF vars
  <1> QED
    BY <1>1, <1>2, <1>3, <1>4, <1>5, <1>6, <1>7, <1>8, <1>9, <1>10, <1>11, <1>12, <1>13, <1>14, <1>15, <1>16, <1>17 DEF Next

\* Whatever takes the timer away retires the block or has a callback under way.
LEMMA TimerStep ==
  ASSUME TypeOK, BlockHasTimer, [Next]_vars
  PROVE  BlockHasTimer'
  <1> USE PairingAssumption DEF TypeOK, BlockHasTimer, window, ui, control, store, revoke, gate, history, Time, Secret, None, NoTimer
  <1>1. CASE onPair
    BY <1>1 DEF onPair, Open
  <1>2. CASE show
    BY <1>2 DEF show
  <1>3. CASE CancelStep
    BY <1>3 DEF CancelStep, onCancel, Close, retire
  <1>4. CASE TimerFires
    BY <1>4 DEF TimerFires
  <1>5. CASE ExpireStep
    BY <1>5 DEF ExpireStep, onExpire, Close, retire
  <1>6. CASE PostPair
    BY <1>6 DEF PostPair, Open
  <1>7. CASE GetPair
    BY <1>7 DEF GetPair
  <1>8. CASE \E k \in Key, s \in Secret \cup {None} : Connect(k, s)
    BY <1>8 DEF Connect, Ready, Accepts, cleanup
  <1>9. CASE BadProof
    BY <1>9 DEF BadProof, Ready, cleanup
  <1>10. CASE Proof
    BY <1>10 DEF Proof, Ready, Add, cleanup
  <1>11. CASE Enrolled
    BY <1>11 DEF Enrolled, retire
  <1>12. CASE PeerLeft
    BY <1>12 DEF PeerLeft, Ready, cleanup
  <1>13. CASE \E k \in Key : UnpairLoad(k)
    BY <1>13 DEF UnpairLoad
  <1>14. CASE UnpairSave
    BY <1>14 DEF UnpairSave
  <1>15. CASE Restart
    BY <1>15 DEF Restart, cleanup
  <1>16. CASE Tick
    BY <1>16 DEF Tick
  <1>17. CASE UNCHANGED vars
    BY <1>17 DEF vars
  <1> QED
    BY <1>1, <1>2, <1>3, <1>4, <1>5, <1>6, <1>7, <1>8, <1>9, <1>10, <1>11, <1>12, <1>13, <1>14, <1>15, <1>16, <1>17 DEF Next

\* The map never runs ahead of the file by a key that is not spoiled, and
\* whoever is past the gate, or about to be, is in the map.
LEMMA StoreStep ==
  ASSUME TypeOK, GateInv, StoreInv, [Next]_vars
  PROVE  StoreInv'
  <1> USE PairingAssumption DEF TypeOK, FlagsOK, GateInv, StoreInv, window, ui, control, store, revoke, gate, history, Time, Secret, None
  <1>1. CASE onPair
    BY <1>1 DEF onPair, Open
  <1>2. CASE show
    BY <1>2 DEF show
  <1>3. CASE CancelStep
    BY <1>3 DEF CancelStep, onCancel, Close, retire
  <1>4. CASE TimerFires
    BY <1>4 DEF TimerFires
  <1>5. CASE ExpireStep
    BY <1>5 DEF ExpireStep, onExpire, Close, retire
  <1>6. CASE PostPair
    BY <1>6 DEF PostPair, Open
  <1>7. CASE GetPair
    BY <1>7 DEF GetPair
  <1>8. CASE \E k \in Key, s \in Secret \cup {None} : Connect(k, s)
    BY <1>8 DEF Connect, Ready, cleanup
  <1>9. CASE BadProof
    BY <1>9 DEF BadProof, Ready, cleanup
  <1>10. CASE Proof
    BY <1>10 DEF Proof, Ready, Add, cleanup
  <1>11. CASE Enrolled
    BY <1>11 DEF Enrolled, retire
  <1>12. CASE PeerLeft
    BY <1>12 DEF PeerLeft, Ready, cleanup
  <1>13. CASE \E k \in Key : UnpairLoad(k)
    BY <1>13 DEF UnpairLoad
  <1>14. CASE UnpairSave
    BY <1>14 DEF UnpairSave
  <1>15. CASE Restart
    BY <1>15 DEF Restart, cleanup
  <1>16. CASE Tick
    BY <1>16 DEF Tick
  <1>17. CASE UNCHANGED vars
    BY <1>17 DEF vars
  <1> QED
    BY <1>1, <1>2, <1>3, <1>4, <1>5, <1>6, <1>7, <1>8, <1>9, <1>10, <1>11, <1>12, <1>13, <1>14, <1>15, <1>16, <1>17 DEF Next

\* When saves do not fail and nobody unpairs, no key is spoiled.
LEMMA DurableStep ==
  ASSUME Faults \subseteq {"crash"}, TypeOK, GateInv, DurableInv, [Next]_vars
  PROVE  DurableInv'
  <1> USE PairingAssumption DEF TypeOK, FlagsOK, GateInv, DurableInv, window, ui, control, store, revoke, gate, history, Time, Secret, None
  <1>1. CASE onPair
    BY <1>1 DEF onPair, Open
  <1>2. CASE show
    BY <1>2 DEF show
  <1>3. CASE CancelStep
    BY <1>3 DEF CancelStep, onCancel, Close, retire
  <1>4. CASE TimerFires
    BY <1>4 DEF TimerFires
  <1>5. CASE ExpireStep
    BY <1>5 DEF ExpireStep, onExpire, Close, retire
  <1>6. CASE PostPair
    BY <1>6 DEF PostPair, Open
  <1>7. CASE GetPair
    BY <1>7 DEF GetPair
  <1>8. CASE \E k \in Key, s \in Secret \cup {None} : Connect(k, s)
    BY <1>8 DEF Connect, Ready, cleanup
  <1>9. CASE BadProof
    BY <1>9 DEF BadProof, Ready, cleanup
  <1>10. CASE Proof
    BY <1>10 DEF Proof, Ready, Add, cleanup
  <1>11. CASE Enrolled
    BY <1>11 DEF Enrolled, retire
  <1>12. CASE PeerLeft
    BY <1>12 DEF PeerLeft, Ready, cleanup
  <1>13. CASE \E k \in Key : UnpairLoad(k)
    BY <1>13 DEF UnpairLoad
  <1>14. CASE UnpairSave
    BY <1>14 DEF UnpairSave
  <1>15. CASE Restart
    BY <1>15 DEF Restart, cleanup
  <1>16. CASE Tick
    BY <1>16 DEF Tick
  <1>17. CASE UNCHANGED vars
    BY <1>17 DEF vars
  <1> QED
    BY <1>1, <1>2, <1>3, <1>4, <1>5, <1>6, <1>7, <1>8, <1>9, <1>10, <1>11, <1>12, <1>13, <1>14, <1>15, <1>16, <1>17 DEF Next

-----------------------------------------------------------------------------
\* The inductive invariant holds in every reachable state.
THEOREM Inductive == Spec => []IInv
  <1>1. Init => IInv
    BY InitIInv
  <1>2. IInv /\ [Next]_vars => IInv'
    BY FlagStep, TypeStep, GateStep, CodeStep, OneKeyStep, PinnedStep, TimerStep DEF IInv, TypeOK
  <1> QED
    BY <1>1, <1>2, PTL DEF Spec

\* A code lets in at most one key (pairing_window.go:47-69).
THEOREM OneKeyPerCodeHolds == Spec => []OneKeyPerCode
  <1>1. IInv => OneKeyPerCode
    BY DEF IInv
  <1> QED
    BY <1>1, Inductive, PTL

\* No key is pinned that no code let in (pinned.go, remote.go:243-262).
THEOREM PinsHaveCodes == Spec => []PinnedByCode
  <1>1. IInv => PinnedByCode
    BY DEF IInv
  <1> QED
    BY <1>1, Inductive, PTL

\* A block on screen always has a timer or its callback (main.go:552-586).
THEOREM BlocksHaveTimers == Spec => []BlockHasTimer
  <1>1. IInv => BlockHasTimer
    BY DEF IInv
  <1> QED
    BY <1>1, Inductive, PTL

\* Every variable keeps its type.
THEOREM TypeCorrect == Spec => []TypeOK
  <1>1. IInv => TypeOK
    BY DEF IInv
  <1> QED
    BY <1>1, Inductive, PTL

\* A client past the gate is on disk, or its own save failed, or another
\* process took it off the file (pinned.go:63-109, remote.go:250-253).
THEOREM GreetedAreDurable == Spec => []HelloDurable
  <1>1. Init => StoreInv
    BY PairingAssumption DEF Init, StoreInv
  <1>2. IInv /\ StoreInv /\ [Next]_vars => StoreInv'
    BY StoreStep DEF IInv
  <1>3. StoreInv => HelloDurable
    BY DEF StoreInv, HelloDurable
  <1> QED
    BY <1>1, <1>2, <1>3, Inductive, PTL DEF Spec

\* A client past the gate is on disk, whatever crashes, as long as saves
\* succeed and no other process writes the file (remote.go:250-253).
THEOREM HelloTruthful == Faults \subseteq {"crash"} /\ Spec => []HelloNeverLies
  <1> SUFFICES ASSUME Faults \subseteq {"crash"}
               PROVE  Spec => []HelloNeverLies
    OBVIOUS
  <1>1. Init => DurableInv
    BY DEF Init, DurableInv
  <1>2. IInv /\ DurableInv /\ [Next]_vars => DurableInv'
    BY DurableStep DEF IInv
  <1>3. DurableInv /\ HelloDurable => HelloNeverLies
    BY DEF DurableInv, HelloDurable, HelloNeverLies
  <1> QED
    BY <1>1, <1>2, <1>3, Inductive, GreetedAreDurable, PTL DEF Spec
=============================================================================
