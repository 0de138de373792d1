---------------------------- MODULE HelperProofs ----------------------------
(***************************************************************************)
(* Proofs about Helper, for every timeout, every width of a timestamp and  *)
(* every number of lines and frames: what newControl says of an attempt is *)
(* true, Close leaves nothing behind, the frames follow the device's       *)
(* clock, and the feed keeps the contract of Feed.                         *)
(***************************************************************************)
EXTENDS Helper, SequenceTheorems, TLAPS

\* Where newControl, Close and the goroutine of readFrames may be together.
StageInv ==
  /\ main \in {"idle", "select"} => branch = "none" /\ outcome = "none" /\ closer = "idle"
  /\ main = "idle" => ~ctx
  /\ main = "close" => branch \in {"failed", "done", "timeout", "cancelled"} /\ outcome = "none"
  /\ main = "returned" <=> outcome # "none"
  /\ reader # "off" => outcome = "feed"
  /\ outcome = "feed" /\ closer # "idle" => ctx

\* Close gets past each of its stages once that stage is over.
CloseInv ==
  /\ done => helper = "dead" \/ pipe # <<>>
  /\ closer \in {"wait", "closed"} => helper = "dead"
  /\ closer = "closed" => done /\ reader \in {"off", "gone"}
  /\ outcome \notin {"none", "feed"} => closer = "closed"

\* A failure that was said is in the pipe, behind every other line, or was
\* read, or was what newControl went by.
FailureInv ==
  /\ helper \in {"starting", "wedged", "up"} => "failure" \notin said
  /\ "failure" \in said =>
       \/ pipe # <<>> /\ pipe[Len(pipe)] = "failure"
       \/ failed
       \/ branch = "failed"
  /\ outcome = "exited" => Deaf \/ (done /\ "failure" \notin said)

\* Before anyone gives the attempt up, only the process itself ends it.
CauseInv ==
  /\ helper = "dead" <=> cause # "none"
  /\ ~ctx /\ main \in {"idle", "select"} => stdin /\ cause # "stopped"
  /\ branch = "done" => done /\ (~ctx => Deaf \/ cause = "itself")
  /\ outcome = "exited" => Deaf \/ cause = "itself"

\* A helper that outlives its own deadline hangs.
ClockInv ==
  /\ helper = "starting" => now =< StartupTimeout
  /\ helper \in {"starting", "wedged"} => said \cap {"handshake", "failure"} = {}
  /\ now > StartupTimeout =>
       helper \in {"wedged", "dead"} /\ said \cap {"handshake", "failure"} = {}
  /\ branch = "timeout" => now > StartupTimeout
  /\ outcome = "timeout" => branch = "timeout"

\* The geometry is known, and the context cancelled, where newControl says so.
AnswerInv ==
  /\ ready \/ outcome = "feed" => dims # 0
  /\ branch = "cancelled" => ctx
  /\ outcome = "cancelled" => ctx

IInv ==
  /\ HelperTypeOK
  /\ StageInv /\ CloseInv /\ FailureInv /\ CauseInv /\ ClockInv /\ AnswerInv
  /\ PlayoutExact

\* The range of a timestamp, without the powers it is written with.
LEMMA PowerFacts ==
  /\ 2^(Width - 1) \in Nat \ {0}
  /\ 2^Width = 2 * 2^(Width - 1)
  /\ 2^Width \in Nat \ {0}
  BY HelperAssumption

LEMMA TimestampInt == Timestamp \subseteq Int
  BY PowerFacts DEF Timestamp

\* Reading a line leaves the line written last where it is.
LEMMA LastOfTail ==
  ASSUME NEW S, NEW s \in Seq(S), s # <<>>, Len(s) # 1
  PROVE  Tail(s) # <<>> /\ Tail(s)[Len(Tail(s))] = s[Len(s)]
  <1>1. Len(s) \in Nat /\ Len(s) > 1
    BY EmptySeq
  <1>2. /\ Len(Tail(s)) = Len(s) - 1
        /\ \A i \in 1..Len(Tail(s)) : Tail(s)[i] = s[i + 1]
    BY HeadTailProperties
  <1>3. Tail(s)[Len(s) - 1] = s[Len(s)]
    BY <1>1, <1>2
  <1>4. Tail(s) # <<>>
    <2> SUFFICES ASSUME Tail(s) = <<>>
                 PROVE  FALSE
      OBVIOUS
    <2>1. Len(<<>>) = 0
      BY EmptySeq
    <2>2. Len(Tail(s)) = Len(<<>>)
      BY Zenon
    <2>3. Len(Tail(s)) = Len(s) - 1
      BY <1>2
    <2> QED
      BY <1>1, <2>1, <2>2, <2>3
  <1> QED
    BY <1>2, <1>3, <1>4

\* What a remainder is.
LEMMA ModDecomp ==
  ASSUME NEW a \in Int, NEW M \in Nat \ {0}
  PROVE  /\ a % M \in 0..(M - 1)
         /\ \E k \in Int : a % M = a - k * M
  <1>1. a % M \in 0..(M - 1)
    OBVIOUS
  <1>2. a = M * (a \div M) + (a % M)
    BY SMTT(30)
  <1>3. a \div M \in Int
    OBVIOUS
  <1> DEFINE q == a \div M
  <1>4. q \in Int /\ a % M = a - q * M
    BY <1>1, <1>2, <1>3
  <1> QED
    BY <1>1, <1>4

\* A residue modulo twice H stands for the one number of its class between -H
\* and H.
LEMMA Reach ==
  ASSUME NEW H \in Nat \ {0}, NEW w \in 0..(2 * H - 1), NEW x \in Int, NEW k \in Int,
         w = x - k * (2 * H), -H < x, x < H
  PROVE  (IF w < H THEN w ELSE w - 2 * H) = x
  <1>1. CASE k = 0
    BY <1>1
  <1>2. CASE k = -1
    BY <1>2
  <1>3. CASE k > 0
    <2>1. k * (2 * H) >= 2 * H
      BY <1>3
    <2> QED
      BY <2>1
  <1>4. CASE k < -1
    <2>1. (-k) * (2 * H) >= 2 * (2 * H)
      BY <1>4
    <2>2. -(k * (2 * H)) = (-k) * (2 * H)
      OBVIOUS
    <2> QED
      BY <2>1, <2>2
  <1> QED
    BY <1>1, <1>2, <1>3, <1>4

\* The unsigned difference of two timestamps, scaled and read as signed, is the
\* distance between them, whether or not the second one wrapped around.
LEMMA Difference ==
  ASSUME lastPTS \in Int, NEW j \in Jumps
  PROVE  Signed(Wrap(Wrap(Wrap(lastPTS + j) - lastPTS) * Unit)) = j * Unit
  <1> DEFINE H == 2^(Width - 1)
             M == 2^Width
  <1>1. H \in Nat \ {0} /\ M = 2 * H /\ M \in Nat \ {0} /\ Unit \in Nat \ {0} /\ j \in Int
    BY HelperAssumption
  <1>2. -H < j * Unit /\ j * Unit < H
    BY HelperAssumption
  <1> HIDE DEF H, M
  <1> DEFINE y == lastPTS + j
  <1>3. y \in Int /\ y = lastPTS + j
    BY <1>1
  <1> HIDE DEF y
  <1>4. PICK k \in Int : y % M = y - k * M
    BY <1>1, <1>3, ModDecomp
  <1> DEFINE a == (y % M) - lastPTS
  <1>5. a \in Int /\ a = j - k * M
    <2>1. k * M \in Int
      BY <1>1
    <2> QED
      BY <1>1, <1>3, <1>4, <2>1
  <1> HIDE DEF a
  <1>6. PICK l \in Int : a % M = a - l * M
    BY <1>1, <1>5, ModDecomp
  <1> DEFINE c == (k + l) * M
             b == a % M
  <1>7. c \in Int /\ b \in Int /\ b = j - c
    <2>1. b \in Int
      BY <1>1, <1>5, ModDecomp
    <2>2. c \in Int /\ c = k * M + l * M
      BY <1>1
    <2> QED
      BY <1>1, <1>5, <1>6, <2>1, <2>2
  <1> HIDE DEF b
  <1> DEFINE x == b * Unit
  <1>8. x \in Int /\ x = j * Unit - c * Unit
    <2> HIDE DEF c
    <2> QED
      BY <1>1, <1>7
  <1> HIDE DEF x
  <1>9. PICK m \in Int : x % M = x - m * M
    BY <1>1, <1>8, ModDecomp
  <1> DEFINE w == x % M
             n == (k + l) * Unit + m
  <1>10. w \in 0..(2 * H - 1) /\ n \in Int
    BY <1>1, <1>8, ModDecomp
  <1>11. w = j * Unit - n * (2 * H)
    <2>1. c * Unit + m * M = n * M
      BY <1>1
    <2> HIDE DEF c, n
    <2>2. w = j * Unit - n * M
      BY <1>1, <1>7, <1>8, <1>9, <1>10, <2>1
    <2> QED
      BY <1>1, <2>2
  <1> HIDE DEF w, n
  <1>12. (IF w < H THEN w ELSE w - 2 * H) = j * Unit
    BY <1>1, <1>2, <1>10, <1>11, Reach
  <1> QED
    BY <1>1, <1>12 DEF Signed, Wrap, w, x, b, a, y, H, M

\* What a frame is played for.
LEMMA DurationOf ==
  ASSUME lastPTS \in Timestamp, NEW j \in Jumps
  PROVE  Duration(Wrap(lastPTS + j)) = IF First \/ j =< 0 THEN Nominal ELSE j * Unit
  <1>1. Unit \in Nat \ {0} /\ j \in Int
    BY HelperAssumption
  <1>2. Signed(Wrap(Wrap(Wrap(lastPTS + j) - lastPTS) * Unit)) = j * Unit
    BY Difference, TimestampInt
  <1>3. j * Unit =< 0 <=> j =< 0
    BY <1>1
  <1> QED
    BY <1>2, <1>3 DEF Duration

\* The invariant holds of a process just started, and before one was asked for.
LEMMA InitIInv ==
  ASSUME NEW where \in {"idle", "select"}, HelperInit(where)
  PROVE  IInv
  <1> USE DEF HelperInit
  <1>1. HelperTypeOK
    <2>1. 0 \in Timestamp /\ <<>> \in Lines
      BY PowerFacts DEF Timestamp, Lines
    <2>2. HandshakeTimeout \in Nat
      BY HelperAssumption
    <2>3. now \in 0..HandshakeTimeout /\ said \in SUBSET {"note", "cut", "handshake", "failure"}
      BY <2>2
    <2>4. /\ ctx \in BOOLEAN /\ ready \in BOOLEAN /\ failed \in BOOLEAN /\ done \in BOOLEAN
          /\ stdin \in BOOLEAN /\ writer \in BOOLEAN
      BY Zenon
    <2>5. pipe \in Lines /\ lastPTS \in Timestamp /\ dims \in Nat
          /\ playout \in Nat /\ device \in Nat /\ stalls \in Nat /\ count \in Nat
      BY <2>1
    <2> QED
      BY <2>3, <2>4, <2>5 DEF HelperTypeOK
  <1>2. StageInv /\ CloseInv /\ FailureInv /\ CauseInv /\ ClockInv /\ AnswerInv
    BY HelperAssumption DEF StageInv, CloseInv, FailureInv, CauseInv, ClockInv, AnswerInv
  <1>3. PlayoutExact
    BY HelperAssumption DEF PlayoutExact
  <1> QED
    BY <1>1, <1>2, <1>3 DEF IInv

\* Every step keeps every variable in its type.
LEMMA TypeStep ==
  ASSUME HelperTypeOK, StageInv, [HelperNext]_helperVars
  PROVE  HelperTypeOK'
  <1> USE DEF HelperTypeOK, StageInv, process, waiting, start, video
  <1>1. CASE Note
    <2>1. pipe' \in Lines
      BY <1>1 DEF Note, Writes, Lines
    <2> QED
      BY <1>1, <2>1 DEF Note, Writes
  <1>2. CASE Handshake
    <2>1. pipe' \in Lines
      BY <1>2 DEF Handshake, Writes, Lines
    <2> QED
      BY <1>2, <2>1 DEF Handshake, Writes
  <1>3. CASE Refuse
    <2>1. pipe' \in Lines
      BY <1>3 DEF Refuse, Writes, Lines
    <2> QED
      BY <1>3, <2>1 DEF Refuse, Writes
  <1>4. CASE Wedge
    BY <1>4 DEF Wedge
  <1>5. CASE Exit
    BY <1>5 DEF Exit, Dead
  <1>6. CASE CommandContext
    BY <1>6 DEF CommandContext, Dead
  <1>7. CASE ReadLine
    <2>1. pipe' \in Lines
      BY <1>7 DEF ReadLine, Lines
    <2> QED
      BY <1>7, <2>1 DEF ReadLine
  <1>8. CASE ReadEOF
    BY <1>8 DEF ReadEOF
  <1>9. CASE Select
    <2>1. CASE SelectReady
      BY <2>1 DEF SelectReady
    <2>2. CASE SelectFailed
      BY <2>2 DEF SelectFailed, Fails
    <2>3. CASE SelectDone
      BY <2>3 DEF SelectDone, Fails
    <2>4. CASE SelectTimeout
      BY <2>4 DEF SelectTimeout, Fails
    <2>5. CASE SelectCancelled
      BY <2>5 DEF SelectCancelled, Fails
    <2> QED
      BY <1>9, <2>1, <2>2, <2>3, <2>4, <2>5 DEF Select
  <1>10. CASE Return
    BY <1>10 DEF Return, Verdict
  <1>11. CASE Cancel
    BY <1>11 DEF Cancel
  <1>12. CASE Close
    BY <1>12 DEF Close
  <1>13. CASE closeStdin
    <2>1. stdin' \in BOOLEAN /\ closer' \in {"idle", "stdin", "kill", "wait", "closed"}
      BY <1>13 DEF closeStdin
    <2>2. UNCHANGED <<process, ctx, pipe, waiting, dims, start, writer, video>>
      BY <1>13 DEF closeStdin
    <2> QED
      BY <2>1, <2>2
  <1>14. CASE Kill
    <2>1. CASE helper = "dead"
      <3>1. closer' \in {"idle", "stdin", "kill", "wait", "closed"}
        BY <1>14 DEF Kill
      <3>2. UNCHANGED <<process, ctx, pipe, waiting, dims, start, stdin, writer, video>>
        BY <1>14, <2>1 DEF Kill
      <3> QED
        BY <3>1, <3>2
    <2>2. CASE Dead("stopped")
      BY <1>14, <2>2 DEF Kill, Dead
    <2> QED
      BY <1>14, <2>1, <2>2 DEF Kill
  <1>15. CASE CloseWait
    BY <1>15 DEF CloseWait
  <1>16. CASE writeCmd \/ Written
    <2>1. CASE writeCmd
      BY <2>1 DEF writeCmd
    <2>2. CASE Written
      <3>1. writer' \in BOOLEAN
        BY <2>2 DEF Written
      <3>2. UNCHANGED <<process, ctx, pipe, waiting, dims, start, closer, stdin, video>>
        BY <2>2 DEF Written
      <3> QED
        BY <3>1, <3>2
    <2> QED
      BY <1>16, <2>1, <2>2
  <1>17. CASE \E j \in Jumps : ReadFrame(j)
    <2>1. PICK j \in Jumps : ReadFrame(j)
      BY <1>17
    <2>2. Wrap(lastPTS + j) \in Timestamp
      <3>1. lastPTS + j \in Int
        BY HelperAssumption, TimestampInt
      <3> QED
        BY <3>1, PowerFacts, ModDecomp DEF Wrap, Timestamp
    <2>3. Duration(Wrap(lastPTS + j)) = IF First \/ j =< 0 THEN Nominal ELSE j * Unit
      BY DurationOf
    <2>4. j > 0 => j * Unit \in Nat
      BY HelperAssumption
    <2> QED
      BY HelperAssumption, <2>1, <2>2, <2>3, <2>4 DEF ReadFrame
  <1>18. CASE SendFrame
    BY <1>18 DEF SendFrame
  <1>19. CASE FramesEnd
    BY <1>19 DEF FramesEnd
  <1>20. CASE Tick
    <2>1. now' \in 0..HandshakeTimeout
      BY <1>20, HelperAssumption DEF Tick
    <2> QED
      BY <1>20, <2>1 DEF Tick
  <1>21. CASE UNCHANGED helperVars
    BY <1>21 DEF helperVars
  <1> QED
    BY <1>1, <1>2, <1>3, <1>4, <1>5, <1>6, <1>7, <1>8, <1>9, <1>10, <1>11, <1>12, <1>13,
       <1>14, <1>15, <1>16, <1>17, <1>18, <1>19, <1>20, <1>21 DEF HelperNext

\* Every step of newControl, Close and the reader keeps them together.
LEMMA StageStep ==
  ASSUME HelperTypeOK, StageInv, [HelperNext]_helperVars
  PROVE  StageInv'
  <1> USE HelperAssumption DEF HelperTypeOK, StageInv, Started, Deaf, process, waiting, start, video
  <1>1. CASE Note
    BY <1>1 DEF Note, Writes
  <1>2. CASE Handshake
    BY <1>2 DEF Handshake, Writes
  <1>3. CASE Refuse
    BY <1>3 DEF Refuse, Writes
  <1>4. CASE Wedge
    BY <1>4 DEF Wedge
  <1>5. CASE Exit
    BY <1>5 DEF Exit, Dead
  <1>6. CASE CommandContext
    BY <1>6 DEF CommandContext, Dead
  <1>7. CASE ReadLine
    BY <1>7 DEF ReadLine
  <1>8. CASE ReadEOF
    BY <1>8 DEF ReadEOF
  <1>9. CASE Select
    BY <1>9 DEF Select, SelectReady, SelectFailed, SelectDone, SelectTimeout, SelectCancelled, Fails
  <1>10. CASE Return
    BY <1>10 DEF Return, Verdict
  <1>11. CASE Cancel
    BY <1>11 DEF Cancel
  <1>12. CASE Close
    BY <1>12 DEF Close
  <1>13. CASE closeStdin
    BY <1>13 DEF closeStdin
  <1>14. CASE Kill
    BY <1>14 DEF Kill, Dead
  <1>15. CASE CloseWait
    BY <1>15 DEF CloseWait
  <1>16. CASE writeCmd \/ Written
    BY <1>16 DEF writeCmd, Written
  <1>17. CASE \E j \in Jumps : ReadFrame(j)
    BY <1>17 DEF ReadFrame
  <1>18. CASE SendFrame
    BY <1>18 DEF SendFrame
  <1>19. CASE FramesEnd
    BY <1>19 DEF FramesEnd
  <1>20. CASE Tick
    BY <1>20 DEF Tick
  <1>21. CASE UNCHANGED helperVars
    BY <1>21 DEF helperVars
  <1> QED
    BY <1>1, <1>2, <1>3, <1>4, <1>5, <1>6, <1>7, <1>8, <1>9, <1>10, <1>11, <1>12, <1>13,
       <1>14, <1>15, <1>16, <1>17, <1>18, <1>19, <1>20, <1>21 DEF HelperNext

\* Every step keeps Close behind what it waits for.
LEMMA CloseStep ==
  ASSUME HelperTypeOK, StageInv, CloseInv, [HelperNext]_helperVars
  PROVE  CloseInv'
  <1> USE HelperAssumption DEF HelperTypeOK, StageInv, CloseInv, Started, Deaf, process, waiting, start, video
  <1>1. CASE Note
    BY <1>1 DEF Note, Writes
  <1>2. CASE Handshake
    BY <1>2 DEF Handshake, Writes
  <1>3. CASE Refuse
    BY <1>3 DEF Refuse, Writes
  <1>4. CASE Wedge
    BY <1>4 DEF Wedge
  <1>5. CASE Exit
    BY <1>5 DEF Exit, Dead
  <1>6. CASE CommandContext
    BY <1>6 DEF CommandContext, Dead
  <1>7. CASE ReadLine
    BY <1>7 DEF ReadLine
  <1>8. CASE ReadEOF
    BY <1>8 DEF ReadEOF
  <1>9. CASE Select
    BY <1>9 DEF Select, SelectReady, SelectFailed, SelectDone, SelectTimeout, SelectCancelled, Fails
  <1>10. CASE Return
    BY <1>10 DEF Return, Verdict
  <1>11. CASE Cancel
    BY <1>11 DEF Cancel
  <1>12. CASE Close
    BY <1>12 DEF Close
  <1>13. CASE closeStdin
    BY <1>13 DEF closeStdin
  <1>14. CASE Kill
    BY <1>14 DEF Kill, Dead
  <1>15. CASE CloseWait
    BY <1>15 DEF CloseWait
  <1>16. CASE writeCmd \/ Written
    BY <1>16 DEF writeCmd, Written
  <1>17. CASE \E j \in Jumps : ReadFrame(j)
    BY <1>17 DEF ReadFrame
  <1>18. CASE SendFrame
    BY <1>18 DEF SendFrame
  <1>19. CASE FramesEnd
    BY <1>19 DEF FramesEnd
  <1>20. CASE Tick
    BY <1>20 DEF Tick
  <1>21. CASE UNCHANGED helperVars
    BY <1>21 DEF helperVars
  <1> QED
    BY <1>1, <1>2, <1>3, <1>4, <1>5, <1>6, <1>7, <1>8, <1>9, <1>10, <1>11, <1>12, <1>13,
       <1>14, <1>15, <1>16, <1>17, <1>18, <1>19, <1>20, <1>21 DEF HelperNext

\* Every step keeps the cause of the end.
LEMMA CauseStep ==
  ASSUME HelperTypeOK, StageInv, CloseInv, CauseInv, [HelperNext]_helperVars
  PROVE  CauseInv'
  <1> USE HelperAssumption DEF HelperTypeOK, StageInv, CloseInv, CauseInv, Started, Deaf, process, waiting, start, video
  <1>1. CASE Note
    BY <1>1 DEF Note, Writes
  <1>2. CASE Handshake
    BY <1>2 DEF Handshake, Writes
  <1>3. CASE Refuse
    BY <1>3 DEF Refuse, Writes
  <1>4. CASE Wedge
    BY <1>4 DEF Wedge
  <1>5. CASE Exit
    BY <1>5 DEF Exit, Dead
  <1>6. CASE CommandContext
    BY <1>6 DEF CommandContext, Dead
  <1>7. CASE ReadLine
    BY <1>7 DEF ReadLine
  <1>8. CASE ReadEOF
    BY <1>8 DEF ReadEOF
  <1>9. CASE Select
    BY <1>9 DEF Select, SelectReady, SelectFailed, SelectDone, SelectTimeout, SelectCancelled, Fails
  <1>10. CASE Return
    BY <1>10 DEF Return, Verdict
  <1>11. CASE Cancel
    BY <1>11 DEF Cancel
  <1>12. CASE Close
    BY <1>12 DEF Close
  <1>13. CASE closeStdin
    BY <1>13 DEF closeStdin
  <1>14. CASE Kill
    BY <1>14 DEF Kill, Dead
  <1>15. CASE CloseWait
    BY <1>15 DEF CloseWait
  <1>16. CASE writeCmd \/ Written
    BY <1>16 DEF writeCmd, Written
  <1>17. CASE \E j \in Jumps : ReadFrame(j)
    BY <1>17 DEF ReadFrame
  <1>18. CASE SendFrame
    BY <1>18 DEF SendFrame
  <1>19. CASE FramesEnd
    BY <1>19 DEF FramesEnd
  <1>20. CASE Tick
    BY <1>20 DEF Tick
  <1>21. CASE UNCHANGED helperVars
    BY <1>21 DEF helperVars
  <1> QED
    BY <1>1, <1>2, <1>3, <1>4, <1>5, <1>6, <1>7, <1>8, <1>9, <1>10, <1>11, <1>12, <1>13,
       <1>14, <1>15, <1>16, <1>17, <1>18, <1>19, <1>20, <1>21 DEF HelperNext

\* Every step keeps the two deadlines in order.
LEMMA ClockStep ==
  ASSUME HelperTypeOK, StageInv, CloseInv, ClockInv, [HelperNext]_helperVars
  PROVE  ClockInv'
  <1> USE HelperAssumption DEF HelperTypeOK, StageInv, CloseInv, ClockInv, Started, Deaf, process, waiting, start, video
  <1>1. CASE Note
    BY <1>1 DEF Note, Writes
  <1>2. CASE Handshake
    BY <1>2 DEF Handshake, Writes
  <1>3. CASE Refuse
    BY <1>3 DEF Refuse, Writes
  <1>4. CASE Wedge
    BY <1>4 DEF Wedge
  <1>5. CASE Exit
    BY <1>5 DEF Exit, Dead
  <1>6. CASE CommandContext
    BY <1>6 DEF CommandContext, Dead
  <1>7. CASE ReadLine
    BY <1>7 DEF ReadLine
  <1>8. CASE ReadEOF
    BY <1>8 DEF ReadEOF
  <1>9. CASE Select
    BY <1>9 DEF Select, SelectReady, SelectFailed, SelectDone, SelectTimeout, SelectCancelled, Fails
  <1>10. CASE Return
    BY <1>10 DEF Return, Verdict
  <1>11. CASE Cancel
    BY <1>11 DEF Cancel
  <1>12. CASE Close
    BY <1>12 DEF Close
  <1>13. CASE closeStdin
    BY <1>13 DEF closeStdin
  <1>14. CASE Kill
    BY <1>14 DEF Kill, Dead
  <1>15. CASE CloseWait
    BY <1>15 DEF CloseWait
  <1>16. CASE writeCmd \/ Written
    BY <1>16 DEF writeCmd, Written
  <1>17. CASE \E j \in Jumps : ReadFrame(j)
    BY <1>17 DEF ReadFrame
  <1>18. CASE SendFrame
    BY <1>18 DEF SendFrame
  <1>19. CASE FramesEnd
    BY <1>19 DEF FramesEnd
  <1>20. CASE Tick
    BY <1>20 DEF Tick
  <1>21. CASE UNCHANGED helperVars
    BY <1>21 DEF helperVars
  <1> QED
    BY <1>1, <1>2, <1>3, <1>4, <1>5, <1>6, <1>7, <1>8, <1>9, <1>10, <1>11, <1>12, <1>13,
       <1>14, <1>15, <1>16, <1>17, <1>18, <1>19, <1>20, <1>21 DEF HelperNext

\* Every step keeps the answer true.
LEMMA AnswerStep ==
  ASSUME HelperTypeOK, StageInv, AnswerInv, [HelperNext]_helperVars
  PROVE  AnswerInv'
  <1> USE HelperAssumption DEF HelperTypeOK, StageInv, AnswerInv, Started, Deaf, process, waiting, start, video
  <1>1. CASE Note
    BY <1>1 DEF Note, Writes
  <1>2. CASE Handshake
    BY <1>2 DEF Handshake, Writes
  <1>3. CASE Refuse
    BY <1>3 DEF Refuse, Writes
  <1>4. CASE Wedge
    BY <1>4 DEF Wedge
  <1>5. CASE Exit
    BY <1>5 DEF Exit, Dead
  <1>6. CASE CommandContext
    BY <1>6 DEF CommandContext, Dead
  <1>7. CASE ReadLine
    BY <1>7 DEF ReadLine
  <1>8. CASE ReadEOF
    BY <1>8 DEF ReadEOF
  <1>9. CASE Select
    BY <1>9 DEF Select, SelectReady, SelectFailed, SelectDone, SelectTimeout, SelectCancelled, Fails
  <1>10. CASE Return
    BY <1>10 DEF Return, Verdict
  <1>11. CASE Cancel
    BY <1>11 DEF Cancel
  <1>12. CASE Close
    BY <1>12 DEF Close
  <1>13. CASE closeStdin
    BY <1>13 DEF closeStdin
  <1>14. CASE Kill
    BY <1>14 DEF Kill, Dead
  <1>15. CASE CloseWait
    BY <1>15 DEF CloseWait
  <1>16. CASE writeCmd \/ Written
    BY <1>16 DEF writeCmd, Written
  <1>17. CASE \E j \in Jumps : ReadFrame(j)
    BY <1>17 DEF ReadFrame
  <1>18. CASE SendFrame
    BY <1>18 DEF SendFrame
  <1>19. CASE FramesEnd
    BY <1>19 DEF FramesEnd
  <1>20. CASE Tick
    BY <1>20 DEF Tick
  <1>21. CASE UNCHANGED helperVars
    BY <1>21 DEF helperVars
  <1> QED
    BY <1>1, <1>2, <1>3, <1>4, <1>5, <1>6, <1>7, <1>8, <1>9, <1>10, <1>11, <1>12, <1>13,
       <1>14, <1>15, <1>16, <1>17, <1>18, <1>19, <1>20, <1>21 DEF HelperNext

\* Every step keeps track of a failure that was said.
LEMMA FailureStep ==
  ASSUME HelperTypeOK, StageInv, CloseInv, ClockInv, FailureInv, [HelperNext]_helperVars
  PROVE  FailureInv'
  <1> USE HelperAssumption DEF HelperTypeOK, Lines, StageInv, CloseInv, ClockInv, FailureInv, Started, Deaf, process, waiting, start, video
  <1>1. CASE Note
    BY <1>1 DEF Note, Writes
  <1>2. CASE Handshake
    BY <1>2 DEF Handshake, Writes
  <1>3. CASE Refuse
    <2>1. pipe' # <<>> /\ pipe'[Len(pipe')] = "failure"
      BY <1>3 DEF Refuse, Writes
    <2> QED
      BY <1>3, <2>1 DEF Refuse, Writes
  <1>4. CASE Wedge
    BY <1>4 DEF Wedge
  <1>5. CASE Exit
    BY <1>5 DEF Exit, Dead
  <1>6. CASE CommandContext
    BY <1>6 DEF CommandContext, Dead
  <1>7. CASE ReadLine
    <2>1. CASE Len(pipe) = 1
      <3>1. pipe[Len(pipe)] = Head(pipe)
        BY <2>1
      <3> QED
        BY <1>7, <3>1 DEF ReadLine
    <2>2. CASE Len(pipe) # 1
      <3>1. pipe' # <<>> /\ pipe'[Len(pipe')] = pipe[Len(pipe)]
        BY <1>7, <2>2, LastOfTail DEF ReadLine
      <3> QED
        BY <1>7, <3>1 DEF ReadLine
    <2> QED
      BY <2>1, <2>2
  <1>8. CASE ReadEOF
    BY <1>8 DEF ReadEOF
  <1>9. CASE Select
    BY <1>9 DEF Select, SelectReady, SelectFailed, SelectDone, SelectTimeout, SelectCancelled, Fails
  <1>10. CASE Return
    BY <1>10 DEF Return, Verdict
  <1>11. CASE Cancel
    BY <1>11 DEF Cancel
  <1>12. CASE Close
    BY <1>12 DEF Close
  <1>13. CASE closeStdin
    BY <1>13 DEF closeStdin
  <1>14. CASE Kill
    BY <1>14 DEF Kill, Dead
  <1>15. CASE CloseWait
    BY <1>15 DEF CloseWait
  <1>16. CASE writeCmd \/ Written
    BY <1>16 DEF writeCmd, Written
  <1>17. CASE \E j \in Jumps : ReadFrame(j)
    BY <1>17 DEF ReadFrame
  <1>18. CASE SendFrame
    BY <1>18 DEF SendFrame
  <1>19. CASE FramesEnd
    BY <1>19 DEF FramesEnd
  <1>20. CASE Tick
    BY <1>20 DEF Tick
  <1>21. CASE UNCHANGED helperVars
    BY <1>21 DEF helperVars
  <1> QED
    BY <1>1, <1>2, <1>3, <1>4, <1>5, <1>6, <1>7, <1>8, <1>9, <1>10, <1>11, <1>12, <1>13,
       <1>14, <1>15, <1>16, <1>17, <1>18, <1>19, <1>20, <1>21 DEF HelperNext

\* Every step keeps the frames at the device's clock.
LEMMA PlayoutStep ==
  ASSUME HelperTypeOK, PlayoutExact, [HelperNext]_helperVars
  PROVE  PlayoutExact'
  <1> USE HelperAssumption DEF HelperTypeOK, PlayoutExact
  <1>1. CASE \E j \in Jumps : ReadFrame(j)
    <2>1. PICK j \in Jumps : ReadFrame(j)
      BY <1>1
    <2>2. Duration(Wrap(lastPTS + j)) = IF First \/ j =< 0 THEN Nominal ELSE j * Unit
      BY DurationOf
    <2>3. j \in Int /\ (device + j) * Unit = device * Unit + j * Unit
      OBVIOUS
    <2>4. (stalls + 1) * Nominal = stalls * Nominal + Nominal
      OBVIOUS
    <2>5. device * Unit \in Int /\ stalls * Nominal \in Int /\ j * Unit \in Int
      BY <2>3
    <2> QED
      BY <2>1, <2>2, <2>3, <2>4, <2>5 DEF ReadFrame
  <1>2. CASE UNCHANGED <<playout, device, stalls>>
    BY <1>2
  <1>3. [HelperNext]_helperVars => (\E j \in Jumps : ReadFrame(j)) \/ UNCHANGED <<playout, device, stalls>>
    BY DEF HelperNext, helperVars, video, Note, Handshake, Refuse, Wedge, Exit, CommandContext, Dead,
           Writes, ReadLine, ReadEOF, Select, SelectReady, SelectFailed, SelectDone, SelectTimeout,
           SelectCancelled, Fails, Return, Cancel, Close, closeStdin, Kill, CloseWait, writeCmd,
           Written, SendFrame, FramesEnd, Tick
  <1> QED
    BY <1>1, <1>2, <1>3

LEMMA InductiveStep ==
  ASSUME IInv, [HelperNext]_helperVars
  PROVE  IInv'
  BY TypeStep, StageStep, CloseStep, FailureStep, CauseStep, ClockStep, AnswerStep, PlayoutStep
     DEF IInv

\* The invariant is inductive.
LEMMA Inductive == HelperSpec => []IInv
  <1>1. HelperInit("select") => IInv
    BY InitIInv
  <1>2. IInv /\ [HelperNext]_helperVars => IInv'
    BY InductiveStep
  <1> QED
    BY <1>1, <1>2, PTL DEF HelperSpec

\* Every variable has its type.
THEOREM TypeCorrect == HelperSpec => []HelperTypeOK
  <1>1. IInv => HelperTypeOK
    BY DEF IInv
  <1> QED
    BY <1>1, Inductive, PTL

\* What newControl returns is what happened (control.go:64-82, 205-268): the
\* envelope of a failure is found wherever the end of the process left it,
\* and only a helper that hangs meets the daemon's own deadline.
THEOREM ReportedTruly == HelperSpec => []StartReported
  <1>1. IInv => StartReported
    BY HelperAssumption DEF IInv, HelperTypeOK, FailureInv, CauseInv, ClockInv, AnswerInv, StartReported
  <1> QED
    BY <1>1, Inductive, PTL

\* Close and an Attach that failed leave no process and no reader behind
\* (control.go:127-130, 380-394).
THEOREM NothingLeft == HelperSpec => []ReapedLast
  <1>1. IInv => ReapedLast
    BY DEF IInv, HelperTypeOK, CloseInv, ReapedLast
  <1> QED
    BY <1>1, Inductive, PTL

\* The frames follow the device's clock, for every width of a timestamp and
\* every jump that half of its range holds (control.go:495-534).
THEOREM ClockFollowed == HelperSpec => []PlayoutExact
  <1>1. IInv => PlayoutExact
    BY DEF IInv
  <1> QED
    BY <1>1, Inductive, PTL

\* Every step of the feed is one that Feed allows (backend.go:84-131).
LEMMA RefinesStep ==
  ASSUME IInv, [HelperNext]_helperVars
  PROVE  [HelperFeed!Next]_(HelperFeed!vars)
  <1> USE DEF IInv, HelperTypeOK, StageInv, CloseInv, CauseInv, Started, process, waiting, start, video,
              HelperFeed!Next, HelperFeed!vars, HelperFeed!Cancel, HelperFeed!Die, HelperFeed!Attached,
              HelperFeed!AttachFailed, HelperFeed!Receive, HelperFeed!Over
  <1>1. CASE Note
    BY <1>1 DEF Note, Writes
  <1>2. CASE Handshake
    BY <1>2 DEF Handshake, Writes
  <1>3. CASE Refuse
    BY <1>3 DEF Refuse, Writes
  <1>4. CASE Wedge
    BY <1>4 DEF Wedge
  <1>5. CASE Exit
    BY <1>5 DEF Exit, Dead
  <1>6. CASE CommandContext
    BY <1>6 DEF CommandContext, Dead
  <1>7. CASE ReadLine
    BY <1>7 DEF ReadLine
  <1>8. CASE ReadEOF
    BY <1>8 DEF ReadEOF
  <1>9. CASE Select
    BY <1>9 DEF Select, SelectReady, SelectFailed, SelectDone, SelectTimeout, SelectCancelled, Fails
  <1>10. CASE Return
    BY <1>10 DEF Return, Verdict
  <1>11. CASE Cancel
    BY <1>11 DEF Cancel
  <1>12. CASE Close
    BY <1>12 DEF Close
  <1>13. CASE closeStdin
    BY <1>13 DEF closeStdin
  <1>14. CASE Kill
    BY <1>14 DEF Kill, Dead
  <1>15. CASE CloseWait
    BY <1>15 DEF CloseWait
  <1>16. CASE writeCmd \/ Written
    BY <1>16 DEF writeCmd, Written
  <1>17. CASE \E j \in Jumps : ReadFrame(j)
    BY <1>17 DEF ReadFrame
  <1>18. CASE SendFrame
    BY <1>18 DEF SendFrame
  <1>19. CASE FramesEnd
    BY <1>19 DEF FramesEnd
  <1>20. CASE Tick
    BY <1>20 DEF Tick
  <1>21. CASE UNCHANGED helperVars
    BY <1>21 DEF helperVars
  <1> QED
    BY <1>1, <1>2, <1>3, <1>4, <1>5, <1>6, <1>7, <1>8, <1>9, <1>10, <1>11, <1>12, <1>13,
       <1>14, <1>15, <1>16, <1>17, <1>18, <1>19, <1>20, <1>21 DEF HelperNext

\* The simulator's feed keeps the safety half of the contract of Feed.
THEOREM KeepsContract ==
  HelperSpec => HelperFeed!Init /\ [][HelperFeed!Next]_(HelperFeed!vars)
  <1>1. HelperInit("select") => HelperFeed!Init
    BY DEF HelperInit, HelperFeed!Init
  <1>2. IInv /\ [HelperNext]_helperVars => [HelperFeed!Next]_(HelperFeed!vars)
    BY RefinesStep
  <1> QED
    BY <1>1, <1>2, Inductive, PTL DEF HelperSpec
=============================================================================
