------------------------------- MODULE Helper -------------------------------
(***************************************************************************)
(* One feed of the simulator backend: newControl waiting for the handshake *)
(* of simbeam-control, the goroutines that read its stderr and its stdout, *)
(* the input written to its stdin, and Close                               *)
(* (internal/backend/sim/control.go).                                      *)
(*                                                                         *)
(* The process is one value.  A line on its stderr is what it settles: a   *)
(* note (the waiting notice, plain text), a handshake, the envelope of a   *)
(* typed failure, or a cut, behind which nothing is read: a line that is   *)
(* too long for the scanner, or the end of a stderr the process closed.    *)
(* Timestamps keep a width of Width bits, and are turned from device units *)
(* into nanoseconds (Unit) in that width.                                  *)
(***************************************************************************)
EXTENDS Integers, Sequences

CONSTANTS
  StartupTimeout,    \* controlStartupTimeout, the helper's own deadline
  HandshakeTimeout,  \* controlHandshakeTimeout, the daemon's
  MaxLines,          \* bound: lines in the stderr pipe
  MaxDims,           \* bound: handshakes of one process
  MaxFrames,         \* bound: frames of one process
  Width, Unit,       \* bits of a timestamp, nanoseconds per unit of it
  Nominal,           \* the duration of a frame nothing can be measured for
  Jumps              \* by how much a timestamp may differ from the one before

ASSUME HelperAssumption ==
  /\ StartupTimeout \in Nat /\ HandshakeTimeout \in Nat
  /\ StartupTimeout < HandshakeTimeout
  /\ MaxLines \in Nat /\ MaxDims \in Nat /\ MaxFrames \in Nat
  /\ Width \in Nat \ {0} /\ Unit \in Nat \ {0} /\ Nominal \in Nat \ {0}
  /\ Jumps \subseteq Int
  /\ 2^(Width - 1) \in Nat \ {0} /\ 2^Width = 2 * 2^(Width - 1)
  /\ \A j \in Jumps : -(2^(Width - 1)) < j * Unit /\ j * Unit < 2^(Width - 1)

VARIABLES
  now,      \* time since the process was started
  ctx,      \* the feed's ctx is cancelled
  helper,   \* the process
  cause,    \* history: whether it ended by itself
  said,     \* history: what its stderr said
  pipe,     \* lines of its stderr nobody has read
  ready, failed, done,  \* the channels newControl selects on
  dims,     \* c.dims, as the number of the handshake; 0 is unset
  main,     \* newControl: before it, in its select, in Close, returned
  branch,   \* the case of the select that was taken
  outcome,  \* what newControl returned
  closer,   \* where Close is
  stdin,    \* whether c.w is open
  writer,   \* whether a writeCmd is stuck in a write, holding c.mu
  reader,   \* the goroutine of readFrames
  lastPTS,  \* the timestamp of the frame read last
  playout,  \* history: the durations of the frames read, summed up
  device,   \* history: how far the device's clock moved forward meanwhile
  stalls,   \* history: frames with no duration to measure
  count     \* frames received by the session's pump

waiting == <<ready, failed, done>>
process == <<now, helper, cause, said>>
video   == <<reader, lastPTS, playout, device, stalls, count>>
start   == <<main, branch, outcome>>
helperVars == <<process, ctx, pipe, waiting, dims, start, closer, stdin, writer, video>>

Lines     == Seq({"note", "cut", "handshake", "failure"})
Timestamp == 0..(2^Width - 1)

\* Every variable has its type.
HelperTypeOK ==
  /\ now \in 0..HandshakeTimeout
  /\ ctx \in BOOLEAN
  /\ helper \in {"starting", "wedged", "refused", "up", "dead"}
  /\ cause \in {"none", "itself", "stopped"}
  /\ said \in SUBSET {"note", "cut", "handshake", "failure"}
  /\ pipe \in Lines
  /\ ready \in BOOLEAN /\ failed \in BOOLEAN /\ done \in BOOLEAN
  /\ dims \in Nat
  /\ main \in {"idle", "select", "close", "returned"}
  /\ branch \in {"none", "ready", "failed", "done", "timeout", "cancelled"}
  /\ outcome \in {"none", "feed", "typed", "exited", "timeout", "cancelled"}
  /\ closer \in {"idle", "stdin", "kill", "wait", "closed"}
  /\ stdin \in BOOLEAN
  /\ writer \in BOOLEAN
  /\ reader \in {"off", "read", "send", "gone"}
  /\ lastPTS \in Timestamp
  /\ playout \in Nat /\ device \in Nat /\ stalls \in Nat /\ count \in Nat

HelperInit(where) ==
  /\ now = 0
  /\ ctx = FALSE
  /\ helper = "starting"
  /\ cause = "none"
  /\ said = {}
  /\ pipe = <<>>
  /\ ready = FALSE /\ failed = FALSE /\ done = FALSE
  /\ dims = 0
  /\ main = where
  /\ branch = "none"
  /\ outcome = "none"
  /\ closer = "idle"
  /\ stdin = TRUE
  /\ writer = FALSE
  /\ reader = "off"
  /\ lastPTS = 0
  /\ playout = 0 /\ device = 0 /\ stalls = 0 /\ count = 0

Started == main # "idle"
-----------------------------------------------------------------------------
(* The process. *)

Writes(line) ==
  /\ Len(pipe) < MaxLines
  /\ pipe' = Append(pipe, line)
  /\ said' = said \cup {line}

\* A line that settles nothing.  Bound: one of each kind.
Note ==
  /\ Started /\ helper \in {"starting", "up"}
  /\ \E line \in {"note", "cut"} \ said : Writes(line)
  /\ UNCHANGED <<now, helper, cause, ctx, waiting, dims, start, closer, stdin, writer, video>>

\* The handshake, and later ones when the device rotates.
Handshake ==
  /\ Started /\ helper \in {"starting", "up"}
  /\ dims + Len(pipe) < MaxDims
  /\ Writes("handshake")
  /\ helper' = "up"
  /\ UNCHANGED <<now, cause, ctx, waiting, dims, start, closer, stdin, writer, video>>

\* The envelope of a typed failure, after which the process exits.
Refuse ==
  /\ Started /\ helper = "starting"
  /\ Writes("failure")
  /\ helper' = "refused"
  /\ UNCHANGED <<now, cause, ctx, waiting, dims, start, closer, stdin, writer, video>>

\* It hangs: it says nothing, and neither its own deadline nor EOF on its
\* stdin ends it.
Wedge ==
  /\ Started /\ helper = "starting"
  /\ helper' = "wedged"
  /\ UNCHANGED <<now, cause, said, ctx, pipe, waiting, dims, start, closer, stdin, writer, video>>

Dead(why) ==
  /\ helper' = "dead"
  /\ cause' = why
  /\ UNCHANGED <<now, said, ctx, pipe, waiting, dims, start, stdin, writer, video>>

\* It exits: by itself, or on EOF on its stdin.
Exit ==
  /\ Started /\ helper \notin {"dead", "wedged"}
  /\ Dead(IF stdin THEN "itself" ELSE "stopped")
  /\ UNCHANGED closer

\* Mutant of CommandContext: the process is started without the ctx.
CommandContextMutant == FALSE /\ UNCHANGED helperVars

\* exec.CommandContext kills it when ctx is cancelled.
CommandContext ==
  /\ ctx /\ helper # "dead"
  /\ Dead("stopped")
  /\ UNCHANGED closer
-----------------------------------------------------------------------------
(* The goroutine on stderr. *)

\* The geometry is set before newControl hears of the first handshake.
ReadLine ==
  /\ ~done
  /\ pipe # <<>> /\ Head(pipe) # "cut"
  /\ pipe' = Tail(pipe)
  /\ dims' = IF Head(pipe) = "handshake" THEN dims + 1 ELSE dims
  /\ ready' = (ready \/ (Head(pipe) = "handshake" /\ dims = 0))
  /\ failed' = (failed \/ Head(pipe) = "failure")
  /\ UNCHANGED <<process, ctx, done, start, closer, stdin, writer, video>>

\* The scanner stops, at the end of the pipe or at a cut: the goroutine is done,
\* though the process may live and write on.
ReadEOF ==
  /\ ~done
  /\ IF pipe = <<>> THEN helper = "dead" ELSE Head(pipe) = "cut"
  /\ done' = TRUE
  /\ UNCHANGED <<process, ctx, pipe, ready, failed, dims, start, closer, stdin, writer, video>>
-----------------------------------------------------------------------------
(* newControl. *)

Fails(b) ==
  /\ main = "select"
  /\ main' = "close" /\ branch' = b
  /\ closer' = "stdin"
  /\ UNCHANGED <<process, ctx, pipe, dims, outcome, stdin, writer, video>>

SelectReady ==
  /\ main = "select" /\ ready
  /\ ready' = FALSE
  /\ main' = "returned" /\ branch' = "ready" /\ outcome' = "feed"
  /\ reader' = "read"
  /\ UNCHANGED <<process, ctx, pipe, failed, done, dims, closer, stdin, writer,
                 lastPTS, playout, device, stalls, count>>

SelectFailed ==
  /\ failed /\ failed' = FALSE
  /\ Fails("failed")
  /\ UNCHANGED <<ready, done>>

SelectDone == done /\ Fails("done") /\ UNCHANGED waiting

\* Mutant of SelectTimeout: there is no backstop.
SelectTimeoutMutant == FALSE /\ Fails("timeout") /\ UNCHANGED waiting

SelectTimeout == now = HandshakeTimeout /\ Fails("timeout") /\ UNCHANGED waiting

\* Mutant of SelectCancelled: the caller is left to close what it never got.
SelectCancelledMutant ==
  /\ main = "select" /\ ctx
  /\ main' = "returned" /\ branch' = "cancelled" /\ outcome' = "cancelled"
  /\ UNCHANGED <<process, ctx, pipe, waiting, dims, closer, stdin, writer, video>>

SelectCancelled == ctx /\ Fails("cancelled") /\ UNCHANGED waiting

\* Mutant of Verdict: an envelope read along with EOF is not looked for.
VerdictMutant ==
  CASE branch = "failed" -> "typed"
    [] branch = "done"   -> IF ctx THEN "cancelled" ELSE "exited"
    [] OTHER             -> branch

\* What an attempt that failed is said to have failed of.
Verdict ==
  CASE branch = "failed" -> "typed"
    [] branch = "done"   -> IF failed THEN "typed" ELSE IF ctx THEN "cancelled" ELSE "exited"
    [] OTHER             -> branch

\* newControl's own Close has returned.
Return ==
  /\ main = "close" /\ closer = "closed"
  /\ main' = "returned"
  /\ outcome' = Verdict
  /\ UNCHANGED <<process, ctx, pipe, waiting, dims, branch, closer, stdin, writer, video>>
-----------------------------------------------------------------------------
(* The session layer, which cancels a feed before it closes it, and Close. *)

Cancel ==
  /\ Started /\ ~ctx
  /\ ctx' = TRUE
  /\ UNCHANGED <<process, pipe, waiting, dims, start, closer, stdin, writer, video>>

Close ==
  /\ outcome = "feed" /\ ctx /\ closer = "idle"
  /\ closer' = "stdin"
  /\ UNCHANGED <<process, ctx, pipe, waiting, dims, start, stdin, writer, video>>

\* closeStdin waits for c.mu; the goroutine that waits for ctx calls it too.
closeStdin ==
  /\ ~writer
  /\ stdin' = FALSE
  /\ \/ closer = "stdin" /\ closer' = "kill"
     \/ ctx /\ stdin /\ UNCHANGED closer
  /\ UNCHANGED <<process, ctx, pipe, waiting, dims, start, writer, video>>

Kill ==
  /\ closer = "kill"
  /\ closer' = "wait"
  /\ IF helper = "dead" THEN UNCHANGED <<process, ctx, pipe, waiting, dims, start, stdin, writer, video>>
                        ELSE Dead("stopped")

\* Mutant of CloseWait: the pipes are closed under the goroutines reading them.
CloseWaitMutant ==
  /\ closer = "wait"
  /\ closer' = "closed"
  /\ UNCHANGED <<process, ctx, pipe, waiting, dims, start, stdin, writer, video>>

\* readers.Wait and then cmd.Wait, which closes the pipes.
CloseWait ==
  /\ closer = "wait"
  /\ done /\ reader \in {"off", "gone"}
  /\ closer' = "closed"
  /\ UNCHANGED <<process, ctx, pipe, waiting, dims, start, stdin, writer, video>>
-----------------------------------------------------------------------------
(* Input and video. *)

\* A write the full pipe holds up: the process does not read its stdin.
writeCmd ==
  /\ outcome = "feed" /\ stdin /\ ~writer
  /\ writer' = TRUE
  /\ UNCHANGED <<process, ctx, pipe, waiting, dims, start, closer, stdin, video>>

Written ==
  /\ writer
  /\ writer' = FALSE
  /\ UNCHANGED <<process, ctx, pipe, waiting, dims, start, closer, stdin, video>>

First == playout = 0

\* Mutant of Wrap: a timestamp has no width.
WrapMutant(t) == t

Wrap(t) == t % 2^Width
Signed(t) == IF t < 2^(Width - 1) THEN t ELSE t - 2^Width

\* Mutant of Duration: the difference is taken for unsigned.
DurationMutant(pts) ==
  LET d == Wrap(Wrap(pts - lastPTS) * Unit)
  IN  IF First \/ d =< 0 THEN Nominal ELSE d

Duration(pts) ==
  LET d == Signed(Wrap(Wrap(pts - lastPTS) * Unit))
  IN  IF First \/ d =< 0 THEN Nominal ELSE d

\* A frame whose timestamp is j away from the one before.
ReadFrame(j) ==
  /\ reader = "read" /\ count < MaxFrames
  /\ lastPTS' = Wrap(lastPTS + j)
  /\ playout' = playout + Duration(Wrap(lastPTS + j))
  /\ IF First \/ j =< 0 THEN stalls' = stalls + 1 /\ UNCHANGED device
                       ELSE device' = device + j /\ UNCHANGED stalls
  /\ reader' = "send"
  /\ UNCHANGED <<process, ctx, pipe, waiting, dims, start, closer, stdin, writer, count>>

SendFrame ==
  /\ reader = "send"
  /\ reader' = "read" /\ count' = count + 1
  /\ UNCHANGED <<process, ctx, pipe, waiting, dims, start, closer, stdin, writer,
                 lastPTS, playout, device, stalls>>

\* The goroutine ends and closes the channel: nobody takes its frame, or the
\* pipe ends.
FramesEnd ==
  /\ \/ reader = "send" /\ (ctx \/ closer # "idle")
     \/ reader = "read" /\ helper = "dead"
  /\ reader' = "gone"
  /\ UNCHANGED <<process, ctx, pipe, waiting, dims, start, closer, stdin, writer,
                 lastPTS, playout, device, stalls, count>>
-----------------------------------------------------------------------------
\* The helper keeps to its own deadline unless it hangs, and next to both
\* timeouts lines are read and selected in no time.
Tick ==
  /\ main = "select" /\ ~ctx
  /\ now < HandshakeTimeout
  /\ helper \in {"starting", "wedged"}
  /\ helper = "starting" => now < StartupTimeout
  /\ pipe = <<>> \/ done
  /\ now' = now + 1
  /\ UNCHANGED <<helper, cause, said, ctx, pipe, waiting, dims, start, closer, stdin, writer, video>>

Select == SelectReady \/ SelectFailed \/ SelectDone \/ SelectTimeout \/ SelectCancelled

HelperNext ==
  \/ Note \/ Handshake \/ Refuse \/ Wedge \/ Exit \/ CommandContext
  \/ ReadLine \/ ReadEOF
  \/ Select \/ Return
  \/ Cancel \/ Close \/ closeStdin \/ Kill \/ CloseWait
  \/ writeCmd \/ Written
  \/ (\E j \in Jumps : ReadFrame(j)) \/ SendFrame \/ FramesEnd
  \/ Tick

\* Goroutines run, and one that waits for c.mu gets it in the end.  The
\* session closes a feed it cancelled and its pump receives.  The helper
\* settles its start unless it hangs.  A write ends once the helper is dead;
\* whether a living helper reads its stdin is its own affair.
HelperFairness ==
  /\ WF_helperVars(CommandContext) /\ WF_helperVars(ReadLine) /\ WF_helperVars(ReadEOF)
  /\ WF_helperVars(Select) /\ WF_helperVars(Return)
  /\ WF_helperVars(Close) /\ SF_helperVars(closeStdin)
  /\ WF_helperVars(Kill) /\ WF_helperVars(CloseWait)
  /\ WF_helperVars(helper = "dead" /\ Written)
  /\ WF_helperVars(SendFrame \/ FramesEnd)
  /\ WF_helperVars(Refuse) /\ WF_helperVars(Tick)

HelperSpec == HelperInit("select") /\ [][HelperNext]_helperVars
HelperFair == HelperSpec /\ HelperFairness
-----------------------------------------------------------------------------
\* The goroutine on stderr has stopped at a cut.
Deaf == done /\ pipe # <<>>

\* What newControl returns is what happened.  A feed has its geometry, however
\* the notes before the handshake read; an exit never hides the envelope that
\* came with it, the daemon's clock never overtakes the helper's, and an exit
\* that a cancellation caused is no failure (control.go:64-82, 205-268).  Only
\* where stderr was cut does it report an exit the process did not make, and
\* miss what was written behind (control.go:198-201, 241-260).
StartReported ==
  /\ outcome = "feed" => dims # 0
  /\ outcome = "exited" => Deaf \/ ("failure" \notin said /\ cause = "itself")
  /\ outcome = "timeout" => said \cap {"handshake", "failure"} = {}
  /\ outcome = "cancelled" => ctx

\* The pipes are closed when nobody reads them any more, and an Attach that
\* failed leaves no process behind (control.go:127-130, 380-394).
ReapedLast ==
  closer = "closed" \/ outcome \notin {"none", "feed"} =>
    helper = "dead" /\ done /\ reader \in {"off", "gone"}

\* Played at their durations, the frames follow the device's clock: it drifts
\* by one nominal frame for the first one and for each whose timestamp is
\* repeated or goes back, and not at all when timestamps wrap around
\* (control.go:495-534).
PlayoutExact == playout = device * Unit + stalls * Nominal

\* Attach always ends: a helper that hangs is given up (control.go:79-82, 261-263).
StartSettles == main = "select" ~> outcome # "none"

\* A feed that was given up is released, even while a write to a helper that
\* hangs holds c.mu: cancelling first kills the helper (control.go:367-394).
CloseReturns == outcome = "feed" /\ ctx ~> closer = "closed"

\* Frames() and Attach keep the contract the session layer relies on
\* (backend.go:84-131).
HelperFeed == INSTANCE Feed WITH
  cancelled <- ctx,
  dead      <- helper = "dead",
  frames    <- count,
  feed      <- CASE main = "idle"      -> "idle"
                 [] outcome = "feed"   -> IF reader = "gone" THEN "over" ELSE "live"
                 [] main # "returned"  -> "starting"
                 [] OTHER              -> "failed"

HelperIsFeed == HelperFeed!Spec
=============================================================================
