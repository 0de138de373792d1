------------------------------- MODULE Encoder ------------------------------
(***************************************************************************)
(* One feed of the browser backend: Attach, the goroutine that polls the   *)
(* tab for pictures (internal/backend/browser/browser.go), and Encode,     *)
(* which feeds them to ffmpeg and cuts what comes back into access units   *)
(* (internal/encoder/ffmpeg.go, nal.go).                                   *)
(*                                                                         *)
(* The H.264 stream is a sequence of bytes that read() hands out in pieces *)
(* of any size.  How pictures become bytes is ffmpeg's, so any of Streams  *)
(* may come out, all of it or as much as ffmpeg wrote before it ended.     *)
(* Each turn of the loop that cuts the bytes read is a step.               *)
(***************************************************************************)
EXTENDS Naturals, SequencesExt

CONSTANT
  Streams     \* the H.264 streams ffmpeg may produce, in Annex-B bytes

VARIABLES
  ectx,       \* the feed's ctx is cancelled
  tab,        \* the tab: its own ctx ends with ectx, or before
  attach,     \* browser.Attach: before it, launching, encoding, returned
  poll,       \* the goroutine that takes pictures and sends them on png
  feeder,     \* the goroutine that writes pictures to ffmpeg's stdin
  ffmpeg,     \* the process
  stream,     \* what ffmpeg makes of the pictures
  rd,         \* how many bytes of it were read
  buf,        \* bytes carried over to the next read
  nals,       \* NAL units of this read that are still to be pushed
  cur,        \* the access unit being put together (auAssembler)
  au,         \* the access unit on its way to frames
  reading,    \* the goroutine on ffmpeg's stdout, which closes frames
  sent        \* history: the access units received from frames

source  == <<tab, poll, feeder, ffmpeg>>
cutting == <<rd, buf, nals, cur, au>>
encoderVars == <<ectx, attach, source, stream, cutting, reading, sent>>

\* Every variable has its type, and frames is closed only after ffmpeg was
\* waited for.
EncoderTypeOK ==
  /\ ectx \in BOOLEAN
  /\ tab \in {"none", "open", "closed"}
  /\ attach \in {"idle", "launch", "encode", "live", "failed"}
  /\ poll \in {"none", "capture", "send", "gone"}
  /\ feeder \in {"none", "receive", "write", "gone"}
  /\ ffmpeg \in {"none", "up", "dead"}
  /\ stream \in Streams
  /\ rd \in 0..Len(stream)
  /\ \A s \in {buf} \cup Range(nals) \cup Range(cur) \cup Range(au) : s \in Seq(0..255)
  /\ reading \in {"none", "read", "split", "push", "send", "stop", "gone"}
  /\ sent \in Seq(Seq(Seq(0..255)))
  /\ reading = "gone" => ffmpeg = "dead"

EncoderInit(where) ==
  /\ ectx = FALSE
  /\ tab = "none"
  /\ attach = where
  /\ poll = "none" /\ feeder = "none" /\ ffmpeg = "none"
  /\ stream \in Streams
  /\ rd = 0
  /\ buf = <<>> /\ nals = <<>> /\ cur = <<>> /\ au = <<>>
  /\ reading = "none"
  /\ sent = <<>>

\* tabCtx.Done()
TabDone == ectx \/ tab = "closed"
-----------------------------------------------------------------------------
(* nal.go *)

\* The length of the start code at position i of b, 0 if there is none.
codeAt(b, i) ==
  IF i + 2 > Len(b) \/ b[i] # 0 \/ b[i + 1] # 0 THEN 0
  ELSE IF b[i + 2] = 1 THEN 3
  ELSE IF b[i + 2] = 0 /\ i + 3 =< Len(b) /\ b[i + 3] = 1 THEN 4
  ELSE 0

startCodeLen(b) == codeAt(b, 1)

\* Where the first start code of b[from:] is in b, or 0.
indexStartCode(b, from) ==
  LET at == {i \in (from + 1)..Len(b) : codeAt(b, i) # 0}
  IN  IF at = {} THEN 0 ELSE Min(at)

nalType(n) ==
  LET sc == startCodeLen(n) IN IF sc = 0 \/ sc >= Len(n) THEN 0 ELSE n[sc + 1] % 32

isVCL(n) == nalType(n) \in 1..5

\* Mutant of vclStartsPicture: every slice is a picture.
vclStartsPictureMutant(n) == TRUE

\* first_mb_in_slice is 0: the bit after the header is set.
vclStartsPicture(n) ==
  LET sc == startCodeLen(n) IN sc = 0 \/ sc + 1 >= Len(n) \/ n[sc + 2] >= 128

startsNewAU(n) == nalType(n) \in 6..9 \/ (isVCL(n) /\ vclStartsPicture(n))
-----------------------------------------------------------------------------
(* What a stream is: H.264, Annex B. *)

\* The positions in b at which a start code begins; a zero before one of three
\* bytes makes it one of four.
Boundaries(b) ==
  {i \in 1..Len(b) : codeAt(b, i) = 4 \/ (codeAt(b, i) = 3 /\ ~(i > 1 /\ b[i - 1] = 0))}

\* The NAL unit of b at boundary i of those in at, up to the next one, and its number.
NALUnit(b, at, i) == SubSeq(b, i, Min({j \in at : j > i} \cup {Len(b) + 1}) - 1)
Rank(at, i) == Cardinality({j \in at : j =< i})

\* A picture begins with its first slice; parameter sets and the like, types 6
\* to 9, stand before it and never between its slices.
FirstSlice(n) == isVCL(n) /\ n[startCodeLen(n) + 2] >= 128
WellFormed(s) ==
  LET at      == Boundaries(s)
      unit(i) == NALUnit(s, at, i)
  IN  /\ s \in Seq(0..255) /\ startCodeLen(s) # 0
      /\ \A i \in at : isVCL(unit(i)) =>
           /\ startCodeLen(unit(i)) + 1 < Len(unit(i))
           /\ ~FirstSlice(unit(i)) =>
                \E j \in at :
                  /\ j < i /\ isVCL(unit(j))
                  /\ \A k \in at : j < k /\ k < i => nalType(unit(k)) \notin 6..9

ASSUME EncoderAssumption == \A s \in Streams : WellFormed(s)
-----------------------------------------------------------------------------
(* browser.Attach *)

\* The tab is up and shows the page: pictures are taken from here on.
Launched ==
  /\ attach = "launch"
  /\ tab' = "open"
  /\ poll' = "capture"
  /\ attach' = "encode"
  /\ UNCHANGED <<ectx, feeder, ffmpeg, stream, cutting, reading, sent>>

\* Encode starts ffmpeg and its two goroutines.
Encode ==
  /\ attach = "encode"
  /\ ffmpeg' = "up"
  /\ feeder' = "receive"
  /\ reading' = "read"
  /\ attach' = "live"
  /\ UNCHANGED <<ectx, tab, poll, stream, cutting, sent>>

\* The browser, or ffmpeg, does not start: cancelAll.
AttachFails ==
  /\ attach \in {"launch", "encode"}
  /\ attach' = "failed"
  /\ tab' = "closed"
  /\ UNCHANGED <<ectx, poll, feeder, ffmpeg, stream, cutting, reading, sent>>

CancelFeed ==
  /\ attach # "idle" /\ ~ectx
  /\ ectx' = TRUE
  /\ UNCHANGED <<attach, source, stream, cutting, reading, sent>>

\* feed.Close after that, or the browser is gone on its own.
TabEnds ==
  /\ tab = "open"
  /\ tab' = "closed"
  /\ UNCHANGED <<ectx, attach, poll, feeder, ffmpeg, stream, cutting, reading, sent>>
-----------------------------------------------------------------------------
(* The goroutines between the tab and ffmpeg; png is unbuffered, and closed *)
(* when the poll loop returns.                                              *)

PollTo(s) ==
  /\ poll' = s
  /\ UNCHANGED <<ectx, attach, tab, feeder, ffmpeg, stream, cutting, reading, sent>>

Capture == poll = "capture" /\ tab = "open" /\ ~ectx /\ PollTo("send")

\* Mutant of PollEnds: the send does not watch tabCtx.
PollEndsMutant == poll = "capture" /\ TabDone /\ PollTo("gone")

PollEnds == poll \in {"capture", "send"} /\ TabDone /\ PollTo("gone")

Picture ==
  /\ poll = "send" /\ feeder = "receive"
  /\ poll' = "capture" /\ feeder' = "write"
  /\ UNCHANGED <<ectx, attach, tab, ffmpeg, stream, cutting, reading, sent>>

FeederTo(s) ==
  /\ feeder' = s
  /\ UNCHANGED <<ectx, attach, tab, poll, ffmpeg, stream, cutting, reading, sent>>

\* ffmpeg takes the picture whenever it pleases.
Fed == feeder = "write" /\ ffmpeg = "up" /\ FeederTo("receive")

\* ctx, a closed png or a write error end it, and close ffmpeg's stdin.
FeederEnds ==
  /\ \/ feeder = "receive" /\ (ectx \/ poll = "gone")
     \/ feeder = "write" /\ ffmpeg = "dead"
  /\ FeederTo("gone")

\* ffmpeg ends: killed with ctx, on EOF on its stdin, or by itself.
FfmpegEnds ==
  /\ ffmpeg = "up"
  /\ ffmpeg' = "dead"
  /\ UNCHANGED <<ectx, attach, tab, poll, feeder, stream, cutting, reading, sent>>
-----------------------------------------------------------------------------
(* Encode's goroutine on ffmpeg's stdout. *)

ReaderTo(s) == reading' = s /\ UNCHANGED <<ectx, attach, source, stream>>

\* n more bytes are read.
Read(n) ==
  /\ reading = "read"
  /\ n =< Len(stream) - rd
  /\ buf' = buf \o SubSeq(stream, rd + 1, rd + n)
  /\ rd' = rd + n
  /\ ReaderTo("split")
  /\ UNCHANGED <<nals, cur, au, sent>>

\* Mutant of skipped: one byte of the start code is skipped, not all.
skippedMutant(b) == IF startCodeLen(b) = 0 THEN 0 ELSE 1

\* How much of b the search for the next start code skips: its own.
skipped(b) == startCodeLen(b)

\* splitNALUnits, one turn: the first NAL unit is cut off, unless it may be
\* incomplete.
split ==
  /\ reading = "split"
  /\ LET next == indexStartCode(buf, skipped(buf))
     IN  IF skipped(buf) = 0 \/ next = 0
           THEN ReaderTo("push") /\ UNCHANGED <<nals, buf>>
           ELSE /\ nals' = Append(nals, SubSeq(buf, 1, next - 1))
                /\ buf' = SubSeq(buf, next, Len(buf))
                /\ ReaderTo("split")
  /\ UNCHANGED <<rd, cur, au, sent>>

\* auAssembler.push
push ==
  /\ reading = "push"
  /\ IF nals = <<>>
       THEN ReaderTo("read") /\ UNCHANGED <<nals, cur, au>>
       ELSE /\ nals' = Tail(nals)
            /\ IF (\E i \in DOMAIN cur : isVCL(cur[i])) /\ startsNewAU(Head(nals))
                 THEN au' = cur /\ cur' = <<Head(nals)>> /\ ReaderTo("send")
                 ELSE cur' = Append(cur, Head(nals)) /\ ReaderTo("push") /\ UNCHANGED au
  /\ UNCHANGED <<rd, buf, sent>>

\* The pump receives.
Sent ==
  /\ reading = "send"
  /\ sent' = Append(sent, au)
  /\ au' = <<>>
  /\ ReaderTo("push")
  /\ UNCHANGED <<rd, buf, nals, cur>>

\* Nobody does any more, or ffmpeg's stdout ends, short of what it would have
\* written had it lived: stdout is closed, ...
ReaderStops ==
  /\ \/ reading = "send" /\ ectx
     \/ reading = "read" /\ ffmpeg = "dead"
  /\ ReaderTo("stop")
  /\ UNCHANGED <<cutting, sent>>

\* Mutant of ReaderGone: frames is left open.
ReaderGoneMutant == FALSE /\ ReaderTo("gone") /\ UNCHANGED <<cutting, sent>>

\* ... cmd.Wait returns, and frames is closed.
ReaderGone ==
  /\ reading = "stop" /\ ffmpeg = "dead"
  /\ ReaderTo("gone")
  /\ UNCHANGED <<cutting, sent>>
-----------------------------------------------------------------------------
EncoderNext ==
  \/ Launched \/ Encode \/ AttachFails \/ CancelFeed \/ TabEnds
  \/ Capture \/ PollEnds \/ Picture \/ Fed \/ FeederEnds \/ FfmpegEnds
  \/ (\E n \in 1..Len(stream) : Read(n)) \/ split \/ push \/ Sent \/ ReaderStops \/ ReaderGone

\* Goroutines run and the pump receives.  A launch that is cancelled returns,
\* and ffmpeg ends when it is killed or its stdin is closed.  Nothing else is
\* assumed of the browser or of ffmpeg.
EncoderFairness ==
  /\ WF_encoderVars(ectx /\ (Encode \/ AttachFails))
  /\ WF_encoderVars(PollEnds) /\ WF_encoderVars(FeederEnds)
  /\ WF_encoderVars((ectx \/ feeder = "gone") /\ FfmpegEnds)
  /\ WF_encoderVars(split \/ push) /\ WF_encoderVars(Sent \/ ReaderStops)
  /\ WF_encoderVars(ReaderGone)

EncoderSpec == EncoderInit("launch") /\ [][EncoderNext]_encoderVars
EncoderFair == EncoderSpec /\ EncoderFairness
-----------------------------------------------------------------------------
\* However the bytes were cut up by read(), the NAL units sent, held and still
\* to be pushed are those of the stream so far, none lost, split or out of
\* order (nal.go:43-65, ffmpeg.go:217-235).
StreamIntact ==
  LET b   == SubSeq(stream, 1, rd)
      at  == Boundaries(b)
      all == Append(FlattenSeq(sent) \o au \o cur \o nals, buf)
  IN  reading # "split" =>
        /\ at = {} => all = <<b>>
        /\ at # {} =>
             /\ Len(all) = Cardinality(at)
             /\ \A i \in at : all[Rank(at, i)] = NALUnit(b, at, i)

\* One first slice, behind the parameter sets that came with it and before all
\* its other slices.
WholePicture(a) ==
  \E f \in DOMAIN a :
    /\ FirstSlice(a[f])
    /\ \A i \in 1..(f - 1) : ~isVCL(a[i])
    /\ \A i \in (f + 1)..Len(a) : ~FirstSlice(a[i]) /\ nalType(a[i]) \notin 6..9

\* Every access unit handed to the pump is one whole picture (nal.go:80-110).
OnePicture == \A a \in Range(sent) : WholePicture(a)

\* A feed that was cancelled, and an Attach that failed, leave nothing running:
\* no goroutine waits for another that is gone (browser.go:143-192,
\* ffmpeg.go:189-246).
PipelineEnds ==
  ectx \/ attach = "failed" ~>
    /\ poll \in {"none", "gone"} /\ feeder \in {"none", "gone"}
    /\ reading \in {"none", "gone"} /\ ffmpeg # "up"

\* Frames() and Attach keep the contract the session layer relies on
\* (backend.go:84-131).
EncoderFeed == INSTANCE Feed WITH
  cancelled <- ectx,
  dead      <- ffmpeg = "dead" \/ attach = "failed",
  frames    <- Len(sent),
  feed      <- CASE attach = "idle"               -> "idle"
                 [] attach \in {"launch", "encode"} -> "starting"
                 [] attach = "failed"             -> "failed"
                 [] reading = "gone"              -> "over"
                 [] OTHER                         -> "live"

EncoderIsFeed == EncoderFeed!Spec
=============================================================================
