-------------------------------- MODULE Feeds -------------------------------
(***************************************************************************)
(* The feed a daemon streams: it is started with one backend, simulators   *)
(* (Helper) or the browser (Encoder), as main.go chooses, and the session  *)
(* layer sees only the contract of Feed.                                   *)
(***************************************************************************)
EXTENDS Helper, Encoder

feedsVars == <<helperVars, encoderVars>>

\* The backend that was not chosen stays idle, whatever its stream would be.
FeedsInit ==
  \/ HelperInit("select") /\ EncoderInit("idle") /\ stream = CHOOSE s \in Streams : TRUE
  \/ HelperInit("idle") /\ EncoderInit("launch")

FeedsNext ==
  \/ HelperNext /\ UNCHANGED encoderVars
  \/ EncoderNext /\ UNCHANGED helperVars

FeedsSpec == FeedsInit /\ [][FeedsNext]_feedsVars /\ HelperFairness /\ EncoderFairness
-----------------------------------------------------------------------------
\* Both backends keep their types, and the browser's frames is closed only
\* after ffmpeg was waited for (ffmpeg.go:210-213).
FeedsTypeOK == HelperTypeOK /\ EncoderTypeOK

\* Nothing hangs with what it waits for: a start ends although the helper
\* hangs, and a feed that was given up leaves no process and no goroutine
\* (control.go:261-263, 367-394; browser.go:143-192, ffmpeg.go:189-246).
FeedsSettle == StartSettles /\ CloseReturns /\ PipelineEnds

\* Either backend is what the session layer takes it for (backend.go:84-131).
BackendsAreFeeds == HelperIsFeed /\ EncoderIsFeed
=============================================================================
