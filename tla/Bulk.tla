-------------------------------- MODULE Bulk --------------------------------
(***************************************************************************)
(* The "bulk" data channel of one session (internal/server/bulk.go): a     *)
(* client asks for the list of simulators, a screenshot or another         *)
(* quality, and reads text frames and the binary chunks of a transfer.     *)
(*                                                                         *)
(* handleBulk runs on the channel's own goroutine, one request at a time.  *)
(* The session layer's other goroutines answer lifecycle requests on the   *)
(* same channel, between any two of its frames, and attach and detach      *)
(* devices.  The channel is reliable and ordered until it closes for good. *)
(* A byte of a reply is the number of the request it answers and its       *)
(* place; lengths are in the smallest unit that keeps the cases apart.     *)
(***************************************************************************)
EXTENDS Naturals, SequencesExt

CONSTANTS
  MaxRequests,   \* bound: requests of the client
  MaxLife,       \* bound: lifecycle replies of other goroutines
  FrameMax,      \* bulkFrameMax
  MsgMax,        \* lifecycleMsgMax
  MaxText,       \* the length of a long text; a short one has length 1
  Escape,        \* the bytes json.Marshal may need for one of a text
  MaxRest,       \* the longest rest of a reply, which has the client's udid
  MaxPayload,    \* bound: the length of an image or a list
  Negotiated     \* the message sizes SCTP may negotiate, 0 for none yet

ASSUME BulkAssumption ==
  /\ MaxRequests \in Nat /\ MaxLife \in Nat /\ MaxText \in Nat \ {0} /\ MaxPayload \in Nat \ {0}
  /\ FrameMax \in Nat \ {0} /\ MsgMax \in Nat
  /\ Escape \in Nat \ {0} /\ MaxRest \in Nat \ {0}
  /\ Negotiated \subseteq Nat

VARIABLES
  open,       \* the channel has not closed
  bulkMax,    \* what SCTP negotiated
  attached,   \* d.att is set
  asked,      \* history: requests sent
  inbox,      \* requests the handler has not taken
  job,        \* what the handler is in, and what it has still to send
  life,       \* history: lifecycle replies sent
  wire,       \* frames on their way to the client
  got,        \* the client's transfer: the bytes it waits for and those it has
  answers     \* history: the answers the client got, in order

bulkVars == <<open, bulkMax, attached, asked, inbox, job, life, wire, got, answers>>

Idle     == [at |-> "idle", id |-> 0, left |-> <<>>, size |-> 0]
NoXfer   == [need |-> 0, have |-> <<>>]
Requests == 1..MaxRequests
Bytes    == Requests \X (1..MaxPayload)
Payload(id, n) == [i \in 1..n |-> <<id, i>>]

\* A frame is text of some length or binary.  id is not on the wire: it is the
\* request a text frame answers, 0 for a lifecycle reply.
Text(kind, id, len, bytes) == [kind |-> kind, id |-> id, len |-> len, bytes |-> bytes, data |-> <<>>]
Binary(data) == [kind |-> "chunk", id |-> 0, len |-> Len(data), bytes |-> 0, data |-> data]

BulkTypeOK ==
  /\ open \in BOOLEAN /\ bulkMax \in Negotiated /\ attached \in BOOLEAN
  /\ asked \in 0..MaxRequests
  /\ \A i \in DOMAIN inbox : inbox[i].type \in {"list", "screenshot", "quality", "bad"}
  /\ job.at \in {"idle", "list", "capture", "sims", "image"}
  /\ job.left \in Seq(Bytes) /\ (job.at \in {"sims", "image"} <=> job.left # <<>>)
  /\ life \in 0..MaxLife
  /\ got.need \in 0..MaxPayload /\ got.have \in Seq(Bytes)

BulkInit ==
  /\ open = TRUE /\ bulkMax \in Negotiated /\ attached = FALSE
  /\ asked = 0 /\ inbox = <<>> /\ job = Idle /\ life = 0
  /\ wire = <<>> /\ got = NoXfer /\ answers = <<>>
-----------------------------------------------------------------------------
\* SendBulk and SendBulkText fail once the channel is closed, and for a frame
\* the peer would not take.
Sendable(f) == open /\ (bulkMax = 0 \/ f.len =< bulkMax)

Send(f) == wire' = IF Sendable(f) THEN Append(wire, f) ELSE wire

\* json.Marshal: how long a frame with a text of n bytes is, where the rest of it
\* takes so many, when it escapes none of the text or all of it.
Marshal(n, rest) == {rest + n, rest + Escape * n}

\* bulkError: text short or long, and nothing more if it cannot be sent.
bulkError(id) ==
  \E n \in {1, MaxText} : \E len \in Marshal(n, 1) : Send(Text("error", id, len, 0))

\* Mutant of chunkSize: as much as the peer takes.
chunkSizeMutant == IF bulkMax > 0 THEN bulkMax ELSE FrameMax

chunkSize == IF bulkMax > 0 /\ bulkMax < FrameMax THEN bulkMax ELSE FrameMax

\* sendChunked begins: the header, or what the caller does when it fails.
\* doList only logs that; doScreenshot still tries an error.
Begin(at, id, n) ==
  LET h == Text("header", id, 1, n) IN
    IF Sendable(h)
      THEN wire' = Append(wire, h) /\ job' = [at |-> at, id |-> id, left |-> Payload(id, n), size |-> chunkSize]
      ELSE /\ job' = Idle
           /\ IF at = "image" THEN bulkError(id) ELSE UNCHANGED wire

\* handleBulk takes a request.
Handle ==
  /\ open /\ job = Idle /\ inbox # <<>>
  /\ LET r == Head(inbox)
         enter(at) == job' = [Idle EXCEPT !.at = at, !.id = r.id] /\ UNCHANGED <<wire, attached>>
     IN  \/ r.type = "list" /\ enter("list")
         \/ r.type = "screenshot" /\ attached /\ enter("capture")
         \/ /\ \/ r.type = "bad"
               \/ r.type \in {"screenshot", "quality"} /\ ~attached
            /\ bulkError(r.id) /\ UNCHANGED <<job, attached>>
         \/ /\ r.type = "quality" /\ attached
            /\ attached' = FALSE
            /\ Send(Text("quality", r.id, 1, 0)) /\ UNCHANGED job
  /\ inbox' = Tail(inbox)
  /\ UNCHANGED <<open, bulkMax, asked, life, got, answers>>

\* The backend has listed the simulators, or failed.
Listed ==
  /\ job.at = "list"
  /\ \/ \E n \in 1..MaxPayload : Begin("sims", job.id, n)
     \/ bulkError(job.id) /\ job' = Idle
  /\ UNCHANGED <<open, bulkMax, attached, asked, inbox, life, got, answers>>

\* The feed's capture, of a device that may be detached by now.
Captured ==
  /\ job.at = "capture"
  /\ \E n \in 1..MaxPayload : Begin("image", job.id, n)
  /\ UNCHANGED <<open, bulkMax, attached, asked, inbox, life, got, answers>>

\* Mutant of NotCaptured: the client is not told.
NotCapturedMutant ==
  /\ job.at = "capture"
  /\ job' = Idle
  /\ UNCHANGED <<open, bulkMax, attached, asked, inbox, life, got, answers, wire>>

\* It failed, brought nothing or passed screenshotTimeout.
NotCaptured ==
  /\ job.at = "capture"
  /\ bulkError(job.id) /\ job' = Idle
  /\ UNCHANGED <<open, bulkMax, attached, asked, inbox, life, got, answers>>

\* Mutant of Cut: the first byte behind a chunk is lost.
CutMutant(s, n) == SubSeq(s, n + 2, Len(s))

\* What is left of s when its first n bytes are sent.
Cut(s, n) == SubSeq(s, n + 1, Len(s))

\* Mutant of Remaining: the loop runs once more at the end.
RemainingMutant(rest) == IF job.left = <<>> THEN Idle ELSE [job EXCEPT !.left = rest]

\* The transfer goes on with rest, or is done.
Remaining(rest) == IF rest = <<>> THEN Idle ELSE [job EXCEPT !.left = rest]

\* sendChunked, one chunk.
Chunk ==
  /\ job.at \in {"sims", "image"}
  /\ LET f == Binary(SubSeq(job.left, 1, Min({job.size, Len(job.left)})))
     IN  IF Sendable(f)
           THEN wire' = Append(wire, f) /\ job' = Remaining(Cut(job.left, job.size))
           ELSE /\ job' = Idle
                /\ IF job.at = "image" THEN bulkError(job.id) ELSE UNCHANGED wire
  /\ UNCHANGED <<open, bulkMax, attached, asked, inbox, life, got, answers>>
-----------------------------------------------------------------------------
\* Mutant of Capped: the text is sent as it is.
CappedMutant(n) == n

\* replyBulk's text: cut, and an ellipsis put behind it, before it is marshalled.
Capped(n) == IF n > MsgMax THEN MsgMax + 1 ELSE n

\* A lifecycle reply from another goroutine, which attached or detached.
Lifecycle ==
  /\ life < MaxLife
  /\ life' = life + 1
  /\ \E n \in {1, MaxText}, rest \in {1, MaxRest} :
       \E len \in Marshal(Capped(n), rest) : Send(Text("lifecycle", 0, len, 0))
  /\ attached' \in BOOLEAN
  /\ UNCHANGED <<open, bulkMax, asked, inbox, job, got, answers>>

\* The session ends.
Hangup ==
  /\ open
  /\ open' = FALSE
  /\ UNCHANGED <<bulkMax, attached, asked, inbox, job, life, wire, got, answers>>

\* The client asks, before an answer came when it repeats a list.
Ask ==
  /\ open /\ asked < MaxRequests
  /\ asked' = asked + 1
  /\ \E t \in {"list", "screenshot", "quality", "bad"} :
       inbox' = Append(inbox, [id |-> asked', type |-> t])
  /\ UNCHANGED <<open, bulkMax, attached, job, life, wire, got, answers>>

\* The client reads a frame: a header starts a transfer, its chunks are put
\* together until the announced number of bytes is there, an error or an echo
\* answers, a lifecycle reply is another matter.
Read ==
  /\ wire # <<>>
  /\ LET f    == Head(wire)
         have == got.have \o f.data
     IN  CASE f.kind = "header" ->
                got' = [need |-> f.bytes, have |-> <<>>] /\ UNCHANGED answers
           [] f.kind = "chunk" ->
                IF Len(have) < got.need
                  THEN got' = [got EXCEPT !.have = have] /\ UNCHANGED answers
                  ELSE got' = NoXfer /\ answers' = Append(answers, have)
           [] f.kind = "lifecycle" -> UNCHANGED <<got, answers>>
           [] OTHER -> answers' = Append(answers, <<<<f.id, 0>>>>) /\ UNCHANGED got
  /\ wire' = Tail(wire)
  /\ UNCHANGED <<open, bulkMax, attached, asked, inbox, job, life>>

BulkNext ==
  \/ Handle \/ Listed \/ Captured \/ NotCaptured \/ Chunk
  \/ Lifecycle \/ Hangup \/ Ask \/ Read

\* The handler's goroutine runs, simctl lists the simulators in the end, and
\* screenshotTimeout passes; the client reads.
BulkFairness ==
  /\ WF_bulkVars(Handle) /\ WF_bulkVars(Listed) /\ WF_bulkVars(Captured \/ NotCaptured)
  /\ WF_bulkVars(Chunk) /\ WF_bulkVars(Read)
-----------------------------------------------------------------------------
\* The peer takes the longest answer there is: SCTP negotiates no less.
Roomy == bulkMax = 0 \/ bulkMax >= 1 + Escape * MaxText

\* What the client gets is, answer by answer, what it asked for: no request is
\* passed over or answered twice, and the chunks it puts together by their
\* count alone are one payload, whole and in order, whatever text frames of
\* other goroutines fall between them (bulk.go:76-84, 110-114, 246-271).
AnswersMatch ==
  Roomy => \A i \in DOMAIN answers :
             answers[i] \in {<<<<i, 0>>>>, Payload(i, Len(answers[i]))}

\* A transfer's frames and the echo of a quality fit one packet, whatever SCTP
\* negotiated, and a lifecycle reply is no longer for a backend's error without
\* end: its length is bounded by the cap on the text, which json.Marshal may then
\* stretch, and by the udid, which nothing caps.  That bound may exceed FrameMax,
\* and an error envelope has none, though bulk.go:19 speaks of every frame and
\* bulk.go:273-278 of what keeps a reply inside (bulk.go:236-244, 281-307).
FrameBounds ==
  \A i \in DOMAIN wire :
    /\ wire[i].kind \in {"header", "chunk", "quality"} => wire[i].len =< FrameMax
    /\ wire[i].kind = "lifecycle" => wire[i].len =< MaxRest + Escape * (MsgMax + 1)

\* While the channel is open every request is answered, in the end
\* (bulk.go:110-114).
RequestAnswered ==
  Roomy /\ Len(answers) < asked ~> Len(answers) = asked \/ ~open
=============================================================================
