------------------------------ MODULE MCFeeds -------------------------------
(* The instance of Feeds that TLC checks. *)
EXTENDS Feeds

\* A timestamp is the one before, goes back, or forward, past the width too.
MCJumps == {-1, 0, 2}

\* Parameter sets, the first slice of a picture behind a start code of three
\* bytes and of four, and a slice that continues a picture; two of them end in
\* a zero, which belongs to the start code behind it.
SPS  == <<0, 0, 0, 1, 103, 66>>
IDR  == <<0, 0, 1, 101, 136>>
P    == <<0, 0, 0, 1, 65, 154, 0>>
Cont == <<0, 0, 1, 65, 64, 0>>

\* Pictures of one slice and of several, with and without parameter sets, and
\* an empty NAL unit.
MCStreams == {SPS \o IDR \o Cont \o P \o P,
              SPS \o SPS \o IDR \o SPS \o IDR \o P,
              IDR \o P \o Cont \o Cont \o P,
              P \o SPS \o IDR \o Cont \o <<0, 0, 1>> \o P}
=============================================================================
