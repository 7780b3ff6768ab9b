--------------------------- MODULE MC_MBusRawTTY ---------------------------
(* Contents for sendTelegram: every C A pair and every C A CI of the bytes *)
(* 0, 0x16, 0x68 and 0xE5, the ones that end or start frames.  Streams:    *)
(* one to three frames sendTelegram writes (a single-character 0xE5, a     *)
(* short and a long frame whose user data hold 0x68 and 0xE5), and, for    *)
(* the noisy line, a garbage byte or a long frame whose two L bytes       *)
(* differ, first or between two good frames, so that one read of the     *)
(* stream hands on the frames before it and clears the rest.             *)
EXTENDS MBusRawTTY

Bytes == {0, 22, 104, 229}

MC_Contents == [1..2 -> Bytes] \cup [1..3 -> Bytes]

SingleChar == <<229>>
ShortFrame == sendTelegram("SHORT_FRAME", <<1, 2>>)
LongFrame  == sendTelegram("LONG_FRAME", <<1, 104, 229>>)
BadLength  == [LongFrame EXCEPT ![3] = 4]
Garbage    == <<0>>

Good == {SingleChar, ShortFrame, LongFrame}

Concat(F) == {f \o g : f \in F, g \in F} \cup {f \o g \o h : f \in F, g \in F, h \in F}

MC_Streams == Good \cup Concat(Good)

Noise == {Garbage, BadLength}

MC_NoisyStreams ==
    {f \o g \o h : f \in Good \cup Noise, g \in Good \cup Noise, h \in Good} \ MC_Streams

MC_AllStreams == MC_Streams \cup MC_NoisyStreams
=============================================================================
