---------------------------- MODULE MBusRawTTY ----------------------------
(***************************************************************************)
(* The raw M-Bus TTY source (mbus_rawtty.cc).  Each time the event loop    *)
(* finds the TTY readable it calls MBusRawTTY::processSerialData, which    *)
(* appends whatever chunk serial()->receive returned to read_buffer_ and   *)
(* then runs the frame recognizer checkMBusFrame in a loop: a partial      *)
(* frame stops the loop, a protocol error clears the whole buffer, a full  *)
(* frame is erased from the front and its payload handed to               *)
(* handleTelegram.                                                         *)
(*                                                                         *)
(* Bytes are natural numbers; the byte stream a meter sends is chosen in   *)
(* Init from the constant set Streams, and every Receive takes a nonempty *)
(* prefix of what is still unsent: a TTY read returns any number of the   *)
(* bytes that have arrived.                                                *)
(***************************************************************************)
EXTENDS Naturals, Sequences

CONSTANTS
    Streams,    \* the byte streams a meter may send, each a finite sequence
    Contents    \* the contents sendTelegram is asked to send

ASSUME StreamsAssumption == Streams \subseteq Seq(0..255) /\ Contents \subseteq Seq(0..255)

VARIABLES
    stream,       \* the whole byte stream of this behaviour (history)
    input,        \* the bytes not yet returned by serial()->receive
    read_buffer,  \* read_buffer_
    telegrams     \* the payloads handed to handleTelegram, in order

vars == <<stream, input, read_buffer, telegrams>>

(***************************************************************************)
(* The M-Bus frame recognizer of spec 4.C (checkMBusFrame lives outside   *)
(* this source tree).  It returns the status and, for a full frame, the   *)
(* frame length and the payload length and 0-based offset.  A single      *)
(* character 0xE5 and a short frame 0x10 C A CS 0x16 carry no payload; a  *)
(* long frame 0x68 L L 0x68 C A CI data CS 0x16 carries its L user bytes  *)
(* starting at offset 4, CS being the low byte of their sum.              *)
(***************************************************************************)
PartialFrame == "PartialFrame"
FullFrame    == "FullFrame"
ErrorInFrame == "ErrorInFrame"

Verdict(st, flen, plen, poff) ==
    [status |-> st, frame_length |-> flen, payload_len |-> plen, payload_offset |-> poff]

\* Low byte of the sum of the bytes at 1-based positions lo..hi of b.
checksum(b, lo, hi) ==
    LET s[i \in lo..(hi + 1)] == IF i > hi THEN 0 ELSE b[i] + s[i + 1]
    IN  s[lo] % 256

\* Mutant: a long frame with fewer than 4 bytes is rejected, not awaited.
checkMBusFrame_ShortHeaderError(b) ==
    IF Len(b) > 0 /\ b[1] = 104 /\ Len(b) < 4
    THEN Verdict(ErrorInFrame, 0, 0, 0)
    ELSE IF Len(b) = 0 THEN Verdict(PartialFrame, 0, 0, 0)
    ELSE IF b[1] = 229 THEN Verdict(FullFrame, 1, 0, 0)
    ELSE IF b[1] = 16 THEN
        IF Len(b) < 5 THEN Verdict(PartialFrame, 0, 0, 0)
        ELSE IF b[5] = 22 /\ b[4] = checksum(b, 2, 3) THEN Verdict(FullFrame, 5, 0, 0)
        ELSE Verdict(ErrorInFrame, 0, 0, 0)
    ELSE IF b[1] # 104 THEN Verdict(ErrorInFrame, 0, 0, 0)
    ELSE IF b[4] # 104 \/ b[2] # b[3] \/ b[2] < 3 THEN Verdict(ErrorInFrame, 0, 0, 0)
    ELSE IF Len(b) < b[2] + 6 THEN Verdict(PartialFrame, 0, 0, 0)
    ELSE IF b[b[2] + 6] = 22 /\ b[b[2] + 5] = checksum(b, 5, b[2] + 4)
         THEN Verdict(FullFrame, b[2] + 6, b[2], 4)
    ELSE Verdict(ErrorInFrame, 0, 0, 0)

checkMBusFrame(b) ==
    LET L == b[2] IN
    IF Len(b) = 0 THEN Verdict(PartialFrame, 0, 0, 0)
    ELSE IF b[1] = 229 THEN Verdict(FullFrame, 1, 0, 0)
    ELSE IF b[1] = 16 THEN
        IF Len(b) < 5 THEN Verdict(PartialFrame, 0, 0, 0)
        ELSE IF b[5] = 22 /\ b[4] = checksum(b, 2, 3) THEN Verdict(FullFrame, 5, 0, 0)
        ELSE Verdict(ErrorInFrame, 0, 0, 0)
    ELSE IF b[1] # 104 THEN Verdict(ErrorInFrame, 0, 0, 0)
    ELSE IF Len(b) < 4 THEN Verdict(PartialFrame, 0, 0, 0)
    ELSE IF b[4] # 104 \/ b[2] # b[3] \/ L < 3 THEN Verdict(ErrorInFrame, 0, 0, 0)
    ELSE IF Len(b) < L + 6 THEN Verdict(PartialFrame, 0, 0, 0)
    ELSE IF b[L + 6] = 22 /\ b[L + 5] = checksum(b, 5, L + 4)
         THEN Verdict(FullFrame, L + 6, L, 4)
    ELSE Verdict(ErrorInFrame, 0, 0, 0)

(***************************************************************************)
(* The body of the for(;;) loop of processSerialData: what one verdict    *)
(* does to the buffer and to the telegrams handed on.  The payload is the *)
(* length byte re-inserted before the payload bytes, or empty.            *)
(***************************************************************************)
\* Mutant: the payload copy runs one byte too far and takes the CS byte.
payloadOf_TakesChecksum(b, v) ==
    IF v.payload_len > 0
    THEN <<v.payload_len>> \o SubSeq(b, v.payload_offset + 1, v.payload_offset + v.payload_len + 1)
    ELSE <<>>

payloadOf(b, v) ==
    IF v.payload_len > 0
    THEN <<v.payload_len>> \o SubSeq(b, v.payload_offset + 1, v.payload_offset + v.payload_len)
    ELSE <<>>

\* The loop, run to its break, on buffer b with the telegrams out already
\* handed on: a record of the buffer left and all the telegrams delivered.
\* Mutant: on ErrorInFrame the loop breaks without read_buffer_.clear().
RECURSIVE eatFrom_NoClear(_, _)
eatFrom_NoClear(b, out) ==
    LET v == checkMBusFrame(b) IN
    CASE v.status \in {PartialFrame, ErrorInFrame} -> [buf |-> b, out |-> out]
      [] OTHER -> eatFrom_NoClear(SubSeq(b, v.frame_length + 1, Len(b)),
                                  Append(out, payloadOf(b, v)))

RECURSIVE eatFrom(_, _)
eatFrom(b, out) ==
    LET v == checkMBusFrame(b) IN
    CASE v.status = PartialFrame -> [buf |-> b, out |-> out]
      [] v.status = ErrorInFrame -> [buf |-> <<>>, out |-> out]
      [] OTHER -> eatFrom(SubSeq(b, v.frame_length + 1, Len(b)),
                          Append(out, payloadOf(b, v)))

eat(b) == eatFrom(b, <<>>)

(***************************************************************************)
(* MBusRawTTY::sendTelegram: the bytes it writes for a content, a short   *)
(* frame 0x10 content CS 0x16 or a long frame 0x68 L L 0x68 content CS    *)
(* 0x16, CS the uchar sum of the content; nothing for more than 250 bytes.*)
(* The readonly early return and the result of send() are left out.       *)
(***************************************************************************)
trailer(content) == <<checksum(content, 1, Len(content)), 22>>

\* Mutant: the long frame header carries the L byte only once.
sendTelegram_OneL(starts_with, content) ==
    IF Len(content) > 250 THEN <<>>
    ELSE IF starts_with = "SHORT_FRAME" THEN <<16>> \o content \o trailer(content)
    ELSE <<104, Len(content), 104>> \o content \o trailer(content)

sendTelegram(starts_with, content) ==
    IF Len(content) > 250 THEN <<>>
    ELSE IF starts_with = "SHORT_FRAME" THEN <<16>> \o content \o trailer(content)
    ELSE <<104, Len(content), Len(content), 104>> \o content \o trailer(content)

Init ==
    /\ stream \in Streams
    /\ input = stream
    /\ read_buffer = <<>>
    /\ telegrams = <<>>

(***************************************************************************)
(* processSerialData: receive a chunk of k bytes, append it, eat frames.  *)
(***************************************************************************)
\* Mutant: the chunk is inserted at the front of read_buffer_, not the end.
processSerialData_Prepend(k) ==
    LET res == eat(SubSeq(input, 1, k) \o read_buffer) IN
    /\ input' = SubSeq(input, k + 1, Len(input))
    /\ read_buffer' = res.buf
    /\ telegrams' = telegrams \o res.out
    /\ UNCHANGED stream

processSerialData(k) ==
    LET res == eat(read_buffer \o SubSeq(input, 1, k)) IN
    /\ input' = SubSeq(input, k + 1, Len(input))
    /\ read_buffer' = res.buf
    /\ telegrams' = telegrams \o res.out
    /\ UNCHANGED stream

Receive ==
    \E k \in 1..Len(input) : processSerialData(k)

\* Once the meter has sent everything, nothing more happens.
Drained ==
    /\ input = <<>>
    /\ UNCHANGED vars

Next == Receive \/ Drained

Spec == Init /\ [][Next]_vars /\ WF_vars(Receive)

-----------------------------------------------------------------------------
\* A telegram handed to handleTelegram is empty or starts with the length
\* byte of the payload bytes that follow it.
Payload == {p \in Seq(0..255) : p = <<>> \/ p[1] = Len(p) - 1}

TypeOK ==
    /\ stream \in Streams
    /\ input \in Seq(0..255)
    /\ read_buffer \in Seq(0..255)
    /\ telegrams \in Seq(Payload)
(***************************************************************************)
(* Spec 8, invariant 1: however serial()->receive splits the stream into  *)
(* chunks, processSerialData hands handleTelegram the same ordered        *)
(* telegrams as when the whole stream arrives in one read.  Whatever has  *)
(* been delivered so far is a prefix of that, and once all bytes are read *)
(* it is all of it.                                                        *)
(***************************************************************************)
reference == eat(stream).out

IsPrefixOf(s, t) == Len(s) <= Len(t) /\ SubSeq(t, 1, Len(s)) = s

SplitInvariance ==
    /\ IsPrefixOf(telegrams, reference)
    /\ input = <<>> => telegrams = reference

(***************************************************************************)
(* What spec 8 invariant 1 does hold: on every stream that one read       *)
(* decodes without meeting a protocol error, every split gives the same   *)
(* telegrams.  A frame split across reads waits in read_buffer_ as a      *)
(* PartialFrame and is never mistaken for an error.                       *)
(***************************************************************************)
RECURSIVE errorFree(_)
errorFree(b) ==
    LET v == checkMBusFrame(b) IN
    CASE v.status = PartialFrame -> TRUE
      [] v.status = ErrorInFrame -> FALSE
      [] OTHER -> errorFree(SubSeq(b, v.frame_length + 1, Len(b)))

CleanSplitInvariance == errorFree(stream) => SplitInvariance

(***************************************************************************)
(* Between two reads read_buffer_ holds at most the start of one frame:   *)
(* processSerialData never leaves a complete frame or a protocol error    *)
(* behind, so the buffer cannot grow without bound on a noisy line.       *)
(***************************************************************************)
BufferHoldsPartialFrame ==
    checkMBusFrame(read_buffer).status = PartialFrame

(***************************************************************************)
(* On a noisy line the split matters, but only one way: an ErrorInFrame   *)
(* discards the rest of the read it is found in, so the telegrams of one  *)
(* read of the whole stream are a prefix of those of any split of it.     *)
(* Splitting the stream never loses or reorders a telegram that one read  *)
(* delivers.                                                               *)
(***************************************************************************)
SplitOnlyRecovers ==
    input = <<>> => IsPrefixOf(reference, telegrams)

(***************************************************************************)
(* What sendTelegram writes, processSerialData reads back as one telegram: *)
(* a short frame of a two-byte content (C A) with no payload, and a long   *)
(* frame of a content of at least three bytes (C A CI data) with the       *)
(* content, its length byte re-inserted in front, as the payload.  Checked *)
(* for the contents of Contents and for every long-frame payload received. *)
(***************************************************************************)
received == {Tail(telegrams[i]) : i \in {j \in DOMAIN telegrams : telegrams[j] # <<>>}}

RoundTrip ==
    \A c \in Contents \cup received :
        /\ Len(c) = 2 => eat(sendTelegram("SHORT_FRAME", c)).out = << <<>> >>
        /\ Len(c) >= 3 => eat(sendTelegram("LONG_FRAME", c)).out = << <<Len(c)>> \o c >>
=============================================================================
