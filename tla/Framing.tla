------------------------------ MODULE Framing -------------------------------
(***************************************************************************)
(* Frames over a byte stream (server/transport), and the two carriers that *)
(* use them: the in-memory pair and the TLS stream (server/transport-tls,  *)
(* server/control-server).                                                 *)
(*                                                                         *)
(* A byte is a digit below Base, and the length that precedes a payload    *)
(* has two digits, the high one first.  The lengths above MaxFrame that    *)
(* two digits can name are the prefixes a reader must refuse.              *)
(***************************************************************************)
EXTENDS Integers, Sequences, SequencesExt

CONSTANTS
  Base,      \* digits
  MaxFrame,  \* MAX_FRAME_LEN
  Payloads,  \* the payloads that are sent
  Noise,     \* bytes a broken peer puts on the wire
  MaxSends   \* bound: sends

ASSUME FramingAssumption ==
  /\ Base \in Nat \ {0} /\ MaxFrame \in 0..(Base * Base - 1)
  /\ Payloads \subseteq Seq(0..(Base - 1)) /\ Noise \subseteq Seq(0..(Base - 1))

VARIABLES
  wire,      \* bytes sent and not read yet
  inbuf,     \* bytes read that are no whole frame yet
  sent,      \* payloads accepted for sending
  received,  \* payloads received
  carrier,   \* "duplex" or "tls"
  wOpen,     \* the writer is there
  rState,    \* what the last recv said: "open", "frame", "none", "error", or "gone"
  spoilt     \* noise was put on the wire

frameVars == <<wire, inbuf, sent, received, carrier, wOpen, rState, spoilt>>

Prefix == 2

EncodeFrame(p) == <<Len(p) \div Base, Len(p) % Base>> \o p

\* A frame at the front of the buffer, the need of more bytes, or a refusal;
\* what is not a whole frame stays where it is.
DecodeFrame(buf) ==
  IF Len(buf) < Prefix THEN [is |-> "partial", rest |-> buf]
  ELSE LET len == buf[1] * Base + buf[2]
           need == Prefix + len
       IN  IF len > MaxFrame THEN [is |-> "error", rest |-> buf]
           ELSE IF Len(buf) < need THEN [is |-> "partial", rest |-> buf]
           ELSE [is |-> "frame", payload |-> SubSeq(buf, Prefix + 1, need),
                 rest |-> SubSeq(buf, need + 1, Len(buf))]

\* send: a payload that is too long is refused by the sender; the in-memory pair
\* refuses one that nobody is there to read.
SendFrame ==
  /\ wOpen /\ Len(sent) < MaxSends
  /\ \E p \in Payloads :
       /\ Len(p) <= MaxFrame /\ (carrier = "duplex" => rState # "gone")
       /\ wire' = wire \o EncodeFrame(p) /\ sent' = Append(sent, p)
  /\ UNCHANGED <<inbuf, received, carrier, wOpen, rState, spoilt>>

SendRefused ==
  /\ wOpen /\ Len(sent) < MaxSends
  /\ \E p \in Payloads : Len(p) > MaxFrame \/ (carrier = "duplex" /\ rState = "gone")
  /\ sent' = sent /\ UNCHANGED <<wire, inbuf, received, carrier, wOpen, rState, spoilt>>

\* A peer that does not keep to the format.
PutNoise ==
  /\ wOpen /\ ~spoilt /\ spoilt' = TRUE
  /\ \E n \in Noise : wire' = wire \o n
  /\ UNCHANGED <<inbuf, sent, received, carrier, wOpen, rState>>

CloseWriter ==
  /\ wOpen /\ wOpen' = FALSE
  /\ UNCHANGED <<wire, inbuf, sent, received, carrier, rState, spoilt>>

DropReader ==
  /\ rState # "gone" /\ rState' = "gone"
  /\ UNCHANGED <<wire, inbuf, sent, received, carrier, wOpen, spoilt>>

Reading == rState # "gone"

\* What a decoded buffer does to the reader.
Deliver(d) ==
  /\ inbuf' = d.rest
  /\ received' = IF d.is = "frame" THEN Append(received, d.payload) ELSE received
  /\ rState' = d.is

\* recv of the in-memory pair: every byte there is, then one frame; nothing
\* whole is none, whether the peer is there or not.
RecvDuplex ==
  /\ carrier = "duplex" /\ Reading
  /\ wire' = <<>>
  /\ LET d == DecodeFrame(inbuf \o wire)
     IN  Deliver(IF d.is = "partial" THEN [d EXCEPT !.is = "none"] ELSE d)
  /\ UNCHANGED <<sent, carrier, wOpen, spoilt>>

\* recv over TLS: what is buffered is tried before the stream is read.
RecvBuffered ==
  /\ carrier = "tls" /\ Reading /\ DecodeFrame(inbuf).is # "partial"
  /\ Deliver(DecodeFrame(inbuf))
  /\ UNCHANGED <<wire, sent, carrier, wOpen, spoilt>>

\* A read takes any part of what has arrived.
ReadChunk ==
  /\ carrier = "tls" /\ Reading /\ DecodeFrame(inbuf).is = "partial"
  /\ \E n \in 1..Len(wire) :
       inbuf' = inbuf \o SubSeq(wire, 1, n) /\ wire' = SubSeq(wire, n + 1, Len(wire))
  /\ rState' = "open"
  /\ UNCHANGED <<sent, received, carrier, wOpen, spoilt>>

\* Mutant: the end of the stream is looked for first.
RecvEndFirst ==
  /\ carrier = "tls" /\ Reading /\ wire = <<>> /\ ~wOpen
  /\ rState' = "none"
  /\ UNCHANGED <<wire, inbuf, sent, received, carrier, wOpen, spoilt>>

\* The end of the stream, whatever part of a frame is left over.
RecvEnd ==
  /\ carrier = "tls" /\ Reading /\ DecodeFrame(inbuf).is = "partial"
  /\ wire = <<>> /\ ~wOpen /\ rState' = "none"
  /\ UNCHANGED <<wire, inbuf, sent, received, carrier, wOpen, spoilt>>

FramingInit ==
  /\ wire = <<>> /\ inbuf = <<>> /\ sent = <<>> /\ received = <<>>
  /\ carrier \in {"duplex", "tls"} /\ wOpen = TRUE /\ rState = "open" /\ spoilt = FALSE

FramingNext ==
  \/ SendFrame \/ SendRefused \/ PutNoise \/ CloseWriter \/ DropReader
  \/ RecvDuplex \/ RecvBuffered \/ ReadChunk \/ RecvEnd

FramingSpec == FramingInit /\ [][FramingNext]_frameVars

-----------------------------------------------------------------------------
(* Properties. *)

\* What is received is what was sent, whole and in order, however the stream is
\* cut into reads and whatever comes after it.
FramesWhole ==
  /\ ~spoilt => IsPrefix(received, sent)
  /\ \A i \in DOMAIN received : Len(received[i]) <= MaxFrame

\* The end of a stream is reported once nothing that was sent is still to come.
EndAfterAll ==
  (rState = "none" /\ ~wOpen /\ ~spoilt /\ carrier = "tls") => received = sent

\* A reader refuses no stream that its peer wrote as it should.
NeverRefused == rState = "error" => spoilt

\* A stream is what was put into it, to its end.
StreamWhole == FramesWhole /\ EndAfterAll /\ NeverRefused
=============================================================================
