---------------------------- MODULE StreamFraming ----------------------------
(***************************************************************************)
(* Frames on a byte stream: write_length_prefixed at one end, and at the   *)
(* other either read_length_prefixed of the Rust reference                 *)
(* (transports/rust/src/carrier.rs) or the LengthPrefixedDeframer of the   *)
(* TypeScript port (transports/typescript/src/carrier.ts).                 *)
(*                                                                         *)
(* A byte is a number below Base and a prefix has PrefixBytes of them, 256 *)
(* and 4 in the code; what matters is that a body is made of the same      *)
(* bytes as a prefix, so that a reader that has lost its place reads one   *)
(* as the other.  The two ends may be built with different max-frame       *)
(* limits.  Bytes in `stream` have been written and not yet read: they may *)
(* be in a buffer or on the way, so a read may time out before them.       *)
(***************************************************************************)
EXTENDS Naturals, Sequences, SequencesExt

CONSTANTS
  Base,           \* the number of values of a byte
  PrefixBytes,    \* the bytes of a length prefix
  Bodies,         \* the frames a program may send
  SenderMax,      \* max-frame limit of the sender
  ReaderMax,      \* max-frame limit of the reader
  Readers,        \* the readers considered: a subset of {"rust", "typescript"}
  MaxFrames,      \* bound: sends attempted
  MaxWriteFails,  \* bound: writes that fail half-way
  MaxTimeouts     \* bound: reads that time out

ASSUME StreamAssumption ==
  /\ Base \in Nat \ {0, 1} /\ PrefixBytes \in Nat \ {0}
  /\ Bodies \subseteq Seq(0 .. Base - 1)
  /\ SenderMax \in 0 .. Base ^ PrefixBytes - 1
  /\ ReaderMax \in 0 .. Base ^ PrefixBytes - 1
  /\ Readers \subseteq {"rust", "typescript"}
  /\ MaxFrames \in Nat /\ MaxWriteFails \in Nat /\ MaxTimeouts \in Nat

VARIABLES
  reader,      \* which reader is at the receiving end
  sent,        \* frames whose send reported success, in order
  whole,       \* history: frames of which every byte was written, in order
  writeFails,  \* sends that reported an error of the stream
  cut,         \* bytes of a frame that a failed send left unfinished
  resumed,     \* something was sent after an unfinished frame
  open,        \* the sender's end has not been closed
  stream,      \* bytes written and not yet read
  part,        \* Rust: what is being read, "prefix" or "body"
  need,        \* Rust: how many bytes of it there are
  buf,         \* bytes read and not yet handed on
  received,    \* frames handed to the program, in order
  readErrors,  \* errors the reader has returned
  timeouts,    \* those among them that were time-outs
  misaligned,  \* an error threw away or left behind bytes of a frame
  ended        \* the reader has returned a clean end of stream

senderVars == <<sent, whole, writeFails, cut, resumed, open>>
readerVars == <<part, need, buf, received, readErrors, timeouts, misaligned, ended>>
streamVars == <<reader, senderVars, stream, readerVars>>

-----------------------------------------------------------------------------
(* The wire: a big-endian length, then the body. *)

LengthPrefix(n) ==
  [i \in 1 .. PrefixBytes |-> (n \div Base ^ (PrefixBytes - i)) % Base]

PrefixValue(bytes) == FoldLeft(LAMBDA value, b : value * Base + b, 0, bytes)

(* What u32::to_be_bytes and from_be_bytes do: they are each other's         *)
(* inverse between the numbers that fit and the prefixes.                    *)
ASSUME PrefixAssumption ==
  /\ Base ^ PrefixBytes \in Nat
  /\ \A n \in 0 .. Base ^ PrefixBytes - 1 :
       LengthPrefix(n) \in [1 .. PrefixBytes -> 0 .. Base - 1] /\ PrefixValue(LengthPrefix(n)) = n
  /\ \A bytes \in [1 .. PrefixBytes -> 0 .. Base - 1] :
       PrefixValue(bytes) \in 0 .. Base ^ PrefixBytes - 1 /\ LengthPrefix(PrefixValue(bytes)) = bytes

Framed(body) == LengthPrefix(Len(body)) \o body

Attempts == Len(sent) + writeFails

StreamInit ==
  /\ reader \in Readers
  /\ sent = <<>> /\ whole = <<>> /\ writeFails = 0 /\ cut = 0 /\ resumed = FALSE /\ open = TRUE
  /\ stream = <<>>
  /\ part = "prefix" /\ need = PrefixBytes /\ buf = <<>>
  /\ received = <<>> /\ readErrors = 0 /\ timeouts = 0
  /\ misaligned = FALSE /\ ended = FALSE

-----------------------------------------------------------------------------
(* write_length_prefixed.  A body over the limit is refused before a byte   *)
(* is written and changes nothing.                                          *)

WriteFrame ==
  /\ open /\ Attempts < MaxFrames
  /\ \E body \in Bodies :
       /\ Len(body) <= SenderMax
       /\ sent' = Append(sent, body)
       /\ whole' = Append(whole, body)
       /\ stream' = stream \o Framed(body)
  /\ resumed' = (resumed \/ cut > 0)
  /\ UNCHANGED <<reader, writeFails, cut, open, readerVars>>

(* A write_all or the flush fails: the send returns an error, and the       *)
(* program still has the carrier.  A write leaves part of the frame, or     *)
(* nothing of it, on the stream; the flush may fail when all of it is       *)
(* there, or in a buffer that a later flush empties.                        *)
WriteFails ==
  /\ open /\ Attempts < MaxFrames /\ writeFails < MaxWriteFails
  /\ \E body \in Bodies :
       /\ Len(body) <= SenderMax
       /\ \E k \in 0 .. Len(Framed(body)) :
            /\ stream' = stream \o SubSeq(Framed(body), 1, k)
            /\ IF k = Len(Framed(body))
               THEN whole' = Append(whole, body) /\ UNCHANGED cut
               ELSE cut' = k /\ UNCHANGED whole
  /\ writeFails' = writeFails + 1
  /\ resumed' = (resumed \/ cut > 0)
  /\ UNCHANGED <<reader, sent, open, readerVars>>

CloseStream ==
  /\ open
  /\ open' = FALSE
  /\ UNCHANGED <<reader, sent, whole, writeFails, cut, resumed, stream, readerVars>>

-----------------------------------------------------------------------------
(* read_length_prefixed: two read_exact calls, for the prefix and the body. *)

StartOver == part' = "prefix" /\ need' = PrefixBytes /\ buf' = <<>>

ReadByte ==
  /\ reader = "rust" /\ ~ended
  /\ Len(buf) < need /\ stream # <<>>
  /\ buf' = Append(buf, Head(stream))
  /\ stream' = Tail(stream)
  /\ UNCHANGED <<reader, senderVars, part, need, received, readErrors, timeouts, misaligned, ended>>

\* Mutant: the limit is looked at after the body has been allocated.
PrefixReadUnchecked ==
  /\ reader = "rust" /\ part = "prefix" /\ Len(buf) = need
  /\ part' = "body" /\ need' = PrefixValue(buf) /\ buf' = <<>>
  /\ UNCHANGED <<reader, senderVars, stream, received, readErrors, timeouts, misaligned, ended>>

PrefixRead ==
  /\ reader = "rust" /\ part = "prefix" /\ Len(buf) = need
  /\ PrefixValue(buf) <= ReaderMax
  /\ part' = "body" /\ need' = PrefixValue(buf) /\ buf' = <<>>
  /\ UNCHANGED <<reader, senderVars, stream, received, readErrors, timeouts, misaligned, ended>>

(* FrameTooLarge: returned before anything is read of the body. *)
PrefixTooLarge ==
  /\ reader = "rust" /\ part = "prefix" /\ Len(buf) = need
  /\ PrefixValue(buf) > ReaderMax
  /\ StartOver
  /\ readErrors' = readErrors + 1
  /\ misaligned' = TRUE
  /\ UNCHANGED <<reader, senderVars, stream, received, timeouts, ended>>

BodyRead ==
  /\ reader = "rust" /\ part = "body" /\ Len(buf) = need
  /\ received' = Append(received, buf)
  /\ StartOver
  /\ UNCHANGED <<reader, senderVars, stream, readErrors, timeouts, misaligned, ended>>

\* Mutant: the end of the stream is clean wherever it is met.
EndOfStreamAnywhere ==
  /\ reader = "rust" /\ ~ended
  /\ ~open /\ stream = <<>> /\ Len(buf) < need
  /\ ended' = TRUE
  /\ StartOver
  /\ UNCHANGED <<reader, senderVars, stream, received, readErrors, timeouts, misaligned>>

(* UnexpectedEof: a clean end while the prefix is read, an error in a body. *)
EndOfStream ==
  /\ reader = "rust" /\ ~ended
  /\ ~open /\ stream = <<>> /\ Len(buf) < need
  /\ IF part = "prefix"
     THEN ended' = TRUE /\ UNCHANGED readErrors
     ELSE readErrors' = readErrors + 1 /\ UNCHANGED ended
  /\ StartOver
  /\ UNCHANGED <<reader, senderVars, stream, received, timeouts, misaligned>>

(* A read that times out returns an error and forgets what it has read. *)
ReadTimesOut ==
  /\ reader = "rust" /\ ~ended /\ timeouts < MaxTimeouts
  /\ Len(buf) < need
  /\ StartOver
  /\ readErrors' = readErrors + 1 /\ timeouts' = timeouts + 1
  /\ misaligned' = (misaligned \/ part = "body" \/ buf # <<>>)
  /\ UNCHANGED <<reader, senderVars, stream, received, ended>>

-----------------------------------------------------------------------------
(* LengthPrefixedDeframer: push appends a chunk to the buffer, next takes a *)
(* whole frame off it.  A next that returns null changes nothing.           *)

\* Mutant: a chunk replaces what was left of the previous one.
PushChunkReplaces ==
  /\ reader = "typescript"
  /\ \E k \in 1 .. Len(stream) :
       /\ buf' = SubSeq(stream, 1, k)
       /\ stream' = SubSeq(stream, k + 1, Len(stream))
  /\ UNCHANGED <<reader, senderVars, part, need, received, readErrors, timeouts, misaligned, ended>>

PushChunk ==
  /\ reader = "typescript"
  /\ \E k \in 1 .. Len(stream) :
       /\ buf' = buf \o SubSeq(stream, 1, k)
       /\ stream' = SubSeq(stream, k + 1, Len(stream))
  /\ UNCHANGED <<reader, senderVars, part, need, received, readErrors, timeouts, misaligned, ended>>

BufferedLength == PrefixValue(SubSeq(buf, 1, PrefixBytes))

\* Mutant: a frame that ends with the buffer waits for one more byte.
NextFrameOffByOne ==
  /\ reader = "typescript" /\ Len(buf) >= PrefixBytes
  /\ BufferedLength <= ReaderMax
  /\ Len(buf) > PrefixBytes + BufferedLength
  /\ received' = Append(received, SubSeq(buf, PrefixBytes + 1, PrefixBytes + BufferedLength))
  /\ buf' = SubSeq(buf, PrefixBytes + BufferedLength + 1, Len(buf))
  /\ UNCHANGED <<reader, senderVars, stream, part, need, readErrors, timeouts, misaligned, ended>>

\* Mutant: what follows the frame in the buffer is dropped with it.
NextFrameDropsRest ==
  /\ reader = "typescript" /\ Len(buf) >= PrefixBytes
  /\ BufferedLength <= ReaderMax
  /\ Len(buf) >= PrefixBytes + BufferedLength
  /\ received' = Append(received, SubSeq(buf, PrefixBytes + 1, PrefixBytes + BufferedLength))
  /\ buf' = <<>>
  /\ UNCHANGED <<reader, senderVars, stream, part, need, readErrors, timeouts, misaligned, ended>>

NextFrame ==
  /\ reader = "typescript" /\ Len(buf) >= PrefixBytes
  /\ BufferedLength <= ReaderMax
  /\ Len(buf) >= PrefixBytes + BufferedLength
  /\ received' = Append(received, SubSeq(buf, PrefixBytes + 1, PrefixBytes + BufferedLength))
  /\ buf' = SubSeq(buf, PrefixBytes + BufferedLength + 1, Len(buf))
  /\ UNCHANGED <<reader, senderVars, stream, part, need, readErrors, timeouts, misaligned, ended>>

(* Throws, and leaves the buffer as it is.  Only the first throw counts. *)
NextTooLarge ==
  /\ reader = "typescript" /\ Len(buf) >= PrefixBytes
  /\ BufferedLength > ReaderMax
  /\ readErrors = 0
  /\ readErrors' = 1
  /\ UNCHANGED <<reader, senderVars, stream, part, need, buf, received, timeouts, misaligned, ended>>

-----------------------------------------------------------------------------
ReadRust == ReadByte \/ PrefixRead \/ PrefixTooLarge \/ BodyRead \/ EndOfStream

StreamNext ==
  \/ WriteFrame \/ WriteFails \/ CloseStream
  \/ ReadByte \/ PrefixRead \/ PrefixTooLarge \/ BodyRead \/ EndOfStream \/ ReadTimesOut
  \/ PushChunk \/ NextFrame \/ NextTooLarge

(* The receiving program keeps asking for the next frame. *)
StreamFairness == WF_streamVars(ReadRust) /\ WF_streamVars(PushChunk) /\ WF_streamVars(NextFrame \/ NextTooLarge)

StreamSpec == StreamInit /\ [][StreamNext]_streamVars /\ StreamFairness

-----------------------------------------------------------------------------
(* The types of the variables, and that a reader never holds more than one  *)
(* frame of the size it agreed to (read_length_prefixed allocates `len`     *)
(* only after the check).                                                   *)
StreamTypeOK ==
  /\ reader \in Readers
  /\ sent \in Seq(Bodies) /\ Len(sent) + writeFails <= MaxFrames
  /\ whole \in Seq(Bodies) /\ Len(whole) <= Len(sent) + writeFails
  /\ writeFails \in 0 .. MaxWriteFails /\ cut \in Nat
  /\ resumed \in BOOLEAN /\ open \in BOOLEAN
  /\ misaligned \in BOOLEAN /\ ended \in BOOLEAN
  /\ stream \in Seq(0 .. Base - 1) /\ buf \in Seq(0 .. Base - 1)
  /\ part \in {"prefix", "body"}
  /\ need <= (IF part = "prefix" THEN PrefixBytes ELSE ReaderMax)
  /\ reader = "rust" => Len(buf) <= need
  /\ \A i \in DOMAIN received : Len(received[i]) <= ReaderMax
  /\ readErrors \in Nat /\ timeouts \in 0 .. MaxTimeouts

Status == IF writeFails > 0 \/ readErrors > 0 THEN "failed"
          ELSE IF ended THEN "ended" ELSE "sound"

Carrier == INSTANCE FrameQueue WITH
  Frames <- Bodies, sent <- sent, received <- received, status <- Status

(* Until an end reports an error, a byte stream with either reader is the   *)
(* queue of frames RpcTransport assumes: short reads, chunk boundaries,     *)
(* empty frames and bodies that look like prefixes do not show.             *)
ImplementsFrameQueue == Carrier!Spec

\* Frames `s` are among the frames `t`, in the same order.
Within(s, t) ==
  \E place \in [DOMAIN s -> DOMAIN t] :
    \A i \in DOMAIN s : t[place[i]] = s[i] /\ \A j \in 1 .. i - 1 : place[j] < place[i]

(* A clean end after failed sends (write_length_prefixed, :42-47;            *)
(* read_length_prefixed, :57), if nothing was sent after a frame that was    *)
(* left unfinished: the reader has exactly the frames that were written      *)
(* whole, each once and in order.  These are all that were reported as sent, *)
(* and those whose flush failed, which the sender takes for lost.  A frame   *)
(* left unfinished went unnoticed only if it was cut inside its prefix.      *)
CleanEndLosesNothing ==
  (ended /\ readErrors = 0 /\ ~resumed) =>
    received = whole /\ Within(sent, received) /\ cut < PrefixBytes

(* After an error a reader goes on.  The Rust one may then read the inside   *)
(* of a frame, but only if the error threw away a part of it (a time-out     *)
(* inside a frame, :58) or left its body on the stream (:61), or if a send   *)
(* came after an unfinished frame (:42); a time-out between two frames, the  *)
(* end of a cut stream and a send whose flush failed are harmless.  The      *)
(* TypeScript one never loses its place: a frame over its limit              *)
(* (carrier.ts:115) is the last thing it meets.                              *)
AlignedUnlessBytesLost ==
  (~misaligned /\ ~resumed) => IsPrefix(received, whole)

(* A program that keeps reading gets every frame that was written whole,     *)
(* those whose send failed included, unless its reader reports an error or   *)
(* something was sent after an unfinished frame.                             *)
FramesArrive == []<>(received = whole \/ readErrors > 0 \/ resumed)
=============================================================================
