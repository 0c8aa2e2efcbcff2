-------------------------- MODULE StreamFramingProofs --------------------------
(***************************************************************************)
(* Proofs about frames on a byte stream: the inductive invariant, what a   *)
(* clean end and an error leave, and that a byte stream implements         *)
(* FrameQueue until an end reports an error.  StreamSteps is StreamSpec    *)
(* without its fairness.                                                   *)
(*                                                                         *)
(* The bytes on the way are described without a recursive concatenation:   *)
(* some sequence `written` holds the frames that were written whole, one   *)
(* after the other at the places `ends` names, and what the reader has     *)
(* before it is the rest of that sequence from one of these places on.     *)
(***************************************************************************)
EXTENDS StreamFraming, SequenceTheorems, TLAPS

StreamSteps == StreamInit /\ [][StreamNext]_streamVars

Byte == 0 .. Base - 1
FrameLengths == 0 .. Base ^ PrefixBytes - 1

\* The bytes from the boundary of frames that the reader is at.
Pending ==
  IF part = "prefix" THEN buf \o stream ELSE LengthPrefix(need) \o (buf \o stream)

Holds(bytes, k, piece) ==
  k + Len(piece) <= Len(bytes) /\ \A j \in 1 .. Len(piece) : bytes[k + j] = piece[j]

\* One after the other, the frames end at these places.
Carries(bytes, ends, frames) ==
  /\ ends \in [0 .. Len(frames) -> Nat] /\ ends[0] = 0
  /\ \A i \in 1 .. Len(frames) :
       ends[i] = ends[i - 1] + Len(Framed(frames[i])) /\ Holds(bytes, ends[i - 1], Framed(frames[i]))

\* What follows the last frame is what a failed send left.
BrokenOff(bytes, k, length) ==
  /\ Len(bytes) = k + length
  /\ length > 0 => \E body \in Bodies :
       /\ Len(body) <= SenderMax /\ length < Len(Framed(body))
       /\ \A j \in 1 .. length : bytes[k + j] = Framed(body)[j]

Rest(bytes, written, k) ==
  /\ k <= Len(written) /\ Len(bytes) = Len(written) - k
  /\ \A j \in 1 .. Len(bytes) : bytes[j] = written[k + j]

\* The frames have been written, and these bytes follow the first n of them.
Follow(bytes, n, frames, length) ==
  \E written \in Seq(Byte) : \E ends \in [0 .. Len(frames) -> Nat] :
    /\ Carries(written, ends, frames) /\ BrokenOff(written, ends[Len(frames)], length)
    /\ Rest(bytes, written, ends[n])

\* The reader is at the boundary that it should be at.
Aligned == Follow(Pending, Len(received), whole, cut)

\* After the end of the stream.
Drained ==
  ~open /\ stream = <<>> /\ buf = <<>> /\ part = "prefix" /\ (ended \/ readErrors > 0)

InOrder ==
  Len(received) <= Len(whole) /\ \A i \in 1 .. Len(received) : received[i] = whole[i]

FlagsInv ==
  /\ need \in Nat
  /\ part = "prefix" => need = PrefixBytes
  /\ received \in Seq(Seq(Byte)) /\ \A i \in 1 .. Len(whole) : Len(whole[i]) <= SenderMax
  /\ misaligned => readErrors > 0
  /\ resumed => writeFails > 0
  /\ writeFails = 0 => cut = 0 /\ whole = sent
  /\ Within(sent, whole)
  /\ ended => ~open /\ part = "prefix" /\ buf = <<>>
  /\ reader = "typescript" => part = "prefix" /\ ~ended

PlacedInv == ~misaligned /\ ~resumed => InOrder /\ (Drained \/ Aligned)

StreamInv == StreamTypeOK /\ FlagsInv /\ PlacedInv /\ CleanEndLosesNothing

-----------------------------------------------------------------------------
LEMMA ConcatParts ==
  ASSUME NEW S, NEW s \in Seq(S), NEW t \in Seq(S)
  PROVE  /\ s \o t \in Seq(S) /\ Len(s \o t) = Len(s) + Len(t)
         /\ \A j \in 1 .. Len(s) : (s \o t)[j] = s[j]
         /\ \A j \in 1 .. Len(t) : (s \o t)[Len(s) + j] = t[j]
OBVIOUS

LEMMA StreamConstants ==
  /\ Base \in Nat \ {0, 1} /\ PrefixBytes \in Nat \ {0} /\ Bodies \subseteq Seq(Byte)
  /\ FrameLengths \subseteq Nat /\ SenderMax \in FrameLengths /\ ReaderMax \in FrameLengths
  /\ \A n \in FrameLengths, k \in Nat : k <= n => k \in FrameLengths
  /\ MaxFrames \in Nat /\ MaxWriteFails \in Nat /\ MaxTimeouts \in Nat
<1>1. /\ Base \in Nat \ {0, 1} /\ PrefixBytes \in Nat \ {0} /\ Bodies \subseteq Seq(Byte)
      /\ SenderMax \in FrameLengths /\ ReaderMax \in FrameLengths
      /\ MaxFrames \in Nat /\ MaxWriteFails \in Nat /\ MaxTimeouts \in Nat
  BY StreamAssumption DEF StreamAssumption, Byte, FrameLengths
<1>2. FrameLengths \subseteq Nat /\ \A n \in FrameLengths, k \in Nat : k <= n => k \in FrameLengths
  BY PrefixAssumption DEF PrefixAssumption, FrameLengths
<1>3. QED
  BY <1>1, <1>2

LEMMA PrefixOfLength ==
  ASSUME NEW n \in FrameLengths
  PROVE  LengthPrefix(n) \in Seq(Byte) /\ Len(LengthPrefix(n)) = PrefixBytes
         /\ PrefixValue(LengthPrefix(n)) = n
<1>1. LengthPrefix(n) \in [1 .. PrefixBytes -> Byte] /\ PrefixValue(LengthPrefix(n)) = n
  BY PrefixAssumption DEF PrefixAssumption, Byte, FrameLengths
<1>2. QED
  BY <1>1, StreamConstants

LEMMA LengthOfPrefix ==
  ASSUME NEW bytes \in Seq(Byte), Len(bytes) = PrefixBytes
  PROVE  PrefixValue(bytes) \in FrameLengths /\ LengthPrefix(PrefixValue(bytes)) = bytes
<1>1. bytes \in [1 .. PrefixBytes -> Byte]
  OBVIOUS
<1>2. QED
  BY <1>1, PrefixAssumption DEF PrefixAssumption, Byte, FrameLengths

LEMMA FramedBody ==
  ASSUME NEW body \in Seq(Byte), Len(body) \in FrameLengths
  PROVE  /\ Framed(body) \in Seq(Byte) /\ Len(Framed(body)) = PrefixBytes + Len(body)
         /\ \A j \in 1 .. PrefixBytes : Framed(body)[j] = LengthPrefix(Len(body))[j]
         /\ \A j \in 1 .. Len(body) : Framed(body)[PrefixBytes + j] = body[j]
<1>1. LengthPrefix(Len(body)) \in Seq(Byte) /\ Len(LengthPrefix(Len(body))) = PrefixBytes
  BY PrefixOfLength
<1>2. PrefixBytes \in Nat /\ Len(body) \in Nat
  BY StreamConstants
<1> DEFINE prefix == LengthPrefix(Len(body))
<1>3. prefix \in Seq(Byte) /\ Len(prefix) = PrefixBytes /\ Framed(body) = prefix \o body
  BY <1>1 DEF Framed
<1> HIDE DEF prefix
<1>4. /\ prefix \o body \in Seq(Byte) /\ Len(prefix \o body) = Len(prefix) + Len(body)
      /\ \A j \in 1 .. Len(prefix) : (prefix \o body)[j] = prefix[j]
      /\ \A j \in 1 .. Len(body) : (prefix \o body)[Len(prefix) + j] = body[j]
  BY <1>3, ConcatParts
<1>5. QED
  BY <1>2, <1>3, <1>4 DEF prefix

LEMMA SentFrames ==
  ASSUME NEW body \in Bodies, Len(body) <= SenderMax
  PROVE  body \in Seq(Byte) /\ Len(body) \in Nat /\ Len(body) \in FrameLengths
<1>1. body \in Seq(Byte) /\ Len(body) \in Nat
  BY StreamConstants
<1>2. QED
  BY <1>1, StreamConstants

LEMMA StreamTypes ==
  ASSUME StreamTypeOK, FlagsInv
  PROVE  /\ sent \in Seq(Bodies) /\ whole \in Seq(Bodies) /\ stream \in Seq(Byte) /\ buf \in Seq(Byte) /\ buf \o stream \in Seq(Byte)
         /\ received \in Seq(Seq(Byte)) /\ need \in FrameLengths \union {PrefixBytes} /\ cut \in Nat
         /\ Len(sent) \in Nat /\ Len(whole) \in Nat /\ Len(received) \in Nat /\ Len(stream) \in Nat /\ Len(buf) \in Nat
         /\ part = "body" => need \in FrameLengths /\ need <= ReaderMax
         /\ part \in {"prefix", "body"} /\ need \in Nat
         /\ Pending \in Seq(Byte) /\ Len(Pending) \in Nat
         /\ \A i \in 1 .. Len(whole) :
              /\ whole[i] \in Bodies /\ whole[i] \in Seq(Byte) /\ Len(whole[i]) <= SenderMax
              /\ Len(whole[i]) \in Nat /\ Len(whole[i]) \in FrameLengths
<1>1. /\ sent \in Seq(Bodies) /\ whole \in Seq(Bodies) /\ stream \in Seq(Byte) /\ buf \in Seq(Byte) /\ cut \in Nat
      /\ part \in {"prefix", "body"}
      /\ need <= (IF part = "prefix" THEN PrefixBytes ELSE ReaderMax)
  BY DEF StreamTypeOK, Byte
<1>2. received \in Seq(Seq(Byte)) /\ need \in Nat /\ (part = "prefix" => need = PrefixBytes)
      /\ \A i \in 1 .. Len(whole) : Len(whole[i]) <= SenderMax
  BY DEF FlagsInv
<1>3. (part = "body" => need \in FrameLengths /\ need <= ReaderMax) /\ need \in FrameLengths \union {PrefixBytes}
  BY <1>1, <1>2, StreamConstants
<1>4. buf \o stream \in Seq(Byte)
  BY <1>1
<1>5. Pending \in Seq(Byte)
  <2>1. CASE part = "prefix"
    BY <1>4, <2>1 DEF Pending
  <2>2. CASE part = "body"
    BY <1>3, <1>4, <2>2, PrefixOfLength DEF Pending
  <2>3. QED
    BY <1>1, <2>1, <2>2
<1>6. ASSUME NEW i \in 1 .. Len(whole)
      PROVE  /\ whole[i] \in Bodies /\ whole[i] \in Seq(Byte) /\ Len(whole[i]) <= SenderMax
             /\ Len(whole[i]) \in Nat /\ Len(whole[i]) \in FrameLengths
  <2>1. whole[i] \in Bodies /\ Len(whole[i]) <= SenderMax
    BY <1>1, <1>2
  <2>2. QED
    BY <2>1, SentFrames
<1>7. Len(sent) \in Nat /\ Len(whole) \in Nat /\ Len(received) \in Nat /\ Len(stream) \in Nat /\ Len(buf) \in Nat /\ Len(Pending) \in Nat
  BY <1>1, <1>2, <1>5
<1>8. QED
  BY <1>1, <1>2, <1>3, <1>4, <1>5, <1>6, <1>7

-----------------------------------------------------------------------------
LEMMA LongerStream ==
  ASSUME NEW written \in Seq(Byte), NEW piece \in Seq(Byte), NEW bytes \in Seq(Byte), NEW k \in Nat,
         Rest(bytes, written, k)
  PROVE  Rest(bytes \o piece, written \o piece, k)
<1>1. /\ Len(written) \in Nat /\ Len(piece) \in Nat /\ Len(bytes) = Len(written) - k /\ k <= Len(written)
      /\ \A j \in 1 .. Len(bytes) : bytes[j] = written[k + j]
  BY DEF Rest
<1>2. /\ Len(written \o piece) = Len(written) + Len(piece)
      /\ \A j \in 1 .. Len(written) : (written \o piece)[j] = written[j]
      /\ \A j \in 1 .. Len(piece) : (written \o piece)[Len(written) + j] = piece[j]
  BY ConcatParts
<1>3. /\ Len(bytes \o piece) = Len(bytes) + Len(piece)
      /\ \A j \in 1 .. Len(bytes) : (bytes \o piece)[j] = bytes[j]
      /\ \A j \in 1 .. Len(piece) : (bytes \o piece)[Len(bytes) + j] = piece[j]
  BY ConcatParts
<1>4. ASSUME NEW j \in 1 .. Len(bytes \o piece)
      PROVE  (bytes \o piece)[j] = (written \o piece)[k + j]
  <2>1. CASE j <= Len(bytes)
    <3>1. j \in 1 .. Len(bytes) /\ k + j \in 1 .. Len(written)
      BY <1>1, <2>1
    <3>2. QED
      BY <1>1, <1>2, <1>3, <3>1
  <2>2. CASE j > Len(bytes)
    <3> DEFINE i == j - Len(bytes)
    <3>1. i \in 1 .. Len(piece) /\ j = Len(bytes) + i /\ k + j = Len(written) + i
      BY <1>1, <1>3, <2>2
    <3> HIDE DEF i
    <3>2. QED
      BY <1>2, <1>3, <3>1
  <2>3. QED
    BY <1>1, <1>3, <2>1, <2>2
<1>5. QED
  BY <1>1, <1>2, <1>3, <1>4 DEF Rest

LEMMA LongerHolds ==
  ASSUME NEW written \in Seq(Byte), NEW more \in Seq(Byte), NEW piece \in Seq(Byte), NEW k \in Nat,
         Holds(written, k, piece)
  PROVE  Holds(written \o more, k, piece)
<1>1. /\ Len(written) \in Nat /\ Len(piece) \in Nat /\ Len(more) \in Nat /\ k + Len(piece) <= Len(written)
      /\ \A j \in 1 .. Len(piece) : written[k + j] = piece[j]
  BY DEF Holds
<1>2. /\ Len(written \o more) = Len(written) + Len(more)
      /\ \A j \in 1 .. Len(written) : (written \o more)[j] = written[j]
  BY ConcatParts
<1>3. \A j \in 1 .. Len(piece) : k + j \in 1 .. Len(written)
  BY <1>1
<1>4. QED
  BY <1>1, <1>2, <1>3 DEF Holds

LEMMA LongerCarries ==
  ASSUME NEW written \in Seq(Byte), NEW more \in Seq(Byte), NEW frames \in Seq(Bodies),
         \A i \in 1 .. Len(frames) : Len(frames[i]) <= SenderMax,
         NEW ends, Carries(written, ends, frames)
  PROVE  Carries(written \o more, ends, frames)
<1>1. ASSUME NEW i \in 1 .. Len(frames)
      PROVE  Holds(written \o more, ends[i - 1], Framed(frames[i]))
  <2>1. Framed(frames[i]) \in Seq(Byte)
    <3>1. frames[i] \in Bodies
      OBVIOUS
    <3>2. QED
      BY <3>1, SentFrames, FramedBody
  <2>2. i - 1 \in 0 .. Len(frames)
    OBVIOUS
  <2>3. ends[i - 1] \in Nat /\ Holds(written, ends[i - 1], Framed(frames[i]))
    BY <2>2 DEF Carries
  <2>4. QED
    BY <2>1, <2>3, LongerHolds
<1>2. QED
  BY <1>1 DEF Carries

\* A frame begins where the previous one ended, and ends where the stream does.
LEMMA NextEnds ==
  ASSUME NEW written \in Seq(Byte), NEW frames \in Seq(Bodies), NEW ends, Carries(written, ends, frames),
         NEW i \in 0 .. Len(frames)
  PROVE  ends[i] \in Nat /\ ends[i] <= Len(written)
<1>1. Len(written) \in Nat /\ Len(frames) \in Nat /\ ends[i] \in Nat /\ ends[0] = 0
  <2>1. Len(written) \in Nat /\ Len(frames) \in Nat
    OBVIOUS
  <2>2. ends \in [0 .. Len(frames) -> Nat] /\ ends[0] = 0
    BY DEF Carries
  <2>3. QED
    BY <2>1, <2>2
<1>2. CASE i # 0
  <2>1. i \in 1 .. Len(frames)
    BY <1>2
  <2>2. ends[i] = ends[i - 1] + Len(Framed(frames[i])) /\ Holds(written, ends[i - 1], Framed(frames[i]))
    BY <2>1 DEF Carries
  <2>3. QED
    BY <1>1, <2>2 DEF Holds
<1>3. QED
  BY <1>1, <1>2

\* Frames that a program may have sent.
Sendable(frames) == \A i \in 1 .. Len(frames) : Len(frames[i]) <= SenderMax

LEMMA FollowsWith ==
  ASSUME NEW bytes \in Seq(Byte), NEW frames \in Seq(Bodies), Sendable(frames),
         NEW n \in 0 .. Len(frames), NEW piece \in Seq(Byte), Follow(bytes, n, frames, 0)
  PROVE  \E written \in Seq(Byte) : \E ends \in [0 .. Len(frames) -> Nat] :
           /\ Len(written) \in Nat /\ Len(written) = ends[Len(frames)]
           /\ Carries(written \o piece, ends, frames)
           /\ Rest(bytes \o piece, written \o piece, ends[n])
<1>1. PICK written \in Seq(Byte), ends \in [0 .. Len(frames) -> Nat] :
        /\ Carries(written, ends, frames) /\ BrokenOff(written, ends[Len(frames)], 0)
        /\ Rest(bytes, written, ends[n])
  BY DEF Follow
<1>2. Len(frames) \in Nat /\ Len(written) \in Nat
  OBVIOUS
<1>3. ends[Len(frames)] \in Nat /\ ends[n] \in Nat
  <2>1. Len(frames) \in 0 .. Len(frames)
    BY <1>2
  <2>2. QED
    BY <2>1
<1>4. Len(written) = ends[Len(frames)]
  BY <1>1, <1>2, <1>3 DEF BrokenOff
<1>5. Carries(written \o piece, ends, frames)
  BY <1>1, LongerCarries DEF Sendable
<1>6. Rest(bytes \o piece, written \o piece, ends[n])
  BY <1>1, <1>3, LongerStream
<1>7. QED
  BY <1>2, <1>4, <1>5, <1>6

\* A frame that is sent follows the others.
LEMMA SendKeepsPlace ==
  ASSUME NEW bytes \in Seq(Byte), NEW frames \in Seq(Bodies), Sendable(frames),
         NEW n \in 0 .. Len(frames), Follow(bytes, n, frames, 0),
         NEW body \in Bodies, Len(body) <= SenderMax
  PROVE  Follow(bytes \o Framed(body), n, Append(frames, body), 0)
<1> DEFINE piece == Framed(body)
           m == Len(frames)
           longer == Append(frames, body)
<1>1. piece \in Seq(Byte) /\ Len(piece) \in Nat
  BY SentFrames, FramedBody
<1>2. /\ m \in Nat /\ longer \in Seq(Bodies) /\ Len(longer) = m + 1 /\ longer[m + 1] = body
      /\ \A i \in 1 .. m : longer[i] = frames[i]
  OBVIOUS
<1>3. PICK written \in Seq(Byte), ends \in [0 .. m -> Nat] :
        /\ Len(written) \in Nat /\ Len(written) = ends[m]
        /\ Carries(written \o piece, ends, frames)
        /\ Rest(bytes \o piece, written \o piece, ends[n])
  BY <1>1, FollowsWith
<1> DEFINE new == written \o piece
           newEnds == [i \in 0 .. m + 1 |-> IF i <= m THEN ends[i] ELSE Len(written) + Len(piece)]
<1> HIDE DEF piece, longer
<1>4. /\ new \in Seq(Byte) /\ Len(new) = Len(written) + Len(piece)
      /\ \A j \in 1 .. Len(piece) : new[Len(written) + j] = piece[j]
  BY <1>1, ConcatParts
<1>6. newEnds \in [0 .. m + 1 -> Nat] /\ newEnds[m + 1] = Len(new) /\ \A i \in 0 .. m : newEnds[i] = ends[i]
  BY <1>1, <1>2, <1>3, <1>4
<1>5. Carries(new, ends, frames) /\ Rest(bytes \o piece, new, newEnds[n])
  BY <1>3, <1>6
<1> HIDE DEF new, newEnds, m
<1>7. Carries(new, newEnds, longer)
  <2>1. newEnds \in [0 .. Len(longer) -> Nat] /\ newEnds[0] = 0
    <3>1. ends[0] = 0 /\ 0 \in 0 .. m
      BY <1>2, <1>5 DEF Carries
    <3>2. QED
      BY <1>2, <1>6, <3>1
  <2>2. ASSUME NEW i \in 1 .. Len(longer)
        PROVE  newEnds[i] = newEnds[i - 1] + Len(Framed(longer[i])) /\ Holds(new, newEnds[i - 1], Framed(longer[i]))
    <3>1. CASE i <= m
      <4>1. i \in 1 .. m /\ i \in 0 .. m /\ i - 1 \in 0 .. m
        BY <1>2, <3>1
      <4>2. ends[i] = ends[i - 1] + Len(Framed(frames[i])) /\ Holds(new, ends[i - 1], Framed(frames[i]))
        BY <1>5, <4>1 DEF Carries, m
      <4>3. QED
        BY <1>2, <1>6, <4>1, <4>2
    <3>2. CASE i = m + 1
      <4>1. newEnds[i - 1] = Len(written) /\ longer[i] = body
        BY <1>2, <1>3, <1>6, <3>2
      <4>2. Holds(new, Len(written), piece)
        BY <1>4 DEF Holds
      <4>3. QED
        BY <1>4, <1>6, <3>2, <4>1, <4>2 DEF piece
    <3>3. QED
      BY <1>2, <3>1, <3>2
  <2>3. QED
    BY <2>1, <2>2 DEF Carries
<1>8. BrokenOff(new, newEnds[Len(longer)], 0)
  BY <1>1, <1>2, <1>3, <1>4, <1>6 DEF BrokenOff
<1>9. newEnds \in [0 .. Len(longer) -> Nat]
  BY <1>2, <1>6
<1>10. Follow(bytes \o piece, n, longer, 0)
  BY <1>4, <1>5, <1>7, <1>8, <1>9 DEF Follow
<1>11. QED
  BY <1>10 DEF piece, longer

\* What a failed send leaves follows them too.
LEMMA FailedSendKeepsPlace ==
  ASSUME NEW bytes \in Seq(Byte), NEW frames \in Seq(Bodies), Sendable(frames),
         NEW n \in 0 .. Len(frames), Follow(bytes, n, frames, 0),
         NEW body \in Bodies, Len(body) <= SenderMax, NEW k \in 0 .. Len(Framed(body)) - 1
  PROVE  Follow(bytes \o SubSeq(Framed(body), 1, k), n, frames, k)
<1> DEFINE piece == SubSeq(Framed(body), 1, k)
           m == Len(frames)
<1>1. Framed(body) \in Seq(Byte) /\ Len(Framed(body)) \in Nat
  BY SentFrames, FramedBody
<1>2. piece \in Seq(Byte) /\ Len(piece) = k /\ \A j \in 1 .. k : piece[j] = Framed(body)[j]
  BY <1>1
<1> HIDE DEF piece
<1>3. PICK written \in Seq(Byte), ends \in [0 .. m -> Nat] :
        /\ Len(written) \in Nat /\ Len(written) = ends[m]
        /\ Carries(written \o piece, ends, frames)
        /\ Rest(bytes \o piece, written \o piece, ends[n])
  BY <1>2, FollowsWith
<1> DEFINE new == written \o piece
<1>4. /\ new \in Seq(Byte) /\ Len(new) = Len(written) + Len(piece)
      /\ \A j \in 1 .. Len(piece) : new[Len(written) + j] = piece[j]
  <2>1. piece \in Seq(Byte)
    BY <1>2
  <2>2. QED
    BY <2>1, ConcatParts
<1> HIDE DEF new
<1>5. BrokenOff(new, ends[m], k)
  <2>1. Len(new) = ends[m] + k
    BY <1>2, <1>3, <1>4
  <2>2. \A j \in 1 .. k : new[ends[m] + j] = Framed(body)[j]
    BY <1>2, <1>3, <1>4
  <2>3. k < Len(Framed(body))
    BY <1>1
  <2>4. QED
    BY <2>1, <2>2, <2>3 DEF BrokenOff
<1>6. Follow(bytes \o piece, n, frames, k)
  BY <1>3, <1>4, <1>5 DEF Follow, new
<1>7. QED
  BY <1>6 DEF piece

LEMMA SamePrefix ==
  ASSUME NEW body \in Seq(Byte), NEW other \in Seq(Byte),
         Len(body) \in FrameLengths, Len(other) \in FrameLengths,
         \A j \in 1 .. PrefixBytes : Framed(body)[j] = Framed(other)[j]
  PROVE  Len(body) = Len(other)
<1>1. \A j \in 1 .. PrefixBytes : LengthPrefix(Len(body))[j] = LengthPrefix(Len(other))[j]
  BY FramedBody
<1>2. /\ LengthPrefix(Len(body)) \in Seq(Byte) /\ Len(LengthPrefix(Len(body))) = PrefixBytes
      /\ LengthPrefix(Len(other)) \in Seq(Byte) /\ Len(LengthPrefix(Len(other))) = PrefixBytes
  BY PrefixOfLength
<1>3. LengthPrefix(Len(body)) = LengthPrefix(Len(other))
  BY <1>1, <1>2, SeqEqual
<1>4. QED
  BY <1>3, PrefixOfLength

\* A reader at the boundary that it should be at finds the next frame, and is at the
\* next boundary after it; what a failed send left does not hold a whole frame.
LEMMA TakeFrame ==
  ASSUME NEW frames \in Seq(Bodies), Sendable(frames), NEW n \in 0 .. Len(frames), NEW c \in Nat,
         NEW body \in Seq(Byte), Len(body) \in FrameLengths, NEW rest \in Seq(Byte),
         Follow(Framed(body) \o rest, n, frames, c)
  PROVE  n < Len(frames) /\ body = frames[n + 1] /\ Follow(rest, n + 1, frames, c)
<1> DEFINE total == Framed(body) \o rest
<1>1. /\ Framed(body) \in Seq(Byte) /\ Len(Framed(body)) = PrefixBytes + Len(body)
      /\ \A j \in 1 .. Len(body) : Framed(body)[PrefixBytes + j] = body[j]
      /\ PrefixBytes \in Nat \ {0} /\ Len(body) \in Nat
  BY FramedBody, StreamConstants
<1>2. /\ Len(total) = Len(Framed(body)) + Len(rest)
      /\ \A j \in 1 .. Len(Framed(body)) : total[j] = Framed(body)[j]
      /\ \A j \in 1 .. Len(rest) : total[Len(Framed(body)) + j] = rest[j]
  <2>1. Framed(body) \in Seq(Byte)
    BY <1>1
  <2>2. QED
    BY <2>1, ConcatParts
<1> HIDE DEF total
<1>3. PICK written \in Seq(Byte), ends \in [0 .. Len(frames) -> Nat] :
        /\ Carries(written, ends, frames) /\ BrokenOff(written, ends[Len(frames)], c)
        /\ Rest(total, written, ends[n])
  BY DEF Follow, total
<1>4. Len(frames) \in Nat /\ Len(written) \in Nat /\ Len(rest) \in Nat /\ ends[n] \in Nat
  BY SMTT(60)
<1>5. /\ Len(total) = Len(written) - ends[n] /\ Len(total) = PrefixBytes + Len(body) + Len(rest)
      /\ \A j \in 1 .. PrefixBytes + Len(body) : Framed(body)[j] = written[ends[n] + j]
      /\ \A j \in 1 .. Len(rest) : rest[j] = written[ends[n] + PrefixBytes + Len(body) + j]
  <2>1. Len(total) = Len(written) - ends[n] /\ Len(total) = PrefixBytes + Len(body) + Len(rest)
    BY <1>1, <1>2, <1>3, <1>4 DEF Rest
  <2>2. \A j \in 1 .. Len(total) : total[j] = written[ends[n] + j]
    BY <1>3 DEF Rest
  <2>3. \A j \in 1 .. PrefixBytes + Len(body) : j \in 1 .. Len(total)
    BY <1>1, <1>4, <2>1, SMTT(60)
  <2>4. ASSUME NEW j \in 1 .. Len(rest)
        PROVE  rest[j] = written[ends[n] + PrefixBytes + Len(body) + j]
    <3>1. PrefixBytes + Len(body) + j \in 1 .. Len(total)
      BY <1>1, <1>4, <2>1
    <3>2. rest[j] = total[PrefixBytes + Len(body) + j]
      BY <1>1, <1>2
    <3>3. ends[n] + (PrefixBytes + Len(body) + j) = ends[n] + PrefixBytes + Len(body) + j
      BY <1>1, <1>4
    <3>4. QED
      BY <2>2, <3>1, <3>2, <3>3
  <2>5. QED
    BY <1>1, <1>2, <2>1, <2>2, <2>3, <2>4
<1>6. n < Len(frames)
  <2> SUFFICES ASSUME n = Len(frames)
               PROVE  FALSE
    BY <1>4
  <2>0. /\ PrefixBytes \in Nat \ {0} /\ Len(body) \in Nat /\ Len(total) = PrefixBytes + Len(body) + Len(rest)
        /\ Len(total) = Len(written) - ends[n] /\ Len(written) = ends[n] + c
    BY <1>1, <1>3, <1>5 DEF BrokenOff
  <2>1. c = PrefixBytes + Len(body) + Len(rest) /\ c > 0
    BY <1>4, <2>0
  <2>2. PICK other \in Bodies :
          /\ Len(other) <= SenderMax /\ c < Len(Framed(other))
          /\ \A j \in 1 .. c : written[ends[n] + j] = Framed(other)[j]
    BY <1>3, <2>1 DEF BrokenOff
  <2>3. other \in Seq(Byte) /\ Len(other) \in FrameLengths /\ Len(Framed(other)) = PrefixBytes + Len(other)
    BY <2>2, SentFrames, FramedBody
  <2>4. \A j \in 1 .. PrefixBytes : j \in 1 .. c /\ j \in 1 .. PrefixBytes + Len(body)
    BY <1>1, <1>4, <2>1
  <2>5. \A j \in 1 .. PrefixBytes : Framed(body)[j] = Framed(other)[j]
    BY <1>5, <2>2, <2>4
  <2>6. Len(body) = Len(other)
    BY <2>3, <2>5, SamePrefix
  <2>7. QED
    BY <1>1, <1>4, <2>1, <2>2, <2>3, <2>6
<1> DEFINE frame == frames[n + 1]
<1>7. /\ frame \in Seq(Byte) /\ Len(frame) \in FrameLengths
      /\ Len(Framed(frame)) = PrefixBytes + Len(frame)
      /\ \A j \in 1 .. Len(frame) : Framed(frame)[PrefixBytes + j] = frame[j]
  <2>1. n + 1 \in 1 .. Len(frames)
    BY <1>4, <1>6
  <2>2. frame \in Bodies /\ Len(frame) <= SenderMax
    BY <2>1 DEF Sendable
  <2>3. frame \in Seq(Byte) /\ Len(frame) \in FrameLengths
    BY <2>2, SentFrames
  <2>4. QED
    BY <2>3, FramedBody
<1>8. /\ ends[n + 1] = ends[n] + Len(Framed(frame)) /\ ends[n] + Len(Framed(frame)) <= Len(written)
      /\ \A j \in 1 .. Len(Framed(frame)) : written[ends[n] + j] = Framed(frame)[j]
  <2>1. n + 1 \in 1 .. Len(frames) /\ (n + 1) - 1 = n
    BY <1>4, <1>6
  <2>2. ends[n + 1] = ends[n] + Len(Framed(frame)) /\ Holds(written, ends[n], Framed(frame))
    BY <1>3, <2>1 DEF Carries
  <2>3. QED
    BY <2>2 DEF Holds
<1> HIDE DEF frame
<1>9. Len(frame) = Len(body)
  <2>1. \A j \in 1 .. PrefixBytes : j \in 1 .. Len(Framed(frame)) /\ j \in 1 .. PrefixBytes + Len(body)
    BY <1>1, <1>7, StreamConstants
  <2>2. \A j \in 1 .. PrefixBytes : Framed(frame)[j] = Framed(body)[j]
    BY <1>5, <1>8, <2>1
  <2>3. QED
    BY <1>7, <2>2, SamePrefix
<1>10. body = frame
  <2>1. ASSUME NEW j \in 1 .. Len(body)
        PROVE  body[j] = frame[j]
    <3>1. PrefixBytes + j \in 1 .. PrefixBytes + Len(body)
      BY <1>1
    <3>2. Framed(body)[PrefixBytes + j] = Framed(frame)[PrefixBytes + j]
      BY <1>5, <1>7, <1>8, <1>9, <3>1
    <3>3. QED
      BY <1>1, <1>7, <1>9, <3>2
  <2>2. QED
    BY <1>7, <1>9, <2>1, SeqEqual
<1>11. Rest(rest, written, ends[n + 1])
  <2>0. /\ PrefixBytes \in Nat \ {0} /\ Len(body) \in Nat /\ Len(total) = PrefixBytes + Len(body) + Len(rest)
        /\ Len(total) = Len(written) - ends[n]
        /\ ends[n + 1] = ends[n] + (PrefixBytes + Len(body)) /\ ends[n] + (PrefixBytes + Len(body)) <= Len(written)
    BY <1>1, <1>5, <1>7, <1>8, <1>9
  <2>1. ends[n + 1] = ends[n] + PrefixBytes + Len(body)
    BY <1>4, <2>0
  <2>2. ends[n + 1] <= Len(written) /\ Len(rest) = Len(written) - ends[n + 1]
    BY <1>4, <2>0
  <2>3. QED
    BY <1>5, <2>1, <2>2 DEF Rest
<1>12. QED
  BY <1>3, <1>6, <1>10, <1>11 DEF Follow, frame

\* A reader that has no whole prefix left, and nothing more to come, has every frame.
LEMMA NothingLeft ==
  ASSUME NEW frames \in Seq(Bodies), Sendable(frames), NEW n \in 0 .. Len(frames), NEW c \in Nat,
         NEW bytes \in Seq(Byte), Len(bytes) < PrefixBytes, Follow(bytes, n, frames, c)
  PROVE  n = Len(frames) /\ c = Len(bytes)
<1>1. PICK written \in Seq(Byte), ends \in [0 .. Len(frames) -> Nat] :
        /\ Carries(written, ends, frames) /\ BrokenOff(written, ends[Len(frames)], c)
        /\ Rest(bytes, written, ends[n])
  BY DEF Follow
<1>2. /\ Len(frames) \in Nat /\ Len(written) \in Nat /\ Len(bytes) \in Nat /\ ends[n] \in Nat
      /\ PrefixBytes \in Nat
  BY StreamConstants, SMTT(60)
<1>3. Len(bytes) = Len(written) - ends[n]
  BY <1>1 DEF Rest
<1>4. n = Len(frames)
  <2> SUFFICES ASSUME n < Len(frames)
               PROVE  FALSE
    BY <1>2
  <2>1. n + 1 \in 1 .. Len(frames) /\ (n + 1) - 1 = n
    BY <1>2
  <2>2. Holds(written, ends[n], Framed(frames[n + 1]))
    BY <1>1, <2>1 DEF Carries
  <2>3. ends[n] + Len(Framed(frames[n + 1])) <= Len(written)
    BY <2>2 DEF Holds
  <2>4. frames[n + 1] \in Bodies /\ Len(frames[n + 1]) <= SenderMax
    BY <2>1 DEF Sendable
  <2>5. Len(Framed(frames[n + 1])) = PrefixBytes + Len(frames[n + 1]) /\ Len(frames[n + 1]) \in Nat
    BY <2>4, SentFrames, FramedBody
  <2>6. QED
    BY <1>2, <1>3, <2>3, <2>5
<1>5. QED
  BY <1>1, <1>2, <1>3, <1>4 DEF BrokenOff

-----------------------------------------------------------------------------
\* A frame that is written whole, whether its send is reported or not.
LEMMA WithinLonger ==
  ASSUME NEW s \in Seq(Bodies), NEW t \in Seq(Bodies), Within(s, t), NEW x \in Bodies
  PROVE  Within(s, Append(t, x)) /\ Within(Append(s, x), Append(t, x))
<1>1. PICK place \in [DOMAIN s -> DOMAIN t] :
        \A i \in DOMAIN s : t[place[i]] = s[i] /\ \A j \in 1 .. i - 1 : place[j] < place[i]
  BY DEF Within
<1>2. /\ DOMAIN s = 1 .. Len(s) /\ DOMAIN t = 1 .. Len(t) /\ Len(s) \in Nat /\ Len(t) \in Nat
      /\ DOMAIN Append(s, x) = 1 .. Len(s) + 1 /\ DOMAIN Append(t, x) = 1 .. Len(t) + 1
      /\ \A i \in 1 .. Len(s) : Append(s, x)[i] = s[i]
      /\ \A i \in 1 .. Len(t) : Append(t, x)[i] = t[i]
      /\ Append(s, x)[Len(s) + 1] = x /\ Append(t, x)[Len(t) + 1] = x
  OBVIOUS
<1>3. \A i \in 1 .. Len(s) : place[i] \in 1 .. Len(t) /\ place[i] \in Nat
  BY <1>2
<1>4. Within(s, Append(t, x))
  <2>1. place \in [DOMAIN s -> DOMAIN Append(t, x)]
    BY <1>2, <1>3
  <2>2. \A i \in DOMAIN s : Append(t, x)[place[i]] = s[i]
    BY <1>1, <1>2, <1>3
  <2>3. QED
    BY <1>1, <2>1, <2>2 DEF Within
<1>5. Within(Append(s, x), Append(t, x))
  <2> DEFINE further == [i \in 1 .. Len(s) + 1 |-> IF i <= Len(s) THEN place[i] ELSE Len(t) + 1]
  <2>1. /\ further \in [1 .. Len(s) + 1 -> 1 .. Len(t) + 1]
        /\ \A i \in 1 .. Len(s) : further[i] = place[i] /\ further[Len(s) + 1] = Len(t) + 1
    BY <1>2, <1>3
  <2>2. further[Len(s) + 1] = Len(t) + 1
    BY <1>2
  <2> HIDE DEF further
  <2>3. ASSUME NEW i \in 1 .. Len(s) + 1
        PROVE  Append(t, x)[further[i]] = Append(s, x)[i] /\ \A j \in 1 .. i - 1 : further[j] < further[i]
    <3>1. CASE i \in 1 .. Len(s)
      <4>1. i \in DOMAIN s /\ \A j \in 1 .. i - 1 : j \in 1 .. Len(s)
        BY <1>2, <3>1
      <4>2. t[place[i]] = s[i] /\ \A j \in 1 .. i - 1 : place[j] < place[i]
        BY <1>1, <4>1
      <4>3. Append(t, x)[further[i]] = Append(s, x)[i]
        BY <1>2, <1>3, <2>1, <3>1, <4>2
      <4>4. \A j \in 1 .. i - 1 : further[j] < further[i]
        BY <2>1, <3>1, <4>1, <4>2
      <4>5. QED
        BY <4>3, <4>4
    <3>2. CASE i = Len(s) + 1
      <4>1. \A j \in 1 .. i - 1 : j \in 1 .. Len(s)
        BY <1>2, <3>2
      <4>2. \A j \in 1 .. i - 1 : further[j] \in 1 .. Len(t)
        BY <1>3, <2>1, <4>1
      <4>3. further[i] = Len(t) + 1 /\ Append(t, x)[further[i]] = Append(s, x)[i]
        BY <1>2, <2>2, <3>2
      <4>4. Len(t) \in Nat
        BY <1>2
      <4>5. \A j \in 1 .. i - 1 : further[j] < Len(t) + 1
        BY <4>2, <4>4
      <4>6. QED
        BY <4>3, <4>5
    <3>3. i \in 1 .. Len(s) \/ i = Len(s) + 1
      BY <1>2
    <3>4. QED
      BY <3>1, <3>2, <3>3, Zenon
  <2>4. QED
    BY <1>2, <2>1, <2>3 DEF Within
<1>6. QED
  BY <1>4, <1>5

LEMMA StreamInvInit == StreamInit => StreamInv
<1> SUFFICES ASSUME StreamInit
             PROVE  StreamInv
  OBVIOUS
<1> USE StreamConstants DEF StreamInit
<1>1. StreamTypeOK
  <2>1. /\ sent \in Seq(Bodies) /\ Len(sent) + writeFails <= MaxFrames
        /\ whole \in Seq(Bodies) /\ Len(whole) <= Len(sent) + writeFails
    OBVIOUS
  <2>2. stream \in Seq(0 .. Base - 1) /\ buf \in Seq(0 .. Base - 1) /\ Len(buf) <= need
    OBVIOUS
  <2>3. need <= (IF part = "prefix" THEN PrefixBytes ELSE ReaderMax)
    OBVIOUS
  <2>4. \A i \in DOMAIN received : Len(received[i]) <= ReaderMax
    OBVIOUS
  <2>5. /\ reader \in Readers /\ writeFails \in 0 .. MaxWriteFails /\ cut \in Nat
        /\ readErrors \in Nat /\ timeouts \in 0 .. MaxTimeouts
    OBVIOUS
  <2>6. /\ resumed \in BOOLEAN /\ open \in BOOLEAN /\ misaligned \in BOOLEAN /\ ended \in BOOLEAN
        /\ part \in {"prefix", "body"}
    OBVIOUS
  <2> HIDE DEF StreamInit
  <2>7. QED
    BY <2>1, <2>2, <2>3, <2>4, <2>5, <2>6 DEF StreamTypeOK
<1>2. FlagsInv
  <2>1. Within(sent, whole)
    <3> DEFINE place == [i \in DOMAIN sent |-> i]
    <3>1. DOMAIN sent = {} /\ place \in [DOMAIN sent -> DOMAIN whole]
      OBVIOUS
    <3>2. QED
      BY <3>1 DEF Within
  <2>2. QED
    BY <2>1 DEF FlagsInv
<1>3. CleanEndLosesNothing
  BY DEF CleanEndLosesNothing
<1>4. Aligned
  <2> DEFINE ends == [i \in 0 .. 0 |-> 0]
  <2>1. Pending = <<>> /\ <<>> \in Seq(Byte) /\ Len(whole) = 0 /\ Len(received) = 0
    BY DEF Pending
  <2>2. ends \in [0 .. Len(whole) -> Nat] /\ ends[0] = 0 /\ ends[Len(whole)] = 0 /\ ends[Len(received)] = 0
    BY <2>1
  <2> HIDE DEF ends
  <2>3. Carries(<<>>, ends, whole)
    BY <2>1, <2>2 DEF Carries
  <2>4. BrokenOff(<<>>, 0, cut) /\ Rest(<<>>, <<>>, 0)
    BY DEF BrokenOff, Rest
  <2>5. QED
    BY <2>1, <2>2, <2>3, <2>4 DEF Aligned, Follow
<1>5. InOrder
  BY DEF InOrder
<1>6. QED
  BY <1>1, <1>2, <1>3, <1>4, <1>5 DEF StreamInv, PlacedInv

\* What the sender adds to the stream is added to what the reader has before it.
LEMMA Written ==
  ASSUME StreamTypeOK, FlagsInv, NEW piece \in Seq(Byte), stream' = stream \o piece,
         part' = part, need' = need, buf' = buf
  PROVE  Pending' = Pending \o piece /\ stream' \in Seq(Byte)
<1>1. /\ stream \in Seq(Byte) /\ buf \in Seq(Byte) /\ stream' \in Seq(Byte)
      /\ part \in {"prefix", "body"} /\ (part = "body" => need \in FrameLengths)
  BY StreamTypes
<1>2. buf \o (stream \o piece) = (buf \o stream) \o piece /\ buf \o stream \in Seq(Byte)
  BY <1>1, ConcatAssociative, SMTT(60)
<1>3. CASE part = "prefix"
  BY <1>1, <1>2, <1>3 DEF Pending
<1>4. CASE part = "body"
  <2>1. LengthPrefix(need) \in Seq(Byte)
    BY <1>1, <1>4, PrefixOfLength
  <2> DEFINE here == buf \o stream
  <2> HIDE DEF here
  <2>2. LengthPrefix(need) \o (here \o piece) = (LengthPrefix(need) \o here) \o piece
    <3>1. here \in Seq(Byte)
      BY <1>2 DEF here
    <3>2. QED
      BY <2>1, <3>1, ConcatAssociative, SMTT(60)
  <2>3. QED
    BY <1>1, <1>2, <1>4, <2>2 DEF Pending, here
<1>5. QED
  BY <1>1, <1>3, <1>4

LEMMA WriteFrameStep ==
  ASSUME StreamInv, WriteFrame
  PROVE  StreamInv'
<1> USE DEF StreamInv
<1>1. PICK body \in Bodies :
        /\ Len(body) <= SenderMax /\ sent' = Append(sent, body) /\ whole' = Append(whole, body)
        /\ stream' = stream \o Framed(body)
  BY DEF WriteFrame
<1>2. /\ reader' = reader /\ writeFails' = writeFails /\ cut' = cut /\ open' = open
      /\ part' = part /\ need' = need /\ buf' = buf /\ received' = received /\ readErrors' = readErrors
      /\ timeouts' = timeouts /\ misaligned' = misaligned /\ ended' = ended
      /\ open /\ resumed' = (resumed \/ cut > 0) /\ Len(sent) + writeFails < MaxFrames
  BY DEF WriteFrame, readerVars, Attempts
<1>3. Framed(body) \in Seq(Byte)
  BY <1>1, SentFrames, FramedBody
<1>4. /\ sent \in Seq(Bodies) /\ Len(sent) \in Nat /\ whole \in Seq(Bodies) /\ Len(whole) \in Nat
      /\ received \in Seq(Seq(Byte)) /\ Len(received) \in Nat
      /\ Pending \in Seq(Byte) /\ writeFails \in Nat
  BY StreamTypes, StreamConstants DEF StreamTypeOK
<1>5. Pending' = Pending \o Framed(body) /\ stream' \in Seq(Byte)
  BY <1>1, <1>2, <1>3, Written
<1>6. /\ sent' \in Seq(Bodies) /\ Len(sent') = Len(sent) + 1
      /\ whole' \in Seq(Bodies) /\ Len(whole') = Len(whole) + 1 /\ whole'[Len(whole) + 1] = body
      /\ \A i \in 1 .. Len(whole) : whole'[i] = whole[i]
  BY <1>1, <1>4
<1>7. StreamTypeOK'
  <2>1. Len(sent') + writeFails' <= MaxFrames /\ Len(whole') <= Len(sent') + writeFails'
    <3>1. /\ Len(sent') = Len(sent) + 1 /\ Len(whole') = Len(whole) + 1 /\ writeFails' = writeFails
          /\ Len(sent) + writeFails < MaxFrames /\ MaxFrames \in Nat
      BY <1>2, <1>6, StreamConstants
    <3>2. Len(sent) \in Nat /\ Len(whole) \in Nat /\ writeFails \in Nat /\ Len(whole) <= Len(sent) + writeFails
      BY <1>4 DEF StreamTypeOK
    <3> HIDE DEF StreamInv
    <3>3. QED
      BY <3>1, <3>2
  <2>2. resumed' \in BOOLEAN /\ stream' \in Seq(0 .. Base - 1)
    BY <1>2, <1>5 DEF Byte
  <2>3. /\ reader' \in Readers /\ writeFails' \in 0 .. MaxWriteFails /\ cut' \in Nat
        /\ open' \in BOOLEAN /\ misaligned' \in BOOLEAN /\ ended' \in BOOLEAN
        /\ buf' \in Seq(0 .. Base - 1) /\ part' \in {"prefix", "body"}
    BY <1>2, Zenon DEF StreamTypeOK
  <2>4. /\ need' <= (IF part' = "prefix" THEN PrefixBytes ELSE ReaderMax)
        /\ reader' = "rust" => Len(buf') <= need'
        /\ \A i \in DOMAIN received' : Len(received'[i]) <= ReaderMax
        /\ readErrors' \in Nat /\ timeouts' \in 0 .. MaxTimeouts
    BY <1>2 DEF StreamTypeOK
  <2>5. QED
    BY <1>6, <2>1, <2>2, <2>3, <2>4, Zenon DEF StreamTypeOK
<1>8. FlagsInv'
  <2>1. \A i \in 1 .. Len(whole') : Len(whole'[i]) <= SenderMax
    BY <1>1, <1>4, <1>6 DEF FlagsInv
  <2>2. Within(sent', whole')
    BY <1>1, <1>4, WithinLonger DEF FlagsInv
  <2>3. writeFails' = 0 => whole' = sent'
    BY <1>1, <1>2 DEF FlagsInv
  <2>4. resumed' => writeFails' > 0
    <3>1. cut > 0 => writeFails > 0
      BY <1>4 DEF FlagsInv
    <3>2. resumed => writeFails > 0
      BY DEF FlagsInv
    <3>3. QED
      BY <1>2, <3>1, <3>2
  <2>5. QED
    BY <1>2, <1>4, <2>1, <2>2, <2>3, <2>4 DEF FlagsInv
<1>9. PlacedInv'
  <2> SUFFICES ASSUME ~misaligned, ~resumed, cut = 0
               PROVE  InOrder' /\ Aligned'
    <3>1. ~resumed' => ~resumed /\ ~(cut > 0)
      BY <1>2, Zenon
    <3>2. ~(cut > 0) => cut = 0
      BY DEF StreamTypeOK
    <3>3. QED
      BY <1>2, <3>1, <3>2 DEF PlacedInv
  <2>1. InOrder /\ Aligned
    BY <1>2 DEF PlacedInv, Drained
  <2>2. Sendable(whole) /\ Len(received) \in 0 .. Len(whole)
    BY <1>4, <2>1 DEF FlagsInv, Sendable, InOrder
  <2>3. Follow(Pending \o Framed(body), Len(received), whole', 0)
    BY <1>1, <1>4, <2>1, <2>2, SendKeepsPlace DEF Aligned
  <2>4. Aligned'
    BY <1>2, <1>5, <2>1, <2>3 DEF Aligned
  <2>5. InOrder'
    BY <1>2, <1>4, <1>6, <2>1 DEF InOrder
  <2>6. QED
    BY <2>4, <2>5
<1>10. CleanEndLosesNothing'
  BY <1>2 DEF CleanEndLosesNothing, FlagsInv
<1>11. QED
  BY <1>7, <1>8, <1>9, <1>10

LEMMA WriteFailsStep ==
  ASSUME StreamInv, WriteFails
  PROVE  StreamInv'
<1> USE DEF StreamInv
<1>1. PICK body \in Bodies : \E k \in 0 .. Len(Framed(body)) :
        /\ Len(body) <= SenderMax /\ stream' = stream \o SubSeq(Framed(body), 1, k)
        /\ IF k = Len(Framed(body)) THEN whole' = Append(whole, body) /\ cut' = cut
           ELSE cut' = k /\ whole' = whole
  BY DEF WriteFails
<1>2. PICK k \in 0 .. Len(Framed(body)) :
        /\ Len(body) <= SenderMax /\ stream' = stream \o SubSeq(Framed(body), 1, k)
        /\ IF k = Len(Framed(body)) THEN whole' = Append(whole, body) /\ cut' = cut
           ELSE cut' = k /\ whole' = whole
  BY <1>1
<1>3. /\ reader' = reader /\ writeFails' = writeFails + 1 /\ sent' = sent /\ open' = open
      /\ part' = part /\ need' = need /\ buf' = buf /\ received' = received /\ readErrors' = readErrors
      /\ timeouts' = timeouts /\ misaligned' = misaligned /\ ended' = ended
      /\ open /\ resumed' = (resumed \/ cut > 0) /\ Len(sent) + writeFails < MaxFrames
      /\ writeFails < MaxWriteFails
  BY DEF WriteFails, readerVars, Attempts
<1>4. /\ sent \in Seq(Bodies) /\ Len(sent) \in Nat /\ whole \in Seq(Bodies) /\ Len(whole) \in Nat
      /\ received \in Seq(Seq(Byte)) /\ Len(received) \in Nat
      /\ Pending \in Seq(Byte) /\ writeFails \in Nat /\ cut \in Nat
  BY StreamTypes, StreamConstants DEF StreamTypeOK
<1>5. /\ Framed(body) \in Seq(Byte) /\ Len(Framed(body)) \in Nat
      /\ SubSeq(Framed(body), 1, k) \in Seq(Byte) /\ k \in Nat
  <2>1. Framed(body) \in Seq(Byte) /\ Len(Framed(body)) \in Nat
    BY <1>2, SentFrames, FramedBody
  <2>2. QED
    BY <2>1
<1>6. Pending' = Pending \o SubSeq(Framed(body), 1, k) /\ stream' \in Seq(Byte)
  BY <1>2, <1>3, <1>5, Written
<1> DEFINE appended == whole' = Append(whole, body) /\ cut' = cut
           left == whole' = whole /\ cut' = k
<1>7. appended \/ left
  BY <1>2
<1>8. ASSUME appended
      PROVE  /\ whole' \in Seq(Bodies) /\ Len(whole') = Len(whole) + 1 /\ cut' \in Nat
             /\ whole'[Len(whole) + 1] = body /\ \A i \in 1 .. Len(whole) : whole'[i] = whole[i]
  BY <1>4, <1>8
<1>9. whole' \in Seq(Bodies) /\ Len(whole') <= Len(whole) + 1 /\ cut' \in Nat
  <2>1. CASE appended
    BY <1>4, <1>8, <2>1
  <2>2. CASE left
    BY <1>4, <1>5, <2>2
  <2>3. QED
    BY <1>7, <2>1, <2>2
<1>10. StreamTypeOK'
  BY <1>3, <1>4, <1>6, <1>9, StreamConstants, SMTT(60) DEF StreamTypeOK, Byte
<1>11. FlagsInv'
  <2>1. \A i \in 1 .. Len(whole') : Len(whole'[i]) <= SenderMax
    <3>1. CASE appended
      BY <1>2, <1>4, <1>8, <3>1 DEF FlagsInv
    <3>2. CASE left
      BY <3>2 DEF FlagsInv
    <3>3. QED
      BY <1>7, <3>1, <3>2
  <2>2. Within(sent', whole')
    <3>1. CASE appended
      BY <1>3, <1>4, <3>1, WithinLonger DEF FlagsInv
    <3>2. CASE left
      BY <1>3, <3>2 DEF FlagsInv
    <3>3. QED
      BY <1>7, <3>1, <3>2
  <2>3. writeFails' > 0 /\ writeFails' # 0
    BY <1>3, <1>4
  <2>4. QED
    BY <1>3, <2>1, <2>2, <2>3 DEF FlagsInv
<1>12. PlacedInv'
  <2> SUFFICES ASSUME ~misaligned, ~resumed, cut = 0
               PROVE  InOrder' /\ Aligned'
    <3>1. ~resumed' => ~resumed /\ ~(cut > 0)
      BY <1>3, Zenon
    <3>2. ~(cut > 0) => cut = 0
      BY <1>4
    <3>3. QED
      BY <1>3, <3>1, <3>2 DEF PlacedInv
  <2>1. InOrder /\ Aligned
    BY <1>3 DEF PlacedInv, Drained
  <2>2. Sendable(whole) /\ Len(received) \in 0 .. Len(whole)
    BY <1>4, <2>1 DEF FlagsInv, Sendable, InOrder
  <2>3. CASE k = Len(Framed(body))
    <3>1. appended /\ SubSeq(Framed(body), 1, k) = Framed(body)
      BY <1>2, <1>5, <2>3, SubSeqFull
    <3>2. Follow(Pending \o Framed(body), Len(received), whole', 0)
      BY <1>2, <1>4, <2>1, <2>2, <3>1, SendKeepsPlace DEF Aligned
    <3>3. Aligned'
      BY <1>3, <1>6, <3>1, <3>2 DEF Aligned
    <3>4. InOrder'
      BY <1>3, <1>4, <1>8, <2>1, <3>1 DEF InOrder
    <3>5. QED
      BY <3>3, <3>4
  <2>4. CASE k # Len(Framed(body))
    <3>1. left /\ k \in 0 .. Len(Framed(body)) - 1
      BY <1>2, <1>5, <2>4
    <3>2. Follow(Pending \o SubSeq(Framed(body), 1, k), Len(received), whole, k)
      BY <1>2, <1>4, <2>1, <2>2, <3>1, FailedSendKeepsPlace DEF Aligned
    <3>3. Aligned'
      BY <1>3, <1>6, <3>1, <3>2 DEF Aligned
    <3>4. QED
      BY <1>3, <2>1, <3>1, <3>3 DEF InOrder
  <2>5. QED
    BY <2>3, <2>4
<1>13. CleanEndLosesNothing'
  BY <1>3 DEF CleanEndLosesNothing, FlagsInv
<1>14. QED
  BY <1>10, <1>11, <1>12, <1>13

LEMMA CloseStreamStep ==
  ASSUME StreamInv, CloseStream
  PROVE  StreamInv'
<1> USE DEF StreamInv
<1>1. /\ open /\ open' = FALSE /\ reader' = reader /\ sent' = sent /\ whole' = whole /\ writeFails' = writeFails /\ cut' = cut
      /\ resumed' = resumed /\ stream' = stream /\ part' = part /\ need' = need /\ buf' = buf
      /\ received' = received /\ readErrors' = readErrors /\ timeouts' = timeouts
      /\ misaligned' = misaligned /\ ended' = ended
  BY DEF CloseStream, readerVars
<1>2. StreamTypeOK'
  BY <1>1 DEF StreamTypeOK
<1>3. FlagsInv' /\ CleanEndLosesNothing'
  BY <1>1 DEF FlagsInv, CleanEndLosesNothing
<1>4. PlacedInv'
  <2>1. Pending' = Pending
    BY <1>1 DEF Pending
  <2>2. QED
    BY <1>1, <2>1 DEF PlacedInv, Drained, InOrder, Aligned
<1>5. QED
  BY <1>2, <1>3, <1>4

-----------------------------------------------------------------------------
\* Reading does not move the reader's place.
LEMMA PlaceKept ==
  ASSUME PlacedInv, ~Drained, Pending' = Pending,
         whole' = whole, cut' = cut, received' = received,
         ~misaligned' /\ ~resumed' => ~misaligned /\ ~resumed
  PROVE  PlacedInv'
BY DEF PlacedInv, InOrder, Aligned

LEMMA MoveByte ==
  ASSUME NEW S, NEW s \in Seq(S), NEW t \in Seq(S), t # <<>>
  PROVE  /\ Append(s, Head(t)) \in Seq(S) /\ Tail(t) \in Seq(S)
         /\ Append(s, Head(t)) \o Tail(t) = s \o t
<1>1. Head(t) \in S /\ Tail(t) \in Seq(S) /\ Append(s, Head(t)) = s \o <<Head(t)>> /\ <<Head(t)>> \in Seq(S)
  BY AppendIsConcat
<1>2. (s \o <<Head(t)>>) \o Tail(t) = s \o (<<Head(t)>> \o Tail(t))
  BY <1>1, ConcatAssociative
<1>3. <<Head(t)>> \o Tail(t) = t
  OBVIOUS
<1>4. QED
  BY <1>1, <1>2, <1>3

LEMMA ReadByteStep ==
  ASSUME StreamInv, ReadByte
  PROVE  StreamInv'
<1> USE DEF StreamInv
<1>1. /\ reader = "rust" /\ ~ended /\ Len(buf) < need /\ stream # <<>>
      /\ buf' = Append(buf, Head(stream)) /\ stream' = Tail(stream)
      /\ reader' = reader /\ sent' = sent /\ whole' = whole /\ writeFails' = writeFails /\ cut' = cut
      /\ resumed' = resumed /\ open' = open /\ part' = part /\ need' = need
      /\ received' = received /\ readErrors' = readErrors /\ timeouts' = timeouts
      /\ misaligned' = misaligned /\ ended' = ended
  BY DEF ReadByte, senderVars
<1>2. /\ buf \in Seq(Byte) /\ stream \in Seq(Byte) /\ need \in Nat /\ Len(buf) \in Nat
  BY StreamTypes
<1>3. /\ buf' \in Seq(Byte) /\ stream' \in Seq(Byte) /\ buf' \o stream' = buf \o stream
  <2>1. stream # <<>>
    BY <1>1
  <2>2. /\ Append(buf, Head(stream)) \in Seq(Byte) /\ Tail(stream) \in Seq(Byte)
        /\ Append(buf, Head(stream)) \o Tail(stream) = buf \o stream
    BY <1>2, <2>1, MoveByte
  <2>3. QED
    BY <1>1, <2>2
<1>4. Len(buf') = Len(buf) + 1
  BY <1>1, <1>2
<1>5. StreamTypeOK'
  BY <1>1, <1>2, <1>3, <1>4 DEF StreamTypeOK, Byte
<1>6. FlagsInv' /\ CleanEndLosesNothing'
  BY <1>1 DEF FlagsInv, CleanEndLosesNothing
<1>7. PlacedInv'
  <2>1. Pending' = Pending
    BY <1>1, <1>3 DEF Pending
  <2>2. ~Drained
    BY <1>1 DEF Drained
  <2>3. QED
    BY <1>1, <2>1, <2>2, PlaceKept
<1>8. QED
  BY <1>5, <1>6, <1>7

LEMMA PrefixReadStep ==
  ASSUME StreamInv, PrefixRead
  PROVE  StreamInv'
<1> USE DEF StreamInv
<1>1. /\ reader = "rust" /\ part = "prefix" /\ Len(buf) = need /\ PrefixValue(buf) <= ReaderMax
      /\ part' = "body" /\ need' = PrefixValue(buf) /\ buf' = <<>> /\ stream' = stream
      /\ reader' = reader /\ sent' = sent /\ whole' = whole /\ writeFails' = writeFails /\ cut' = cut
      /\ resumed' = resumed /\ open' = open
      /\ received' = received /\ readErrors' = readErrors /\ timeouts' = timeouts
      /\ misaligned' = misaligned /\ ended' = ended
  BY DEF PrefixRead, senderVars
<1>2. /\ buf \in Seq(Byte) /\ stream \in Seq(Byte) /\ need = PrefixBytes /\ PrefixBytes \in Nat \ {0}
  BY <1>1, StreamTypes, StreamConstants DEF FlagsInv
<1>3. PrefixValue(buf) \in FrameLengths /\ LengthPrefix(PrefixValue(buf)) = buf
  BY <1>1, <1>2, LengthOfPrefix
<1>4. need' \in Nat /\ Len(buf') = 0 /\ buf' \in Seq(Byte) /\ buf # <<>>
  <2>1. need' \in Nat
    BY <1>1, <1>3, StreamConstants
  <2>2. Len(buf') = 0 /\ buf' \in Seq(Byte)
    BY <1>1
  <2>3. buf # <<>>
    BY <1>1, <1>2
  <2>4. QED
    BY <2>1, <2>2, <2>3
<1>5. StreamTypeOK'
  BY <1>1, <1>2, <1>4 DEF StreamTypeOK, Byte
<1>6. FlagsInv' /\ CleanEndLosesNothing'
  BY <1>1, <1>4 DEF FlagsInv, CleanEndLosesNothing
<1>7. PlacedInv'
  <2>1. Pending' = Pending
    <3>1. <<>> \o stream = stream
      BY <1>2, ConcatEmptySeq
    <3>2. QED
      BY <1>1, <1>3, <3>1 DEF Pending
  <2>2. ~Drained
    BY <1>4 DEF Drained
  <2>3. QED
    BY <1>1, <2>1, <2>2, PlaceKept
<1>8. QED
  BY <1>5, <1>6, <1>7

LEMMA PrefixTooLargeStep ==
  ASSUME StreamInv, PrefixTooLarge
  PROVE  StreamInv'
<1> USE DEF StreamInv
<1>1. /\ part' = "prefix" /\ need' = PrefixBytes /\ buf' = <<>> /\ stream' = stream
      /\ reader' = reader /\ sent' = sent /\ whole' = whole /\ writeFails' = writeFails /\ cut' = cut
      /\ resumed' = resumed /\ open' = open
      /\ received' = received /\ readErrors' = readErrors + 1 /\ timeouts' = timeouts
      /\ misaligned' = TRUE /\ ended' = ended
  BY DEF PrefixTooLarge, senderVars, StartOver
<1>2. PrefixBytes \in Nat \ {0} /\ readErrors \in Nat /\ Len(buf') = 0 /\ buf' \in Seq(Byte)
  BY <1>1, StreamConstants DEF StreamTypeOK
<1>3. StreamTypeOK'
  BY <1>1, <1>2 DEF StreamTypeOK, Byte
<1>4. FlagsInv' /\ CleanEndLosesNothing' /\ PlacedInv'
  BY <1>1, <1>2 DEF FlagsInv, CleanEndLosesNothing, PlacedInv
<1>5. QED
  BY <1>3, <1>4

\* Where the reader is at its place, the frame it hands on is the next one that was written.
LEMMA HandOn ==
  ASSUME StreamTypeOK, FlagsInv, PlacedInv, ~Drained, ~misaligned, ~resumed,
         NEW body \in Seq(Byte), Len(body) \in FrameLengths, NEW rest \in Seq(Byte),
         Pending = Framed(body) \o rest
  PROVE  /\ InOrder /\ Len(received) < Len(whole) /\ body = whole[Len(received) + 1]
         /\ Follow(rest, Len(received) + 1, whole, cut)
<1>1. InOrder /\ Follow(Framed(body) \o rest, Len(received), whole, cut)
  BY DEF PlacedInv, Aligned
<1>2. /\ whole \in Seq(Bodies) /\ Sendable(whole) /\ Len(received) \in 0 .. Len(whole) /\ cut \in Nat
  BY <1>1, StreamTypes DEF Sendable, InOrder
<1>3. QED
  BY <1>1, <1>2, TakeFrame

LEMMA HandOnKeepsPlace ==
  ASSUME StreamTypeOK, FlagsInv, PlacedInv, ~Drained,
         NEW body \in Seq(Byte), Len(body) \in FrameLengths, NEW rest \in Seq(Byte),
         Pending = Framed(body) \o rest, Pending' = rest, received' = Append(received, body),
         whole' = whole, cut' = cut, misaligned' = misaligned, resumed' = resumed
  PROVE  PlacedInv'
<1> SUFFICES ASSUME ~misaligned, ~resumed
             PROVE  InOrder' /\ Aligned'
  BY DEF PlacedInv
<1>1. /\ InOrder /\ Len(received) < Len(whole) /\ body = whole[Len(received) + 1]
      /\ Follow(rest, Len(received) + 1, whole, cut)
  BY HandOn
<1>2. /\ received \in Seq(Seq(Byte)) /\ Len(received) \in Nat /\ Len(whole) \in Nat
  BY StreamTypes
<1>3. /\ Len(received') = Len(received) + 1 /\ received'[Len(received) + 1] = body
      /\ \A i \in 1 .. Len(received) : received'[i] = received[i]
  BY <1>2
<1>4. InOrder'
  BY <1>1, <1>2, <1>3 DEF InOrder
<1>5. Aligned'
  BY <1>1, <1>3 DEF Aligned
<1>6. QED
  BY <1>4, <1>5

LEMMA BodyReadPending ==
  ASSUME StreamInv, BodyRead
  PROVE  /\ buf \in Seq(Byte) /\ stream \in Seq(Byte) /\ Len(buf) \in FrameLengths /\ Len(buf) <= ReaderMax
         /\ Pending = Framed(buf) \o stream /\ Pending' = stream /\ ~Drained
<1>1. /\ part = "body" /\ Len(buf) = need /\ part' = "prefix" /\ buf' = <<>> /\ stream' = stream
  BY DEF BodyRead, StartOver
<1>2. /\ buf \in Seq(Byte) /\ stream \in Seq(Byte) /\ need \in FrameLengths /\ need <= ReaderMax
  BY <1>1, StreamTypes DEF StreamInv
<1>3. LengthPrefix(need) \in Seq(Byte)
  BY <1>2, PrefixOfLength
<1>4. (LengthPrefix(need) \o buf) \o stream = LengthPrefix(need) \o (buf \o stream)
  BY <1>2, <1>3, ConcatAssociative, SMTT(60)
<1>5. <<>> \o stream = stream
  BY <1>2, ConcatEmptySeq
<1>6. QED
  BY <1>1, <1>2, <1>4, <1>5 DEF Pending, Framed, Drained

LEMMA BodyReadStep ==
  ASSUME StreamInv, BodyRead
  PROVE  StreamInv'
<1> USE DEF StreamInv
<1>1. /\ reader = "rust" /\ part = "body"
      /\ part' = "prefix" /\ need' = PrefixBytes /\ buf' = <<>> /\ stream' = stream
      /\ received' = Append(received, buf)
      /\ reader' = reader /\ sent' = sent /\ whole' = whole /\ writeFails' = writeFails /\ cut' = cut
      /\ resumed' = resumed /\ open' = open
      /\ readErrors' = readErrors /\ timeouts' = timeouts
      /\ misaligned' = misaligned /\ ended' = ended
  BY DEF BodyRead, senderVars, StartOver
<1>2. /\ buf \in Seq(Byte) /\ stream \in Seq(Byte) /\ Len(buf) \in FrameLengths /\ Len(buf) <= ReaderMax
      /\ Pending = Framed(buf) \o stream /\ Pending' = stream /\ ~Drained
  BY BodyReadPending
<1>3. /\ PrefixBytes \in Nat \ {0} /\ Len(buf') = 0 /\ buf' \in Seq(Byte)
      /\ received \in Seq(Seq(Byte)) /\ received' \in Seq(Seq(Byte))
      /\ \A i \in DOMAIN received' : received'[i] = buf \/ (i \in DOMAIN received /\ received'[i] = received[i])
  <2>1. received \in Seq(Seq(Byte))
    BY StreamTypes
  <2>2. QED
    BY <1>1, <1>2, <2>1, StreamConstants
<1>4. StreamTypeOK'
  BY <1>1, <1>2, <1>3, SMTT(60) DEF StreamTypeOK, Byte
<1>5. FlagsInv' /\ CleanEndLosesNothing'
  BY <1>1, <1>3 DEF FlagsInv, CleanEndLosesNothing
<1>6. PlacedInv'
  BY <1>1, <1>2, HandOnKeepsPlace
<1>7. QED
  BY <1>4, <1>5, <1>6

LEMMA EndOfStreamStep ==
  ASSUME StreamInv, EndOfStream
  PROVE  StreamInv'
<1> USE DEF StreamInv
<1>1. /\ reader = "rust" /\ ~ended /\ ~open /\ stream = <<>> /\ Len(buf) < need
      /\ IF part = "prefix" THEN ended' = TRUE /\ readErrors' = readErrors
         ELSE readErrors' = readErrors + 1 /\ ended' = ended
      /\ part' = "prefix" /\ need' = PrefixBytes /\ buf' = <<>> /\ stream' = stream
      /\ reader' = reader /\ sent' = sent /\ whole' = whole /\ writeFails' = writeFails /\ cut' = cut
      /\ resumed' = resumed /\ open' = open
      /\ received' = received /\ timeouts' = timeouts /\ misaligned' = misaligned
  BY DEF EndOfStream, senderVars, StartOver
<1>2. /\ PrefixBytes \in Nat \ {0} /\ readErrors \in Nat /\ Len(buf') = 0 /\ buf' \in Seq(Byte)
      /\ ended' \in BOOLEAN /\ readErrors' \in Nat
  <2>1. PrefixBytes \in Nat \ {0} /\ readErrors \in Nat /\ ended \in BOOLEAN
    BY StreamConstants DEF StreamTypeOK
  <2>2. ended' \in BOOLEAN /\ readErrors' \in Nat
    <3>1. CASE part = "prefix"
      <4>1. ended' = TRUE /\ readErrors' = readErrors
        BY <1>1, <3>1
      <4>2. QED
        BY <2>1, <4>1
    <3>2. CASE part # "prefix"
      <4>1. ended' = ended /\ readErrors' = readErrors + 1
        BY <1>1, <3>2
      <4>2. QED
        BY <2>1, <4>1
    <3>3. QED
      BY <3>1, <3>2
  <2>3. Len(buf') = 0 /\ buf' \in Seq(Byte)
    BY <1>1
  <2>4. QED
    BY <2>1, <2>2, <2>3
<1>3. StreamTypeOK'
  BY <1>1, <1>2 DEF StreamTypeOK, Byte
<1>4. FlagsInv'
  BY <1>1, <1>2 DEF FlagsInv
<1>5. PlacedInv'
  <2>1. Drained'
    BY <1>1, <1>2 DEF Drained
  <2>2. QED
    BY <1>1, <2>1 DEF PlacedInv, InOrder
<1>6. CleanEndLosesNothing'
  <2> SUFFICES ASSUME part = "prefix", readErrors = 0, ~resumed
               PROVE  received = whole /\ cut < PrefixBytes /\ Within(sent, whole)
    <3>1. received = whole /\ Within(sent, whole) => Within(sent, received)
      OBVIOUS
    <3>2. Within(sent, received)' = Within(sent, received)
      BY <1>1 DEF Within
    <3>3. QED
      BY <1>1, <1>2, <3>1, <3>2 DEF CleanEndLosesNothing
  <2>1. InOrder /\ Aligned
    BY <1>1 DEF PlacedInv, FlagsInv, Drained
  <2>2. /\ whole \in Seq(Bodies) /\ Sendable(whole) /\ Len(received) \in 0 .. Len(whole) /\ cut \in Nat
        /\ Pending \in Seq(Byte) /\ buf \in Seq(Byte) /\ received \in Seq(Seq(Byte))
        /\ \A i \in 1 .. Len(whole) : whole[i] \in Seq(Byte)
    BY <2>1, StreamTypes DEF Sendable, InOrder
  <2>3. Pending = buf /\ Len(Pending) < PrefixBytes
    <3>1. buf \o <<>> = buf
      BY <2>2, ConcatEmptySeq
    <3>2. QED
      BY <1>1, <3>1 DEF Pending, FlagsInv
  <2>4. Len(received) = Len(whole) /\ cut = Len(Pending)
    BY <2>1, <2>2, <2>3, NothingLeft DEF Aligned
  <2>5. received = whole
    <3>1. whole \in Seq(Seq(Byte))
      BY <2>2, StreamConstants
    <3>2. \A i \in 1 .. Len(received) : received[i] = whole[i]
      BY <2>1 DEF InOrder
    <3>3. QED
      BY <2>2, <2>4, <3>1, <3>2, SeqEqual
  <2>6. QED
    BY <2>3, <2>4, <2>5 DEF FlagsInv
<1>7. QED
  BY <1>3, <1>4, <1>5, <1>6

LEMMA ReadTimesOutStep ==
  ASSUME StreamInv, ReadTimesOut
  PROVE  StreamInv'
<1> USE DEF StreamInv
<1>1. /\ reader = "rust" /\ ~ended /\ timeouts < MaxTimeouts /\ Len(buf) < need
      /\ readErrors' = readErrors + 1 /\ timeouts' = timeouts + 1
      /\ misaligned' = (misaligned \/ part = "body" \/ buf # <<>>)
      /\ part' = "prefix" /\ need' = PrefixBytes /\ buf' = <<>> /\ stream' = stream
      /\ reader' = reader /\ sent' = sent /\ whole' = whole /\ writeFails' = writeFails /\ cut' = cut
      /\ resumed' = resumed /\ open' = open /\ received' = received /\ ended' = ended
  BY DEF ReadTimesOut, senderVars, StartOver
<1>2. /\ PrefixBytes \in Nat \ {0} /\ readErrors \in Nat /\ Len(buf') = 0 /\ buf' \in Seq(Byte)
      /\ timeouts \in 0 .. MaxTimeouts /\ MaxTimeouts \in Nat
      /\ misaligned \in BOOLEAN /\ misaligned' \in BOOLEAN /\ part \in {"prefix", "body"}
  BY <1>1, StreamConstants DEF StreamTypeOK
<1>3. StreamTypeOK'
  BY <1>1, <1>2 DEF StreamTypeOK, Byte
<1>4. FlagsInv' /\ CleanEndLosesNothing'
  BY <1>1, <1>2 DEF FlagsInv, CleanEndLosesNothing
<1>5. PlacedInv'
  <2>1. ~misaligned' => ~misaligned /\ part = "prefix" /\ buf = <<>>
    BY <1>1, <1>2
  <2>2. CASE ~misaligned'
    <3>1. Pending' = Pending
      BY <1>1, <2>1, <2>2 DEF Pending
    <3>2. Drained => Drained'
      BY <1>1, <1>2 DEF Drained
    <3>3. QED
      BY <1>1, <2>1, <2>2, <3>1, <3>2 DEF PlacedInv, InOrder, Aligned
  <2>3. QED
    BY <2>2 DEF PlacedInv
<1>6. QED
  BY <1>3, <1>4, <1>5

-----------------------------------------------------------------------------
LEMMA PushChunkStep ==
  ASSUME StreamInv, PushChunk
  PROVE  StreamInv'
<1> USE DEF StreamInv
<1>1. PICK k \in 1 .. Len(stream) :
        buf' = buf \o SubSeq(stream, 1, k) /\ stream' = SubSeq(stream, k + 1, Len(stream))
  BY DEF PushChunk
<1>2. /\ reader = "typescript" /\ part = "prefix" /\ ~ended
      /\ reader' = reader /\ sent' = sent /\ whole' = whole /\ writeFails' = writeFails /\ cut' = cut
      /\ resumed' = resumed /\ open' = open /\ part' = part /\ need' = need
      /\ received' = received /\ readErrors' = readErrors /\ timeouts' = timeouts
      /\ misaligned' = misaligned /\ ended' = ended
  BY DEF PushChunk, senderVars, FlagsInv
<1>3. buf \in Seq(Byte) /\ stream \in Seq(Byte) /\ Len(stream) \in Nat
  BY StreamTypes
<1>4. /\ SubSeq(stream, 1, k) \in Seq(Byte) /\ SubSeq(stream, k + 1, Len(stream)) \in Seq(Byte)
      /\ SubSeq(stream, 1, k) \o SubSeq(stream, k + 1, Len(stream)) = stream
  <2>1. 1 \in 1 .. Len(stream) + 1 /\ k \in 1 - 1 .. Len(stream) /\ Len(stream) \in k .. Len(stream)
    BY <1>3
  <2>2. SubSeq(stream, 1, k) \o SubSeq(stream, k + 1, Len(stream)) = SubSeq(stream, 1, Len(stream))
    BY <1>3, <2>1, ConcatAdjacentSubSeq
  <2>3. SubSeq(stream, 1, Len(stream)) = stream
    BY <1>3, SubSeqFull
  <2>4. SubSeq(stream, 1, k) \in Seq(Byte) /\ SubSeq(stream, k + 1, Len(stream)) \in Seq(Byte)
    BY <1>3
  <2>5. QED
    BY <2>2, <2>3, <2>4
<1>5. /\ buf' \in Seq(Byte) /\ stream' \in Seq(Byte) /\ buf' \o stream' = buf \o stream
  <2> DEFINE chunk == SubSeq(stream, 1, k)
             after == SubSeq(stream, k + 1, Len(stream))
  <2>1. chunk \in Seq(Byte) /\ after \in Seq(Byte) /\ chunk \o after = stream
        /\ buf' = buf \o chunk /\ stream' = after
    BY <1>1, <1>4
  <2> HIDE DEF chunk, after
  <2>2. buf \o chunk \in Seq(Byte) /\ (buf \o chunk) \o after = buf \o (chunk \o after)
    <3>1. buf \in Seq(Byte) /\ chunk \in Seq(Byte) /\ after \in Seq(Byte)
      BY <1>3, <2>1
    <3> HIDE DEF StreamInv
    <3>2. (buf \o chunk) \o after = buf \o (chunk \o after)
      BY <3>1, ConcatAssociative, SMTT(60)
    <3>3. QED
      BY <3>1, <3>2
  <2>3. QED
    BY <2>1, <2>2
<1>6. StreamTypeOK'
  BY <1>2, <1>5 DEF StreamTypeOK, Byte
<1>7. FlagsInv' /\ CleanEndLosesNothing'
  BY <1>2 DEF FlagsInv, CleanEndLosesNothing
<1>8. PlacedInv'
  <2>1. Pending' = Pending
    BY <1>2, <1>5 DEF Pending
  <2>2. ~Drained
    BY <1>1, <1>3 DEF Drained
  <2>3. QED
    BY <1>2, <2>1, <2>2, PlaceKept
<1>9. QED
  BY <1>6, <1>7, <1>8

\* The deframer takes a prefix, a body and nothing else off its buffer.
LEMMA NextFramePending ==
  ASSUME StreamInv, NextFrame
  PROVE  \E body \in Seq(Byte) : \E after \in Seq(Byte) :
           /\ Len(body) \in FrameLengths /\ Len(body) <= ReaderMax
           /\ received' = Append(received, body) /\ buf' = after
           /\ after \o stream \in Seq(Byte)
           /\ Pending = Framed(body) \o (after \o stream) /\ Pending' = after \o stream /\ ~Drained
<1> DEFINE n == BufferedLength
           prefix == SubSeq(buf, 1, PrefixBytes)
           body == SubSeq(buf, PrefixBytes + 1, PrefixBytes + n)
           after == SubSeq(buf, PrefixBytes + n + 1, Len(buf))
<1>1. /\ reader = "typescript" /\ Len(buf) >= PrefixBytes /\ n <= ReaderMax /\ Len(buf) >= PrefixBytes + n
      /\ received' = Append(received, body) /\ buf' = after /\ stream' = stream /\ part' = part
      /\ part = "prefix"
  BY DEF NextFrame, StreamInv, FlagsInv
<1>2. /\ buf \in Seq(Byte) /\ stream \in Seq(Byte) /\ Len(buf) \in Nat /\ PrefixBytes \in Nat \ {0}
  BY StreamTypes, StreamConstants DEF StreamInv
<1>3. prefix \in Seq(Byte) /\ Len(prefix) = PrefixBytes
  BY <1>1, <1>2
<1>4. n \in FrameLengths /\ n \in Nat /\ LengthPrefix(n) = prefix
  BY <1>3, LengthOfPrefix, StreamConstants DEF BufferedLength
<1> HIDE DEF n
<1>5. body \in Seq(Byte) /\ Len(body) = n
  BY <1>1, <1>2, <1>4
<1>6. after \in Seq(Byte)
  BY <1>1, <1>2, <1>4
<1>7. buf = prefix \o (body \o after)
  <2>1. /\ 1 \in 1 .. Len(buf) + 1 /\ PrefixBytes \in 1 - 1 .. Len(buf)
        /\ Len(buf) \in PrefixBytes .. Len(buf)
        /\ PrefixBytes + 1 \in 1 .. Len(buf) + 1 /\ PrefixBytes + n \in (PrefixBytes + 1) - 1 .. Len(buf)
        /\ Len(buf) \in PrefixBytes + n .. Len(buf)
    BY <1>1, <1>2, <1>4
  <2>2. body \o after = SubSeq(buf, PrefixBytes + 1, Len(buf))
    BY <1>2, <2>1, ConcatAdjacentSubSeq
  <2>3. prefix \o SubSeq(buf, PrefixBytes + 1, Len(buf)) = SubSeq(buf, 1, Len(buf))
    BY <1>2, <2>1, ConcatAdjacentSubSeq
  <2>4. QED
    BY <1>2, <2>2, <2>3, SubSeqFull
<1> HIDE DEF prefix, body, after
<1>8. buf \o stream = (prefix \o body) \o (after \o stream) /\ after \o stream \in Seq(Byte)
  <2>1. after \o stream \in Seq(Byte) /\ body \o after \in Seq(Byte)
    BY <1>2, <1>5, <1>6
  <2> DEFINE both == body \o after
  <2>7. both \in Seq(Byte)
    BY <2>1
  <2> HIDE DEF both
  <2>2. (prefix \o both) \o stream = prefix \o (both \o stream)
    BY <1>2, <1>3, <2>7, ConcatAssociative, SMTT(60)
  <2>3. (body \o after) \o stream = body \o (after \o stream)
    BY <1>2, <1>5, <1>6, ConcatAssociative, SMTT(60)
  <2> DEFINE more == after \o stream
  <2>4. more \in Seq(Byte)
    BY <2>1
  <2> HIDE DEF more
  <2>5. (prefix \o body) \o more = prefix \o (body \o more)
    BY <1>3, <1>5, <2>4, ConcatAssociative, SMTT(60)
  <2>6. QED
    BY <1>7, <2>1, <2>2, <2>3, <2>5 DEF more, both
<1>9. Pending = Framed(body) \o (after \o stream) /\ Pending' = after \o stream
  BY <1>1, <1>4, <1>5, <1>8 DEF Pending, Framed
<1>10. ~Drained
  BY <1>1, <1>2 DEF Drained
<1>11. QED
  BY <1>1, <1>4, <1>5, <1>6, <1>8, <1>9, <1>10

LEMMA NextFrameStep ==
  ASSUME StreamInv, NextFrame
  PROVE  StreamInv'
<1>1. PICK body \in Seq(Byte), after \in Seq(Byte) :
        /\ Len(body) \in FrameLengths /\ Len(body) <= ReaderMax
        /\ received' = Append(received, body) /\ buf' = after
        /\ after \o stream \in Seq(Byte)
        /\ Pending = Framed(body) \o (after \o stream) /\ Pending' = after \o stream /\ ~Drained
  BY NextFramePending
<1> USE DEF StreamInv
<1>2. /\ reader = "typescript" /\ ~ended /\ part = "prefix"
      /\ reader' = reader /\ sent' = sent /\ whole' = whole /\ writeFails' = writeFails /\ cut' = cut
      /\ resumed' = resumed /\ open' = open /\ stream' = stream /\ part' = part /\ need' = need
      /\ readErrors' = readErrors /\ timeouts' = timeouts
      /\ misaligned' = misaligned /\ ended' = ended
  BY DEF NextFrame, senderVars, FlagsInv
<1>3. /\ received' \in Seq(Seq(Byte))
      /\ \A i \in DOMAIN received' : received'[i] = body \/ (i \in DOMAIN received /\ received'[i] = received[i])
  <2>1. received \in Seq(Seq(Byte))
    BY StreamTypes
  <2>2. QED
    BY <1>1, <2>1
<1>4. StreamTypeOK'
  BY <1>1, <1>2, <1>3 DEF StreamTypeOK, Byte
<1>5. FlagsInv' /\ CleanEndLosesNothing'
  BY <1>2, <1>3 DEF FlagsInv, CleanEndLosesNothing
<1>6. PlacedInv'
  BY <1>1, <1>2, HandOnKeepsPlace
<1>7. QED
  BY <1>4, <1>5, <1>6

LEMMA NextTooLargeStep ==
  ASSUME StreamInv, NextTooLarge
  PROVE  StreamInv'
<1> USE DEF StreamInv
<1>1. /\ reader = "typescript" /\ ~ended /\ Len(buf) >= PrefixBytes /\ readErrors' = 1
      /\ reader' = reader /\ sent' = sent /\ whole' = whole /\ writeFails' = writeFails /\ cut' = cut
      /\ resumed' = resumed /\ open' = open /\ stream' = stream /\ part' = part /\ need' = need
      /\ buf' = buf /\ received' = received /\ timeouts' = timeouts
      /\ misaligned' = misaligned /\ ended' = ended
  BY DEF NextTooLarge, senderVars, FlagsInv
<1>2. StreamTypeOK' /\ FlagsInv' /\ CleanEndLosesNothing'
  BY <1>1 DEF StreamTypeOK, FlagsInv, CleanEndLosesNothing
<1>3. PlacedInv'
  <2>1. Pending' = Pending
    BY <1>1 DEF Pending
  <2>2. ~Drained
    BY <1>1, StreamConstants DEF Drained
  <2>3. QED
    BY <1>1, <2>1, <2>2, PlaceKept
<1>4. QED
  BY <1>2, <1>3

LEMMA StreamInvStep == StreamInv /\ [StreamNext]_streamVars => StreamInv'
<1> SUFFICES ASSUME StreamInv, [StreamNext]_streamVars
             PROVE  StreamInv'
  OBVIOUS
<1>1. CASE UNCHANGED streamVars
  <2>1. /\ reader' = reader /\ sent' = sent /\ whole' = whole /\ writeFails' = writeFails /\ cut' = cut
        /\ resumed' = resumed /\ open' = open /\ stream' = stream /\ part' = part /\ need' = need
        /\ buf' = buf /\ received' = received /\ readErrors' = readErrors /\ timeouts' = timeouts
        /\ misaligned' = misaligned /\ ended' = ended
    BY <1>1 DEF streamVars, senderVars, readerVars
  <2>2. StreamTypeOK' /\ FlagsInv' /\ CleanEndLosesNothing'
    BY <2>1 DEF StreamInv, StreamTypeOK, FlagsInv, CleanEndLosesNothing
  <2>3. PlacedInv'
    <3>1. Pending' = Pending
      BY <2>1 DEF Pending
    <3>2. QED
      BY <2>1, <3>1 DEF StreamInv, PlacedInv, InOrder, Drained, Aligned
  <2>4. QED
    BY <2>2, <2>3 DEF StreamInv
<1>2. CASE StreamNext
  BY <1>2, WriteFrameStep, WriteFailsStep, CloseStreamStep, ReadByteStep, PrefixReadStep,
     PrefixTooLargeStep, BodyReadStep, EndOfStreamStep, ReadTimesOutStep, PushChunkStep,
     NextFrameStep, NextTooLargeStep DEF StreamNext
<1>3. QED
  BY <1>1, <1>2

(* The invariant of a byte stream with either reader, for any frames, limits *)
(* and sizes of the prefix (write_length_prefixed, read_length_prefixed,     *)
(* LengthPrefixedDeframer).                                                  *)
THEOREM StreamInvariant == StreamSteps => []StreamInv
BY StreamInvInit, StreamInvStep, PTL DEF StreamSteps

(* When a clean end is reported, and nothing was sent after a frame that was *)
(* left unfinished, the frames handed on are exactly those that were written *)
(* whole, the ones whose flush failed among them, and an unfinished one was  *)
(* cut inside its prefix (write_length_prefixed, read_length_prefixed).      *)
THEOREM CleanEndIsClean == StreamSteps => []CleanEndLosesNothing
<1>1. StreamInv => CleanEndLosesNothing
  BY DEF StreamInv
<1>2. QED
  BY <1>1, StreamInvariant, PTL

(* After an error of either end the reader's frames are still the first of   *)
(* those that were written whole, unless the error threw away or left behind *)
(* bytes of a frame or something was sent after an unfinished one.           *)
THEOREM ReadersKeepTheirPlace == StreamSteps => []AlignedUnlessBytesLost
<1>1. ASSUME StreamInv
      PROVE  AlignedUnlessBytesLost
  <2> SUFFICES ASSUME ~misaligned, ~resumed
               PROVE  IsPrefix(received, whole)
    BY DEF AlignedUnlessBytesLost
  <2>1. InOrder
    BY <1>1 DEF StreamInv, PlacedInv
  <2>2. /\ whole \in Seq(Bodies) /\ received \in Seq(Seq(Byte)) /\ Len(received) \in Nat /\ Len(whole) \in Nat
        /\ Len(received) <= Len(whole)
    BY <1>1, <2>1, StreamTypes DEF StreamInv, InOrder
  <2>3. whole \in Seq(Seq(Byte))
    BY <2>2, StreamConstants
  <2> DEFINE first == SubSeq(whole, 1, Len(received))
  <2>4. first \in Seq(Seq(Byte)) /\ Len(first) = Len(received) /\ \A i \in 1 .. Len(received) : first[i] = whole[i]
    BY <2>2, <2>3
  <2> HIDE DEF first
  <2>5. received = first
    <3>1. \A i \in 1 .. Len(received) : received[i] = first[i]
      BY <2>1, <2>4 DEF InOrder
    <3>2. QED
      BY <2>2, <2>4, <3>1, SeqEqual
  <2>6. SubSeq(received, 1, Len(received)) = received
    BY <2>2, SubSeqFull
  <2>7. QED
    BY <2>2, <2>5, <2>6 DEF IsPrefix, first
<1>2. QED
  BY <1>1, StreamInvariant, PTL

-----------------------------------------------------------------------------
(***************************************************************************)
(* A byte stream implements FrameQueue.                                    *)
(***************************************************************************)
\* A failed carrier stays failed, whatever it does.
LEMMA FailedStaysFailed ==
  ASSUME StreamInv, Status = "failed", writeFails' >= writeFails, readErrors' >= readErrors,
         writeFails' \in Nat, readErrors' \in Nat
  PROVE  Carrier!Next
<1>1. writeFails \in Nat /\ readErrors \in Nat
  BY StreamConstants DEF StreamInv, StreamTypeOK
<1>2. writeFails > 0 \/ readErrors > 0
  BY DEF Status
<1>3. writeFails' > 0 \/ readErrors' > 0
  BY <1>1, <1>2
<1>4. Status' = "failed"
  BY <1>3 DEF Status
<1>5. QED
  BY <1>4 DEF Carrier!Next, Carrier!Broken

\* A carrier that fails has done nothing else.
LEMMA FailingStep ==
  ASSUME StreamInv, sent' = sent, received' = received, writeFails' > 0 \/ readErrors' > 0
  PROVE  Carrier!Next
BY DEF Status, Carrier!Next, Carrier!Fail

\* A frame handed on while no error has been reported is the next one of the queue.
LEMMA DeliverStep ==
  ASSUME StreamInv, NEW body \in Seq(Byte), Len(body) \in FrameLengths, NEW rest \in Seq(Byte),
         Pending = Framed(body) \o rest, ~Drained, received' = Append(received, body),
         sent' = sent, Status = "sound", Status' = Status
  PROVE  Carrier!Next
<1>1. ~misaligned /\ ~resumed /\ whole = sent
  <2>1. ~(writeFails > 0) /\ ~(readErrors > 0)
    BY DEF Status
  <2>2. writeFails = 0
    BY <2>1, StreamConstants DEF StreamInv, StreamTypeOK
  <2>3. QED
    BY <2>1, <2>2 DEF StreamInv, FlagsInv
<1>2. Len(received) < Len(sent) /\ body = sent[Len(received) + 1]
  BY <1>1, HandOn DEF StreamInv
<1>3. Carrier!Deliver
  BY <1>2 DEF Carrier!Deliver
<1>4. QED
  BY <1>3 DEF Carrier!Next

LEMMA QuietStep ==
  ASSUME sent' = sent, received' = received, writeFails' = writeFails, readErrors' = readErrors,
         ended' = ended
  PROVE  UNCHANGED Carrier!vars
BY DEF Carrier!vars, Status

LEMMA StreamRefines ==
  ASSUME StreamInv, StreamInv', [StreamNext]_streamVars
  PROVE  [Carrier!Next]_(Carrier!vars)
<1>0. writeFails \in Nat /\ readErrors \in Nat /\ writeFails' \in Nat /\ readErrors' \in Nat
  BY StreamConstants DEF StreamInv, StreamTypeOK
<1>1. CASE UNCHANGED streamVars
  BY <1>1, QuietStep DEF streamVars, senderVars, readerVars
<1>2. CASE WriteFrame
  <2>1. /\ \E body \in Bodies : sent' = Append(sent, body)
        /\ received' = received /\ writeFails' = writeFails /\ readErrors' = readErrors /\ ended' = ended
    BY <1>2 DEF WriteFrame, readerVars
  <2>2. Status' = Status
    BY <2>1 DEF Status
  <2>3. Carrier!Send
    BY <2>1, <2>2 DEF Carrier!Send
  <2>4. QED
    BY <2>3 DEF Carrier!Next
<1>3. CASE WriteFails
  <2>1. sent' = sent /\ received' = received /\ writeFails' > 0
    BY <1>0, <1>3 DEF WriteFails, readerVars
  <2>2. QED
    BY <2>1, FailingStep
<1>4. CASE CloseStream \/ ReadByte \/ PrefixRead \/ PushChunk
  BY <1>4, QuietStep DEF CloseStream, ReadByte, PrefixRead, PushChunk, senderVars, readerVars
<1>5. CASE PrefixTooLarge \/ ReadTimesOut \/ NextTooLarge
  <2>1. sent' = sent /\ received' = received /\ readErrors' > 0
    BY <1>0, <1>5 DEF PrefixTooLarge, ReadTimesOut, NextTooLarge, senderVars
  <2>2. QED
    BY <2>1, FailingStep
<1>6. CASE EndOfStream
  <2>1. /\ ~ended /\ sent' = sent /\ received' = received /\ writeFails' = writeFails /\ resumed' = resumed
        /\ cut' = cut
        /\ IF part = "prefix" THEN ended' = TRUE /\ readErrors' = readErrors
           ELSE readErrors' = readErrors + 1 /\ ended' = ended
    BY <1>6 DEF EndOfStream, senderVars
  <2>2. CASE part # "prefix"
    <3>1. readErrors' > 0
      BY <1>0, <2>1, <2>2
    <3>2. QED
      BY <2>1, <3>1, FailingStep
  <2>3. CASE part = "prefix" /\ Status = "failed"
    <3>1. readErrors' = readErrors
      BY <2>1, <2>3
    <3>2. writeFails' >= writeFails /\ readErrors' >= readErrors
      BY <1>0, <2>1, <3>1
    <3>3. QED
      BY <1>0, <2>3, <3>2, FailedStaysFailed
  <2>4. CASE part = "prefix" /\ Status # "failed"
    <3>1. ended' = TRUE /\ readErrors' = readErrors /\ ~(writeFails > 0) /\ ~(readErrors > 0)
      BY <2>1, <2>4 DEF Status
    <3>2. writeFails = 0 /\ readErrors = 0
      BY <1>0, <3>1
    <3>3. ~resumed
      BY <3>1 DEF StreamInv, FlagsInv
    <3>4. received' = sent'
      <4>1. received' = whole'
        BY <2>1, <3>1, <3>2, <3>3 DEF StreamInv, CleanEndLosesNothing
      <4>2. whole' = sent'
        BY <2>1, <3>2 DEF StreamInv, FlagsInv
      <4>3. QED
        BY <4>1, <4>2
    <3>5. Status = "sound" /\ Status' = "ended"
      BY <2>1, <3>1 DEF Status
    <3>6. Carrier!End
      BY <2>1, <3>4, <3>5 DEF Carrier!End
    <3>7. QED
      BY <3>6 DEF Carrier!Next
  <2>5. QED
    BY <2>2, <2>3, <2>4
<1>7. CASE BodyRead \/ NextFrame
  <2>1. /\ sent' = sent /\ writeFails' = writeFails /\ readErrors' = readErrors /\ ended' = ended
    BY <1>7 DEF BodyRead, NextFrame, senderVars
  <2>2. ~ended
    BY <1>7 DEF BodyRead, NextFrame, StreamInv, FlagsInv
  <2>3. CASE Status = "failed"
    <3>1. writeFails' >= writeFails /\ readErrors' >= readErrors
      BY <1>0, <2>1
    <3>2. QED
      BY <1>0, <2>3, <3>1, FailedStaysFailed
  <2>4. CASE Status # "failed"
    <3>1. Status = "sound" /\ Status' = Status
      BY <2>1, <2>2, <2>4 DEF Status
    <3>2. \E body \in Seq(Byte) : \E rest \in Seq(Byte) :
            /\ Len(body) \in FrameLengths /\ Pending = Framed(body) \o rest /\ ~Drained
            /\ received' = Append(received, body)
      <4>1. CASE BodyRead
        BY <4>1, BodyReadPending DEF BodyRead
      <4>2. CASE NextFrame
        BY <4>2, NextFramePending
      <4>3. QED
        BY <1>7, <4>1, <4>2
    <3>3. PICK body \in Seq(Byte), rest \in Seq(Byte) :
            /\ Len(body) \in FrameLengths /\ Pending = Framed(body) \o rest /\ ~Drained
            /\ received' = Append(received, body)
      BY <3>2
    <3>4. QED
      BY <2>1, <3>1, <3>3, DeliverStep
  <2>5. QED
    BY <2>3, <2>4
<1>8. QED
  BY <1>1, <1>2, <1>3, <1>4, <1>5, <1>6, <1>7 DEF StreamNext

(* Until an end reports an error a byte stream with either reader is the     *)
(* queue of frames that the transports are built on (FrameCarrier), for any  *)
(* frames, limits and sizes of the prefix, however the bytes are cut up.     *)
THEOREM StreamImplementsQueue == StreamSteps => ImplementsFrameQueue
<1>1. StreamInit => Carrier!Init
  BY DEF StreamInit, Carrier!Init, Status
<1>2. StreamInv /\ StreamInv' /\ [StreamNext]_streamVars => [Carrier!Next]_(Carrier!vars)
  BY StreamRefines
<1>3. QED
  BY <1>1, <1>2, StreamInvariant, PTL DEF StreamSteps, ImplementsFrameQueue, Carrier!Spec
=============================================================================
