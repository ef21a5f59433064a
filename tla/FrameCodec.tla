------------------------------ MODULE FrameCodec ------------------------------
(***************************************************************************)
(* labztna/protocol.py: the incremental decoder of the data plane.  A peer *)
(* writes frames, the transport hands them over in pieces of any length,   *)
(* feed() decodes what is complete, finish() judges the end of the stream. *)
(* Lengths are counted in units: a header is two units (24 bytes in the    *)
(* code), so that it can be cut, a payload `size' units.  feed() returns   *)
(* its frames together, or raises and returns none; the callers drop a     *)
(* codec that has raised.                                                  *)
(* Exchange composes these actions into a connection.                      *)
(***************************************************************************)
EXTENDS Naturals, Sequences, FiniteSets

CONSTANTS Frames,      \* the frames a peer may write
          Streams,     \* stream ids; 0 is the connection's own
          MaxPayload,  \* MAX_PAYLOAD, in units
          Limits,      \* the values of max_frames in use
          MaxSent      \* bound on the frames written

Types == {"TCP_OPEN", "TCP_DATA", "L3_DATA", "PING", "PONG", "CLOSE"}

(* magic: the header has the right magic and version.  "RESERVED" stands   *)
(* for flag bits outside ALLOWED_FLAGS and for types outside FrameType.    *)
Frame == [magic : BOOLEAN, type : Types \cup {"RESERVED"}, sid : Streams, seq : Nat,
          size : Nat, flags : SUBSET {"FIN", "RST", "RESERVED"}]

ASSUME FrameAssumption ==
  /\ Frames \subseteq Frame
  /\ 0 \in Streams
  /\ MaxPayload \in Nat /\ MaxSent \in Nat
  /\ Limits \subseteq Nat \ {0}

VARIABLES limit,      \* _max_frames
          sent,       \* the frames the peer has written
          written,    \* units in them
          arrived,    \* units that have been fed
          status,     \* "open", "feeding", "failed", "finished", "truncated"
          consumed,   \* units decoded: _buffer holds arrived - consumed
          nextSeq,    \* _next_sequence
          kind,       \* _stream_kind
          closed,     \* _closed_streams
          connClosed, \* _connection_closed
          count,      \* _frames
          batch,      \* the frames of the feed() under way
          delivered   \* the frames feed() has returned so far

peerVars == <<limit, sent, written>>
streamVars == <<nextSeq, kind, closed, connClosed>>
codecVars == <<peerVars, streamVars, arrived, status, consumed, count, batch, delivered>>

CodecTypeOK ==
  /\ sent \in Seq(Frame)
  /\ written \in Nat /\ arrived \in 0..written /\ consumed \in 0..arrived
  /\ status \in {"open", "feeding", "failed", "finished", "truncated"}
  /\ nextSeq \in [Streams -> Nat]
  /\ kind \in [Streams -> {"none", "tcp", "l3"}]
  /\ closed \in SUBSET (Streams \ {0})
  /\ connClosed \in BOOLEAN
  /\ limit \in Limits
  /\ count \in 0..limit
  /\ batch \in Seq(Frame)
  /\ delivered \in Seq(Frame)

CodecInit ==
  /\ limit \in Limits
  /\ sent = <<>>
  /\ written = 0
  /\ arrived = 0
  /\ status = "open"
  /\ consumed = 0
  /\ nextSeq = [s \in Streams |-> 0]
  /\ kind = [s \in Streams |-> "none"]
  /\ closed = {}
  /\ connClosed = FALSE
  /\ count = 0
  /\ batch = <<>>
  /\ delivered = <<>>

Header == 2
Units(f) == Header + f.size

(* The units in the payloads of the frames of fs from first to last.       *)
PayloadUnits(fs, first, last) ==
  Cardinality({p \in (first..last) \X (1..MaxPayload) : p[2] <= fs[p[1]].size})

(* The peer's side of the wire.                                            *)
Write(f) ==
  /\ Len(sent) < MaxSent
  /\ sent' = Append(sent, f)
  /\ written' = written + Units(f)
  /\ UNCHANGED <<limit, streamVars, arrived, status, consumed, count, batch, delivered>>

-----------------------------------------------------------------------------
(* _validate_frame_semantics().                                            *)
Semantics(f) ==
  IF f.type \in {"PING", "PONG", "CLOSE"}
  THEN f.sid = 0 /\ f.flags = {}
  ELSE /\ f.sid # 0
       /\ f.type \in {"TCP_OPEN", "L3_DATA"} => f.flags = {}
       /\ f.flags # {"FIN", "RST"}
       /\ "RST" \in f.flags => f.size = 0

(* Frame.decode(), which runs the checks of encode() on what it decoded.   *)
Decodable(f) ==
  /\ f.magic
  /\ f.size <= MaxPayload
  /\ f.type \in Types
  /\ "RESERVED" \notin f.flags
  /\ Semantics(f)

(* Mutant: a frame for a stream that was closed passes.                    *)
StreamAcceptsClosed(f) ==
  /\ ~connClosed
  /\ f.sid = 0 \/
     /\ f.type = "TCP_OPEN" => kind[f.sid] = "none" /\ f.seq = 0
     /\ f.type = "TCP_DATA" => kind[f.sid] = "tcp"
     /\ f.type = "L3_DATA" => kind[f.sid] \in {"none", "l3"}

(* Mutant: an L3 stream takes one packet.                                  *)
StreamAcceptsOnePacket(f) ==
  /\ ~connClosed
  /\ f.sid = 0 \/
     /\ f.sid \notin closed
     /\ f.type = "TCP_OPEN" => kind[f.sid] = "none" /\ f.seq = 0
     /\ f.type = "TCP_DATA" => kind[f.sid] = "tcp"
     /\ f.type = "L3_DATA" => kind[f.sid] = "none"

(* _advance_stream_state() does not raise.                                 *)
StreamAccepts(f) ==
  /\ ~connClosed
  /\ f.sid = 0 \/
     /\ f.sid \notin closed
     /\ f.type = "TCP_OPEN" => kind[f.sid] = "none" /\ f.seq = 0
     /\ f.type = "TCP_DATA" => kind[f.sid] = "tcp"
     /\ f.type = "L3_DATA" => kind[f.sid] \in {"none", "l3"}

(* What it then does to the codec.                                         *)
Advance(f) ==
  /\ nextSeq' = [nextSeq EXCEPT ![f.sid] = @ + 1]
  /\ kind' = [kind EXCEPT ![f.sid] = CASE f.type = "TCP_OPEN" -> "tcp"
                                       [] f.type = "L3_DATA" -> "l3"
                                       [] OTHER -> @]
  /\ closed' = IF f.type = "TCP_DATA" /\ f.flags # {} THEN closed \cup {f.sid} ELSE closed
  /\ connClosed' = (connClosed \/ f.type = "CLOSE")

-----------------------------------------------------------------------------
Buffered == arrived - consumed
Current == sent[count + 1]

(* Mutant: the length field is not limited.                                *)
HeaderOKUnlimited(f) == f.magic

(* The checks feed() makes as soon as it has a header.                     *)
HeaderOK(f) == f.magic /\ f.size <= MaxPayload

Complete(f) == Buffered >= Units(f)

(* Mutant: the frame over the limit is returned, the next one refused.     *)
AcceptableOverCount(f) ==
  /\ Decodable(f)
  /\ f.seq = nextSeq[f.sid]
  /\ StreamAccepts(f)
  /\ count <= limit

(* The checks feed() makes on a whole frame.                               *)
Acceptable(f) ==
  /\ Decodable(f)
  /\ f.seq = nextSeq[f.sid]
  /\ StreamAccepts(f)
  /\ count < limit

(* A piece of n units is appended to the buffer.                           *)
Feed(n) ==
  /\ status = "open"
  /\ arrived + n <= written
  /\ arrived' = arrived + n
  /\ status' = "feeding"
  /\ batch' = <<>>
  /\ UNCHANGED <<peerVars, streamVars, consumed, count, delivered>>

(* A round of feed()'s loop that decodes a frame.                          *)
Decode ==
  /\ status = "feeding"
  /\ Buffered >= Header
  /\ Complete(Current)
  /\ Acceptable(Current)
  /\ Advance(Current)
  /\ consumed' = consumed + Units(Current)
  /\ count' = count + 1
  /\ batch' = Append(batch, Current)
  /\ UNCHANGED <<peerVars, arrived, status, delivered>>

(* A round that raises ProtocolError: on a bad header at once, on anything *)
(* else when the frame is complete.                                        *)
Reject ==
  /\ status = "feeding"
  /\ Buffered >= Header
  /\ ~HeaderOK(Current) \/ (Complete(Current) /\ ~Acceptable(Current))
  /\ status' = "failed"
  /\ batch' = <<>>
  /\ UNCHANGED <<peerVars, streamVars, arrived, consumed, count, delivered>>

(* The loop ends for want of a header or of the rest of a frame.  The test *)
(* for a buffer larger than MAX_FRAME that follows it never succeeds.      *)
ReturnFrames ==
  /\ status = "feeding"
  /\ Buffered >= Header => HeaderOK(Current) /\ ~Complete(Current)
  /\ status' = "open"
  /\ delivered' = delivered \o batch
  /\ batch' = <<>>
  /\ UNCHANGED <<peerVars, streamVars, arrived, consumed, count>>

(* Mutant: finish() looks at the streams only.                             *)
CleanEndUnbuffered == \A s \in Streams : kind[s] = "tcp" => s \in closed

CleanEnd == Buffered = 0 /\ \A s \in Streams : kind[s] = "tcp" => s \in closed

Finish ==
  /\ status = "open"
  /\ status' = IF CleanEnd THEN "finished" ELSE "truncated"
  /\ UNCHANGED <<peerVars, streamVars, arrived, consumed, count, batch, delivered>>

-----------------------------------------------------------------------------
(* Reference: what a legal conversation is, said of the whole sequence of  *)
(* frames with no decoder state.                                           *)
SameStream(fs, i) == {j \in 1..(i - 1) : fs[j].sid = fs[i].sid}

LegalAt(fs, i) ==
  LET f == fs[i]
      earlier == {fs[j] : j \in SameStream(fs, i)}
  IN  /\ Decodable(f)
      /\ f.seq = Cardinality(SameStream(fs, i))
      /\ \A j \in 1..(i - 1) : fs[j].type # "CLOSE"
      /\ f.type = "TCP_OPEN" => earlier = {}
      /\ f.type = "TCP_DATA" => /\ \E g \in earlier : g.type = "TCP_OPEN"
                                /\ \A g \in earlier : g.flags = {}
      /\ f.type = "L3_DATA" => \A g \in earlier : g.type = "L3_DATA"

Legal(fs) == Len(fs) <= limit /\ \A i \in 1..Len(fs) : LegalAt(fs, i)

(* However the stream is cut into pieces, feed() returns the frames that   *)
(* were written, in order, and only a legal conversation of them: numbered *)
(* from 0 in each stream, data only between open and FIN or RST, L3 and    *)
(* TCP never mixed, nothing after CLOSE, at most max_frames.               *)
DeliversLegalPrefix ==
  /\ Len(delivered) <= Len(sent)
  /\ delivered = SubSeq(sent, 1, Len(delivered))
  /\ Legal(delivered)

(* feed() raises only on a conversation that is illegal up to the frame it *)
(* is at: no fragmentation and no history makes it refuse a legal one.     *)
RejectsOnlyIllegal ==
  status = "failed" => ~Legal(SubSeq(sent, 1, count + 1))

(* finish() succeeds exactly when every unit that arrived was delivered in *)
(* a frame and each TCP stream that was opened was ended with FIN or RST:  *)
(* a cut in the middle of a frame or a response is always noticed.         *)
WholeFramesArrived ==
  \E k \in 0..Len(sent) :
    /\ delivered = SubSeq(sent, 1, k)
    /\ arrived = Header * k + PayloadUnits(sent, 1, k)

StreamsEnded ==
  \A i \in 1..Len(delivered) : delivered[i].type = "TCP_OPEN" =>
    \E j \in 1..Len(delivered) : delivered[j].sid = delivered[i].sid /\ delivered[j].flags # {}

FinishNoticesCut ==
  status \in {"finished", "truncated"} =>
    (status = "finished" <=> WholeFramesArrived /\ StreamsEnded)

(* What feed() keeps for its next call is less than one frame of maximal   *)
(* size, so the check it makes at its end can never fail.                  *)
BufferBounded == status = "open" => Buffered < Header + MaxPayload

(* The decoder does what the definition of a legal conversation says, in   *)
(* bounded memory, wherever the stream is cut.                             *)
CodecCorrect ==
  /\ DeliversLegalPrefix
  /\ RejectsOnlyIllegal
  /\ FinishNoticesCut
  /\ BufferBounded
=============================================================================
