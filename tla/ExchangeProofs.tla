---------------------------- MODULE ExchangeProofs ----------------------------
(***************************************************************************)
(* The decoder and the exchange for every set of frames, every limit and   *)
(* every way to cut the stream.  The heart is that the state the decoder   *)
(* keeps is a function of the frames it has decoded (DecoderState), from   *)
(* which what it accepts is what LegalAt says of the whole conversation    *)
(* (AcceptableIsLegal); and that the boundaries of the frames in the byte  *)
(* stream exist whatever the pieces (FramesOnWire), so that the decoder is *)
(* never at a place where no frame was written.                            *)
(***************************************************************************)
EXTENDS Exchange, FiniteSetTheorems, SequenceTheorems, TLAPS

-----------------------------------------------------------------------------
(* The inductive invariant of the decoder.                                 *)

(* Where each frame ends in the stream of units.                           *)
FrameEnds(ends) ==
  /\ ends[0] = 0
  /\ ends[count] = consumed
  /\ ends[Len(sent)] = written
  /\ \A i \in 1..Len(sent) : ends[i] = ends[i - 1] + Units(sent[i])

FramesOnWire == \E ends \in [0..Len(sent) -> 0..written] : FrameEnds(ends)

FramesTaken ==
  /\ count <= Len(sent)
  /\ Len(delivered) + Len(batch) <= count
  /\ status # "failed" => Len(delivered) + Len(batch) = count
  /\ status # "feeding" => batch = <<>>
  /\ \A i \in 1..Len(delivered) : delivered[i] = sent[i]
  /\ \A i \in 1..Len(batch) : batch[i] = sent[Len(delivered) + i]
  /\ \A i \in 1..count : LegalAt(sent, i)
  /\ consumed = Header * count + PayloadUnits(sent, 1, count)

SeenOn(s) == {i \in 1..count : sent[i].sid = s}

DecoderState ==
  /\ \A s \in Streams :
       /\ nextSeq[s] = Cardinality(SeenOn(s))
       /\ kind[s] = "tcp" <=> \E i \in SeenOn(s) : sent[i].type = "TCP_OPEN"
       /\ kind[s] = "l3" <=> \E i \in SeenOn(s) : sent[i].type = "L3_DATA"
       /\ s \in closed <=> \E i \in SeenOn(s) : sent[i].type = "TCP_DATA" /\ sent[i].flags # {}
  /\ connClosed <=> \E i \in 1..count : sent[i].type = "CLOSE"

StatusOK ==
  /\ status = "open" => Buffered < Header \/ (HeaderOK(Current) /\ ~Complete(Current))
  /\ status = "failed" => count < Len(sent) /\ (count < limit => ~LegalAt(sent, count + 1))
  /\ status \in {"finished", "truncated"} => (status = "finished" <=> CleanEnd)

CodecInv == CodecTypeOK /\ FramesOnWire /\ FramesTaken /\ DecoderState /\ StatusOK

-----------------------------------------------------------------------------
(* The inductive invariant of the exchange.                                *)

(* The peer's request, up to what the gateway's handler has judged.        *)
RequestPhase ==
  gw \notin {"relay", "stopped", "finished"} =>
    /\ client = "waiting" /\ answered = 0
    /\ sent \in Seq(Frames)
    /\ gw = "complete" => mode = "tcp" /\ status = "open"
    /\ gw = "accepted" => Len(sent) >= 1
    /\ gw = "complete" \/ (gw = "accepted" /\ mode = "tcp") =>
         Passes(delivered) /\ CompleteRequest(delivered)

Chunks(i) == {Reply("TCP_DATA", 1, i - 1, n, {}) : n \in ChunkSizes}
Fin(i) == Reply("TCP_DATA", 1, i - 1, 0, {"FIN"})

(* What the gateway writes in answer.                                      *)
AnswerPhase ==
  Answering =>
    /\ mode = "l3" => gw = "finished" /\ sent = <<Reply("PONG", 0, 0, 1, {})>>
    /\ mode = "tcp" =>
         /\ sent[1] = Reply("TCP_OPEN", 1, 0, 1, {})
         /\ \A i \in 2..Len(sent) : sent[i] \in IF gw = "finished" /\ i = Len(sent)
                                                THEN {Fin(i)} ELSE Chunks(i)
         /\ gw = "relay" => Len(sent) = answered + 1
         /\ gw = "finished" => Len(sent) = answered + 2

(* A connection that was not cut has handed over all of the answer.        *)
ClientPhase ==
  /\ client \in {"decoding", "finishing"} /\ ~cut => arrived = written /\ gw # "relay"
  /\ client = "finishing" => status = "open"

ExchangeInv ==
  /\ ExchangeTypeOK
  /\ CodecInv
  /\ Len(sent) <= MaxSent
  /\ RequestPhase
  /\ AnswerPhase
  /\ ClientPhase
  /\ ForwardsWholeRequest
  /\ ServesProperRequest
  /\ AnswerIsWhole
  /\ WholeAnswerAccepted

-----------------------------------------------------------------------------
(* Counting payload units.                                                 *)
Payload(fs, first, last) ==
  {p \in (first..last) \X (1..MaxPayload) : p[2] <= fs[p[1]].size}

(* A payload is a finite set of units.                                     *)
LEMMA PayloadFinite ==
  ASSUME NEW fs, NEW first \in Nat, NEW last \in Nat
  PROVE  /\ IsFiniteSet(Payload(fs, first, last))
         /\ PayloadUnits(fs, first, last) = Cardinality(Payload(fs, first, last))
         /\ PayloadUnits(fs, first, last) \in Nat
<1>1. IsFiniteSet(first..last) /\ IsFiniteSet(1..MaxPayload)
  BY FS_Interval, FrameAssumption
<1>2. IsFiniteSet((first..last) \X (1..MaxPayload))
  BY <1>1, FS_Product
<1>3. Payload(fs, first, last) \in SUBSET ((first..last) \X (1..MaxPayload))
  BY DEF Payload
<1>4. IsFiniteSet(Payload(fs, first, last))
  BY <1>2, <1>3, FS_Subset
<1> QED
  BY <1>4, FS_CardinalityType DEF PayloadUnits, Payload

(* No frame has no payload.                                                *)
LEMMA PayloadEmpty ==
  ASSUME NEW fs
  PROVE  PayloadUnits(fs, 1, 0) = 0
<1>1. Payload(fs, 1, 0) = {}
  BY DEF Payload
<1> QED
  BY <1>1, PayloadFinite, FS_EmptySet

(* Only the frames that are counted matter, and more frames have no less.  *)
LEMMA PayloadMonotonic ==
  ASSUME NEW fs, NEW gs, NEW first \in Nat, NEW k \in Nat, NEW m \in Nat, k <= m,
         \A i \in first..k : fs[i] = gs[i]
  PROVE  PayloadUnits(fs, first, k) <= PayloadUnits(gs, first, m)
<1>1. Payload(fs, first, k) \in SUBSET Payload(gs, first, m)
  BY DEF Payload
<1> QED
  BY <1>1, PayloadFinite, FS_Subset

LEMMA PayloadAgree ==
  ASSUME NEW fs, NEW gs, NEW first \in Nat, NEW last \in Nat,
         \A i \in first..last : fs[i] = gs[i]
  PROVE  PayloadUnits(fs, first, last) = PayloadUnits(gs, first, last)
<1>1. Payload(fs, first, last) = Payload(gs, first, last)
  BY DEF Payload
<1> QED
  BY <1>1, PayloadFinite

(* One more frame adds its size.                                           *)
LEMMA PayloadNext ==
  ASSUME NEW fs, NEW k \in Nat, fs[k + 1].size \in 0..MaxPayload
  PROVE  PayloadUnits(fs, 1, k + 1) = PayloadUnits(fs, 1, k) + fs[k + 1].size
<1>0. PICK n \in 0..MaxPayload : n = fs[k + 1].size
  OBVIOUS
<1> DEFINE New == {k + 1} \X (1..n)
<1>1. n \in Nat /\ MaxPayload \in Nat
  BY FrameAssumption
<1>2. IsFiniteSet(New) /\ Cardinality(New) = n
  <2>1. IsFiniteSet({k + 1}) /\ Cardinality({k + 1}) = 1
    BY FS_Singleton
  <2>2. IsFiniteSet(1..n) /\ Cardinality(1..n) = n
    <3>1. 1 \in Int /\ n \in Int
      BY <1>1
    <3>2. /\ IsFiniteSet(1..n)
          /\ Cardinality(1..n) = IF 1 > n THEN 0 ELSE n - 1 + 1
      BY ONLY <3>1, FS_Interval
    <3> QED
      BY <1>1, <3>2
  <2>3. IsFiniteSet(New) /\ Cardinality(New) = Cardinality({k + 1}) * Cardinality(1..n)
    BY <2>1, <2>2, FS_Product
  <2> QED
    BY <2>1, <2>2, <2>3, <1>1
<1>3. Payload(fs, 1, k + 1) = Payload(fs, 1, k) \cup New
  <2>1. ASSUME NEW p \in Payload(fs, 1, k + 1) PROVE p \in Payload(fs, 1, k) \cup New
    BY <2>1, <1>0, <1>1 DEF Payload
  <2>2. ASSUME NEW p \in New PROVE p \in Payload(fs, 1, k + 1)
    BY <2>2, <1>0, <1>1 DEF Payload
  <2>3. Payload(fs, 1, k) \subseteq Payload(fs, 1, k + 1)
    BY DEF Payload
  <2> QED
    BY <2>1, <2>2, <2>3
<1>4. Payload(fs, 1, k) \cap New = {}
  BY DEF Payload
<1>5. Cardinality(Payload(fs, 1, k) \cup New) =
        Cardinality(Payload(fs, 1, k)) + Cardinality(New) - Cardinality({})
  BY <1>2, <1>4, PayloadFinite, FS_Union
<1>6. /\ PayloadUnits(fs, 1, k) \in Nat
      /\ PayloadUnits(fs, 1, k) = Cardinality(Payload(fs, 1, k))
      /\ PayloadUnits(fs, 1, k + 1) = Cardinality(Payload(fs, 1, k + 1))
  BY PayloadFinite
<1>7. Cardinality({}) = 0
  BY FS_EmptySet
<1>8. PayloadUnits(fs, 1, k + 1) = PayloadUnits(fs, 1, k) + n - 0
  BY <1>2, <1>3, <1>5, <1>6, <1>7
<1> QED
  BY <1>0, <1>1, <1>6, <1>8

-----------------------------------------------------------------------------
(* Legal conversations.                                                    *)

(* Whether a frame is legal depends on it and on what came before it.      *)
LEMMA LegalAgree ==
  ASSUME NEW fs, NEW gs, NEW i \in Nat \ {0}, \A j \in 1..i : fs[j] = gs[j]
  PROVE  LegalAt(fs, i) <=> LegalAt(gs, i)
<1>1. fs[i] = gs[i] /\ \A j \in 1..(i - 1) : fs[j] = gs[j]
  OBVIOUS
<1>2. SameStream(fs, i) = SameStream(gs, i)
  BY <1>1 DEF SameStream
<1>3. \A j \in SameStream(fs, i) : fs[j] = gs[j]
  BY <1>1 DEF SameStream
<1>4. {fs[j] : j \in SameStream(fs, i)} = {gs[j] : j \in SameStream(gs, i)}
  BY <1>2, <1>3
<1> QED
  BY <1>1, <1>2, <1>4 DEF LegalAt

(* The definition, said of positions.                                      *)
LEMMA LegalAtPositions ==
  ASSUME NEW fs, NEW i
  PROVE  LegalAt(fs, i) <=>
           /\ Decodable(fs[i])
           /\ fs[i].seq = Cardinality(SameStream(fs, i))
           /\ \A j \in 1..(i - 1) : fs[j].type # "CLOSE"
           /\ fs[i].type = "TCP_OPEN" => SameStream(fs, i) = {}
           /\ fs[i].type = "TCP_DATA" =>
                /\ \E j \in SameStream(fs, i) : fs[j].type = "TCP_OPEN"
                /\ \A j \in SameStream(fs, i) : fs[j].flags = {}
           /\ fs[i].type = "L3_DATA" => \A j \in SameStream(fs, i) : fs[j].type = "L3_DATA"
<1> DEFINE S == SameStream(fs, i)
           Earlier == {fs[j] : j \in S}
<1> HIDE DEF S
<1>1. Earlier = {} <=> S = {}
  OBVIOUS
<1>2. (\E g \in Earlier : g.type = "TCP_OPEN") <=> \E j \in S : fs[j].type = "TCP_OPEN"
  OBVIOUS
<1>3. (\A g \in Earlier : g.flags = {}) <=> \A j \in S : fs[j].flags = {}
  OBVIOUS
<1>4. (\A g \in Earlier : g.type = "L3_DATA") <=> \A j \in S : fs[j].type = "L3_DATA"
  OBVIOUS
<1> HIDE DEF Earlier
<1>5. LegalAt(fs, i) <=>
        /\ Decodable(fs[i])
        /\ fs[i].seq = Cardinality(S)
        /\ \A j \in 1..(i - 1) : fs[j].type # "CLOSE"
        /\ fs[i].type = "TCP_OPEN" => Earlier = {}
        /\ fs[i].type = "TCP_DATA" => /\ \E g \in Earlier : g.type = "TCP_OPEN"
                                     /\ \A g \in Earlier : g.flags = {}
        /\ fs[i].type = "L3_DATA" => \A g \in Earlier : g.type = "L3_DATA"
  BY DEF LegalAt, Earlier, S
<1>6. S = SameStream(fs, i)
  BY DEF S
<1> QED
  BY <1>1, <1>2, <1>3, <1>4, <1>5, <1>6

(* A beginning of a conversation is legal when each of its frames is.      *)
LEMMA LegalSubSeq ==
  ASSUME NEW fs \in Seq(Frame), NEW k \in 0..Len(fs), CodecTypeOK
  PROVE  Legal(SubSeq(fs, 1, k)) <=> k <= limit /\ \A i \in 1..k : LegalAt(fs, i)
<1>1. /\ Len(SubSeq(fs, 1, k)) = k
      /\ \A i \in 1..k : SubSeq(fs, 1, k)[i] = fs[i]
  OBVIOUS
<1>2. ASSUME NEW i \in 1..k PROVE LegalAt(SubSeq(fs, 1, k), i) <=> LegalAt(fs, i)
  <2>1. i \in Nat \ {0} /\ \A j \in 1..i : SubSeq(fs, 1, k)[j] = fs[j]
    BY <1>1
  <2> QED
    BY <2>1, LegalAgree
<1> QED
  BY <1>1, <1>2 DEF Legal

(* The types the fields of a frame have, and what Frame.decode() allows.   *)
LEMMA FrameFields ==
  ASSUME NEW f \in Frame
  PROVE  /\ f.sid \in Streams /\ f.seq \in Nat /\ f.size \in Nat
         /\ f.flags \in SUBSET {"FIN", "RST", "RESERVED"}
         /\ Units(f) = Header + f.size /\ Units(f) \in Nat
  BY DEF Frame, Units, Header

LEMMA DecodableFrame ==
  ASSUME NEW f \in Frame, Decodable(f)
  PROVE  /\ f.size \in 0..MaxPayload
         /\ f.type \in Types
         /\ f.sid = 0 <=> f.type \in {"PING", "PONG", "CLOSE"}
         /\ f.type # "TCP_DATA" => f.flags = {}
         /\ "RESERVED" \notin f.flags
  BY FrameAssumption, FrameFields DEF Decodable, Semantics, Types

(* Where units are buffered a frame was written.                           *)
LEMMA BufferedFrame ==
  ASSUME CodecInv
  PROVE  /\ Buffered \in Nat
         /\ Buffered > 0 => count < Len(sent)
         /\ count < Len(sent) => count + 1 \in 1..Len(sent) /\ Current \in Frame
<1>1. /\ written \in Nat /\ arrived \in 0..written /\ consumed \in 0..arrived
      /\ count \in Nat /\ count <= Len(sent) /\ sent \in Seq(Frame)
  BY FrameAssumption DEF CodecInv, CodecTypeOK, FramesTaken
<1>2. count = Len(sent) => consumed = written
  BY DEF CodecInv, FramesOnWire, FrameEnds
<1>3. Buffered \in Nat /\ (Buffered > 0 => consumed < written)
  BY <1>1 DEF Buffered
<1>4. Len(sent) \in Nat
  BY <1>1
<1>5. count < Len(sent) => count + 1 \in 1..Len(sent)
  BY <1>1, <1>4
<1>6. count < Len(sent) => Current \in Frame
  BY <1>1, <1>5, ElementOfSeq DEF Current
<1> QED
  BY <1>1, <1>2, <1>3, <1>4, <1>5, <1>6

(* The decoder, which looks at its own state, accepts the next frame if    *)
(* and only if it is legal after the frames before it.                     *)
LEMMA AcceptableIsLegal ==
  ASSUME CodecInv, count < Len(sent)
  PROVE  Acceptable(Current) <=> count < limit /\ LegalAt(sent, count + 1)
<1>1. PICK f \in Frame : f = sent[count + 1] /\ f = Current
  BY BufferedFrame DEF Current
<1>2. /\ count \in Nat /\ sent \in Seq(Frame) /\ count + 1 \in 1..Len(sent)
      /\ f.sid \in Streams
      /\ kind[f.sid] \in {"none", "tcp", "l3"}
  BY <1>1, BufferedFrame, FrameFields, FrameAssumption DEF CodecInv, CodecTypeOK
<1> DEFINE E == SeenOn(f.sid)
<1>3. E = SameStream(sent, count + 1)
  BY <1>1, <1>2 DEF SeenOn, SameStream
<1>4. /\ nextSeq[f.sid] = Cardinality(E)
      /\ kind[f.sid] = "tcp" <=> \E i \in E : sent[i].type = "TCP_OPEN"
      /\ kind[f.sid] = "l3" <=> \E i \in E : sent[i].type = "L3_DATA"
      /\ f.sid \in closed <=> \E i \in E : sent[i].type = "TCP_DATA" /\ sent[i].flags # {}
      /\ connClosed <=> \E i \in 1..count : sent[i].type = "CLOSE"
  BY <1>2 DEF CodecInv, DecoderState
<1>5. Cardinality(E) = 0 <=> E = {}
  <2>1. IsFiniteSet(1..count) /\ E \in SUBSET (1..count)
    BY <1>2, FS_Interval DEF SeenOn
  <2>2. IsFiniteSet(E)
    BY <2>1, FS_Subset
  <2> QED
    BY <2>2, FS_EmptySet
<1>6. ASSUME NEW i \in E
      PROVE  /\ i \in 1..count /\ sent[i] \in Frame /\ sent[i].sid = f.sid
             /\ Decodable(sent[i]) /\ LegalAt(sent, i)
  <2>1. i \in 1..count /\ sent[i].sid = f.sid
    BY <1>6 DEF SeenOn
  <2>2. LegalAt(sent, i)
    BY <2>1 DEF CodecInv, FramesTaken
  <2>3. i \in 1..Len(sent)
    BY <1>2, <2>1
  <2>4. sent[i] \in Frame
    BY <1>2, <2>3, ElementOfSeq
  <2> QED
    BY <2>1, <2>2, <2>4, LegalAtPositions
<1>7. ASSUME NEW i \in E, sent[i].type = "TCP_DATA" PROVE \E j \in E : sent[j].type = "TCP_OPEN"
  <2>1. PICK j \in SameStream(sent, i) : sent[j].type = "TCP_OPEN"
    BY <1>6, <1>7 DEF LegalAt
  <2>2. j \in E
    BY <2>1, <1>6, <1>2 DEF SeenOn, SameStream
  <2> QED
    BY <2>1, <2>2
<1>8. LegalAt(sent, count + 1) <=>
        /\ Decodable(f)
        /\ f.seq = Cardinality(E)
        /\ \A j \in 1..count : sent[j].type # "CLOSE"
        /\ f.type = "TCP_OPEN" => E = {}
        /\ f.type = "TCP_DATA" => /\ \E j \in E : sent[j].type = "TCP_OPEN"
                                  /\ \A j \in E : sent[j].flags = {}
        /\ f.type = "L3_DATA" => \A j \in E : sent[j].type = "L3_DATA"
  <2>1. (count + 1) - 1 = count
    BY <1>2
  <2> HIDE DEF E
  <2> QED
    BY <1>1, <1>3, <2>1, LegalAtPositions, Zenon
<1>9. CASE ~Decodable(f)
  BY <1>1, <1>8, <1>9 DEF Acceptable
<1>10. CASE Decodable(f) /\ f.sid = 0
  <2>1. f.type \in {"PING", "PONG", "CLOSE"}
    BY <1>10, DecodableFrame
  <2> QED
    BY <1>1, <1>4, <1>8, <1>10, <2>1 DEF Acceptable, StreamAccepts
<1>11. CASE Decodable(f) /\ f.sid # 0
  <2>1. f.type \in {"TCP_OPEN", "TCP_DATA", "L3_DATA"}
    BY <1>11, DecodableFrame DEF Types
  <2>2. ASSUME NEW i \in E PROVE /\ sent[i].type \in {"TCP_OPEN", "TCP_DATA", "L3_DATA"}
                                 /\ sent[i].type # "TCP_DATA" => sent[i].flags = {}
    <3>1. sent[i] \in Frame /\ Decodable(sent[i]) /\ sent[i].sid # 0
      BY <1>6, <1>11
    <3> QED
      BY <3>1, DecodableFrame DEF Types
  <2>3. Acceptable(f) <=> /\ count < limit /\ f.seq = Cardinality(E) /\ ~connClosed
                          /\ f.sid \notin closed
                          /\ f.type = "TCP_OPEN" => kind[f.sid] = "none" /\ f.seq = 0
                          /\ f.type = "TCP_DATA" => kind[f.sid] = "tcp"
                          /\ f.type = "L3_DATA" => kind[f.sid] \in {"none", "l3"}
    BY <1>4, <1>11 DEF Acceptable, StreamAccepts
  <2>4. CASE f.type = "TCP_OPEN"
    BY <1>1, <1>2, <1>4, <1>5, <1>8, <1>11, <2>3, <2>4
  <2>5. CASE f.type = "TCP_DATA"
    BY <1>1, <1>2, <1>4, <1>8, <1>11, <2>2, <2>3, <2>5
  <2>6. CASE f.type = "L3_DATA"
    BY <1>1, <1>2, <1>4, <1>7, <1>8, <1>11, <2>2, <2>3, <2>6
  <2> QED
    BY <2>1, <2>4, <2>5, <2>6
<1> QED
  BY <1>9, <1>10, <1>11

-----------------------------------------------------------------------------
(* The decoder's steps keep its invariant.                                 *)

(* A codec that has decoded nothing, at most one frame being on the wire.  *)
FreshCodec ==
  /\ limit \in Limits
  /\ \/ sent = <<>> /\ written = 0
     \/ \E f \in Frame : sent = <<f>> /\ written = Units(f)
  /\ arrived = 0
  /\ status = "open"
  /\ consumed = 0
  /\ nextSeq = [s \in Streams |-> 0]
  /\ kind = [s \in Streams |-> "none"]
  /\ closed = {}
  /\ connClosed = FALSE
  /\ count = 0
  /\ batch = <<>>
  /\ delivered = <<>>

LEMMA FreshCodecInv == FreshCodec => CodecInv
<1> SUFFICES ASSUME FreshCodec PROVE CodecInv
  OBVIOUS
<1>1. /\ sent \in Seq(Frame) /\ Len(sent) \in {0, 1} /\ written \in Nat
      /\ Len(sent) = 0 => written = 0
      /\ Len(sent) = 1 => written = Units(sent[1])
  <2>1. CASE sent = <<>> /\ written = 0
    BY <2>1
  <2>2. CASE \E f \in Frame : sent = <<f>> /\ written = Units(f)
    BY <2>2, FrameFields
  <2> QED
    BY <2>1, <2>2 DEF FreshCodec
<1>2. count = 0 /\ consumed = 0 /\ arrived = 0 /\ 0 \in Nat /\ 1..0 = {}
  BY DEF FreshCodec
<1>3. CodecTypeOK
  <2>1. limit \in Nat \ {0}
    BY FrameAssumption DEF FreshCodec
  <2>2. connClosed \in BOOLEAN
    BY Zenon DEF FreshCodec
  <2>3. /\ nextSeq \in [Streams -> Nat] /\ kind \in [Streams -> {"none", "tcp", "l3"}]
        /\ limit \in Limits /\ count \in 0..limit
        /\ batch \in Seq(Frame) /\ delivered \in Seq(Frame)
    BY <2>1 DEF FreshCodec
  <2> QED
    BY <1>1, <1>2, <2>1, <2>2, <2>3 DEF FreshCodec, CodecTypeOK
<1>4. FramesOnWire
  <2> DEFINE ends == [i \in 0..Len(sent) |-> IF i = 0 THEN 0 ELSE written]
  <2>1. ends \in [0..Len(sent) -> 0..written]
    BY <1>1
  <2>2. FrameEnds(ends)
    BY <1>1, <1>2 DEF FrameEnds
  <2> QED
    BY <2>1, <2>2 DEF FramesOnWire
<1>5. FramesTaken
  BY <1>1, <1>2, PayloadEmpty DEF FreshCodec, FramesTaken, Header
<1>6. DecoderState
  <2>1. \A s : SeenOn(s) = {}
    BY <1>2 DEF SeenOn
  <2> QED
    BY <1>2, <2>1, FS_EmptySet DEF FreshCodec, DecoderState
<1>7. StatusOK
  BY <1>2 DEF StatusOK, FreshCodec, Buffered, Header
<1> QED
  BY <1>3, <1>4, <1>5, <1>6, <1>7 DEF CodecInv

(* The peer writes a frame behind those that are there.                    *)
LEMMA WriteKeepsCodec ==
  ASSUME CodecInv, NEW f \in Frame, Write(f)
  PROVE  CodecInv'
<1>1. PICK n \in Nat : n = Len(sent)
  BY DEF CodecInv, CodecTypeOK
<1>2. PICK u \in Nat : u = Units(f)
  BY FrameFields
<1>3. /\ sent \in Seq(Frame) /\ count \in 0..n /\ written \in Nat
      /\ arrived \in 0..written /\ consumed \in 0..arrived
      /\ count \in 0..limit
  BY <1>1, FrameAssumption DEF CodecInv, CodecTypeOK, FramesTaken
<1>4. /\ sent' \in Seq(Frame) /\ Len(sent') = n + 1 /\ sent'[n + 1] = f
      /\ \A i \in 1..n : sent'[i] = sent[i]
  BY <1>1, <1>3, AppendProperties DEF Write
<1>5. /\ written' = written + u
      /\ limit' = limit /\ arrived' = arrived /\ status' = status /\ consumed' = consumed
      /\ nextSeq' = nextSeq /\ kind' = kind /\ closed' = closed /\ connClosed' = connClosed
      /\ count' = count /\ batch' = batch /\ delivered' = delivered
  BY <1>2 DEF Write, streamVars
<1>6. CodecTypeOK'
  BY <1>3, <1>4, <1>5 DEF CodecInv, CodecTypeOK
<1>7. FramesOnWire'
  <2>1. PICK ends \in [0..n -> 0..written] : FrameEnds(ends)
    BY <1>1 DEF CodecInv, FramesOnWire
  <2>0. PICK w \in Nat : w = written + u
    BY <1>3
  <2> DEFINE new == [i \in 0..(n + 1) |-> IF i = n + 1 THEN w ELSE ends[i]]
  <2>2. new \in [0..Len(sent') -> 0..written']
    BY <1>3, <1>4, <1>5, <2>0
  <2>3. /\ new[0] = 0 /\ new[count'] = consumed' /\ new[Len(sent')] = written'
    BY <1>1, <1>3, <1>4, <1>5, <2>0, <2>1 DEF FrameEnds
  <2>4. ASSUME NEW i \in 1..(n + 1) PROVE new[i] = new[i - 1] + Units(sent'[i])
    <3>1. CASE i = n + 1
      BY <1>1, <1>2, <1>4, <2>0, <2>1, <3>1 DEF FrameEnds
    <3>2. CASE i \in 1..n
      BY <1>1, <1>4, <2>1, <3>2 DEF FrameEnds
    <3> QED
      BY <3>1, <3>2
  <2> HIDE DEF new
  <2>5. FrameEnds(new)'
    BY <1>4, <2>3, <2>4 DEF FrameEnds
  <2> QED
    BY <2>2, <2>5 DEF FramesOnWire
<1>8. \A i \in 1..count : sent'[i] = sent[i]
  BY <1>3, <1>4
<1>9. FramesTaken'
  <2>1. ASSUME NEW i \in 1..count PROVE LegalAt(sent', i)
    <3>1. i \in Nat \ {0} /\ \A j \in 1..i : sent'[j] = sent[j]
      BY <1>3, <1>8
    <3>2. LegalAt(sent, i)
      BY DEF CodecInv, FramesTaken
    <3> QED
      BY ONLY <3>1, <3>2, LegalAgree
  <2>2. PayloadUnits(sent', 1, count) = PayloadUnits(sent, 1, count)
    <3>1. count \in Nat /\ 1 \in Nat
      BY <1>3
    <3> QED
      BY ONLY <3>1, <1>8, PayloadAgree
  <2>3. /\ Len(delivered) \in Nat /\ Len(batch) \in Nat /\ Len(delivered) + Len(batch) <= count
    BY DEF CodecInv, CodecTypeOK, FramesTaken
  <2>4. /\ \A i \in 1..Len(delivered) : delivered[i] = sent'[i]
        /\ \A i \in 1..Len(batch) : batch[i] = sent'[Len(delivered) + i]
    BY <1>3, <1>8, <2>3 DEF CodecInv, FramesTaken
  <2> QED
    BY <1>3, <1>4, <1>5, <2>1, <2>2, <2>4 DEF CodecInv, FramesTaken
<1>10. DecoderState'
  <2>1. \A s : SeenOn(s)' = SeenOn(s)
    BY <1>5, <1>8 DEF SeenOn
  <2>2. \A s : \A i \in SeenOn(s) : sent'[i] = sent[i]
    BY <1>8 DEF SeenOn
  <2> QED
    BY <1>5, <1>8, <2>1, <2>2 DEF CodecInv, DecoderState
<1>11. StatusOK'
  <2>1. ASSUME count < n PROVE Current' = Current /\ (LegalAt(sent', count + 1) <=> LegalAt(sent, count + 1))
    <3>1. count + 1 \in Nat \ {0} /\ \A j \in 1..(count + 1) : sent'[j] = sent[j]
      BY <1>3, <1>4, <2>1
    <3>2. LegalAt(sent', count + 1) <=> LegalAt(sent, count + 1)
      BY ONLY <3>1, LegalAgree
    <3>3. count + 1 \in 1..(count + 1)
      BY <1>3
    <3> QED
      BY <1>5, <3>1, <3>2, <3>3 DEF Current
  <2>2. Buffered' = Buffered /\ Buffered \in Nat /\ (Buffered >= Header => count < n)
    BY <1>1, <1>5, BufferedFrame DEF Buffered, Header
  <2>3. status = "open" => (Buffered < Header \/ (HeaderOK(Current) /\ ~Complete(Current)))'
    BY <2>1, <2>2 DEF CodecInv, StatusOK, Complete, Header
  <2>4. status = "failed" => count < Len(sent') /\ (count < limit => ~LegalAt(sent', count + 1))
    BY <1>1, <1>3, <1>4, <2>1 DEF CodecInv, StatusOK
  <2>5. CleanEnd' <=> CleanEnd
    BY <1>5, <2>2 DEF CleanEnd
  <2> QED
    BY <1>5, <2>3, <2>4, <2>5 DEF CodecInv, StatusOK
<1> QED
  BY <1>6, <1>7, <1>9, <1>10, <1>11 DEF CodecInv

(* A round of feed() that decodes a frame.                                 *)
LEMMA DecodeKeepsCodec ==
  ASSUME CodecInv, Decode
  PROVE  CodecInv'
<1>1. /\ count < Len(sent) /\ count + 1 \in 1..Len(sent) /\ Current \in Frame
  BY BufferedFrame DEF Decode, Header
<1>2. PICK f \in Frame : f = sent[count + 1] /\ f = Current
  BY <1>1 DEF Current
<1>3. count < limit /\ LegalAt(sent, count + 1)
  BY <1>1, AcceptableIsLegal DEF Decode
<1>4. /\ sent \in Seq(Frame) /\ count \in Nat /\ written \in Nat
      /\ arrived \in 0..written /\ consumed \in 0..arrived
      /\ limit \in Nat
      /\ batch \in Seq(Frame) /\ delivered \in Seq(Frame)
  BY FrameAssumption DEF CodecInv, CodecTypeOK
<1>5. PICK u \in Nat : u = Units(f) /\ u = 2 + f.size /\ f.size \in Nat
  BY FrameFields DEF Header
<1>6. /\ limit' = limit /\ sent' = sent /\ written' = written
      /\ arrived' = arrived /\ status' = status /\ delivered' = delivered
      /\ count' = count + 1 /\ consumed' = consumed + u
      /\ batch' = Append(batch, f)
      /\ status = "feeding"
  BY <1>2, <1>5 DEF Decode, peerVars
<1>7. /\ Decodable(f)
      /\ f.size \in 0..MaxPayload
      /\ f.type \in Types
      /\ f.sid \in Streams
      /\ f.sid = 0 <=> f.type \in {"PING", "PONG", "CLOSE"}
  <2>1. Decodable(f)
    BY <1>2, <1>3, LegalAtPositions
  <2> QED
    BY <2>1, DecodableFrame, FrameFields
<1>8. consumed + u <= arrived
  BY <1>2, <1>4, <1>5 DEF Decode, Complete, Buffered
<1>9. CodecTypeOK'
  <2>1. nextSeq' \in [Streams -> Nat]
    BY <1>2, <1>7 DEF Decode, Advance, CodecInv, CodecTypeOK
  <2>2. kind' \in [Streams -> {"none", "tcp", "l3"}]
    BY <1>2, <1>7 DEF Decode, Advance, CodecInv, CodecTypeOK
  <2>3. closed' \in SUBSET (Streams \ {0})
    BY <1>2, <1>7 DEF Decode, Advance, CodecInv, CodecTypeOK
  <2>4. connClosed' \in BOOLEAN
    BY Zenon DEF Decode, Advance
  <2>5. batch' \in Seq(Frame)
    BY <1>4, <1>6, AppendProperties
  <2>6. consumed' \in 0..arrived' /\ count' \in 0..limit'
    BY <1>3, <1>4, <1>5, <1>6, <1>8
  <2> QED
    BY <1>4, <1>6, <2>1, <2>2, <2>3, <2>4, <2>5, <2>6 DEF CodecInv, CodecTypeOK
<1>10. FramesOnWire'
  <2>1. PICK ends \in [0..Len(sent) -> 0..written] : FrameEnds(ends)
    BY DEF CodecInv, FramesOnWire
  <2>2. (count + 1) - 1 = count
    BY <1>4
  <2>3. ends[count + 1] = consumed + u
    BY <1>1, <1>2, <1>5, <2>1, <2>2 DEF FrameEnds
  <2>4. FrameEnds(ends)'
    BY <1>6, <2>1, <2>3 DEF FrameEnds
  <2> QED
    BY <1>6, <2>1, <2>4 DEF FramesOnWire
<1>11. FramesTaken'
  <2>1. /\ Len(batch') = Len(batch) + 1 /\ batch'[Len(batch) + 1] = f
        /\ \A i \in 1..Len(batch) : batch'[i] = batch[i]
        /\ Len(batch) \in Nat /\ Len(delivered) \in Nat
    BY <1>4, <1>6, AppendProperties
  <2>2. Len(delivered) + Len(batch) = count
    BY <1>6 DEF CodecInv, FramesTaken
  <2>3. \A i \in 1..Len(batch') : batch'[i] = sent[Len(delivered) + i]
    <3> SUFFICES ASSUME NEW i \in 1..Len(batch') PROVE batch'[i] = sent[Len(delivered) + i]
      OBVIOUS
    <3>1. CASE i \in 1..Len(batch)
      BY <2>1, <3>1 DEF CodecInv, FramesTaken
    <3>2. CASE i = Len(batch) + 1
      <4>1. Len(delivered) + i = count + 1
        BY <2>1, <2>2, <3>2
      <4> QED
        BY <1>2, <2>1, <3>2, <4>1
    <3> QED
      BY <2>1, <3>1, <3>2
  <2>4. \A i \in 1..(count + 1) : LegalAt(sent, i)
    <3>1. \A i \in 1..count : LegalAt(sent, i)
      BY DEF CodecInv, FramesTaken
    <3>2. \A i \in 1..(count + 1) : i \in 1..count \/ i = count + 1
      BY <1>4
    <3> QED
      BY <1>3, <3>1, <3>2, Zenon
  <2>5. PayloadUnits(sent, 1, count + 1) = PayloadUnits(sent, 1, count) + f.size
    BY <1>2, <1>4, <1>7, PayloadNext
  <2>6. PICK p \in Nat : p = PayloadUnits(sent, 1, count)
    BY <1>4, PayloadFinite
  <2>7. consumed + u = Header * (count + 1) + PayloadUnits(sent, 1, count + 1)
    <3>1. consumed = 2 * count + p
      BY <2>6 DEF CodecInv, FramesTaken, Header
    <3>2. PICK c \in Nat, z \in Nat : c = count /\ z = f.size
      BY <1>4, <1>5
    <3>3. (2 * c + p) + (2 + z) = 2 * (c + 1) + (p + z)
      BY <2>6, <3>2
    <3> QED
      BY <1>5, <2>5, <2>6, <3>1, <3>2, <3>3 DEF Header
  <2>8. count + 1 <= Len(sent) /\ Len(delivered) + Len(batch') = count + 1
    BY <1>1, <2>1, <2>2
  <2> QED
    BY <1>6, <2>3, <2>4, <2>7, <2>8 DEF CodecInv, FramesTaken
<1>12. DecoderState'
  <2>0. \A s : SeenOn(s)' = {i \in (1..count) \cup {count + 1} : sent[i].sid = s}
    <3>1. 1..(count + 1) = (1..count) \cup {count + 1}
      BY <1>4
    <3> QED
      BY <1>6, <3>1 DEF SeenOn
  <2>1. SeenOn(f.sid)' = SeenOn(f.sid) \cup {count + 1}
    <3>1. {i \in (1..count) \cup {count + 1} : sent[i].sid = f.sid} =
            {i \in 1..count : sent[i].sid = f.sid} \cup {count + 1}
      BY ONLY <1>2
    <3> QED
      BY <2>0, <3>1 DEF SeenOn
  <2>2. ASSUME NEW s, s # f.sid PROVE SeenOn(s)' = SeenOn(s)
    <3>1. {i \in (1..count) \cup {count + 1} : sent[i].sid = s} =
            {i \in 1..count : sent[i].sid = s}
      BY ONLY <1>2, <2>2
    <3> QED
      BY <2>0, <3>1 DEF SeenOn
  <2>3. \A s : IsFiniteSet(SeenOn(s)) /\ count + 1 \notin SeenOn(s)
    <3> SUFFICES ASSUME NEW s PROVE IsFiniteSet(SeenOn(s)) /\ count + 1 \notin SeenOn(s)
      OBVIOUS
    <3>1. IsFiniteSet(1..count) /\ SeenOn(s) \in SUBSET (1..count)
      BY <1>4, FS_Interval DEF SeenOn
    <3>2. count + 1 \notin SeenOn(s)
      BY <1>4 DEF SeenOn
    <3> QED
      BY <3>1, <3>2, FS_Subset
  <2>4. \A s \in Streams : nextSeq'[s] = Cardinality(SeenOn(s)')
    <3>1. Cardinality(SeenOn(f.sid)') = Cardinality(SeenOn(f.sid)) + 1
      BY <2>1, <2>3, FS_AddElement
    <3>2. nextSeq \in [Streams -> Nat] /\ nextSeq' = [nextSeq EXCEPT ![f.sid] = @ + 1]
      BY <1>2 DEF Decode, Advance, CodecInv, CodecTypeOK
    <3>3. \A s \in Streams : nextSeq[s] = Cardinality(SeenOn(s))
      BY DEF CodecInv, DecoderState
    <3> QED
      BY <1>7, <2>2, <3>1, <3>2, <3>3
  <2>5. SameStream(sent, count + 1) = SeenOn(f.sid)
    BY <1>2, <1>4 DEF SeenOn, SameStream
  <2>6. /\ f.type = "TCP_OPEN" => SeenOn(f.sid) = {}
        /\ f.type = "L3_DATA" => \A j \in SeenOn(f.sid) : sent[j].type = "L3_DATA"
    BY <1>2, <1>3, <2>5, LegalAtPositions
  <2>7. \A s \in Streams : kind'[s] = IF s # f.sid THEN kind[s]
                                      ELSE CASE f.type = "TCP_OPEN" -> "tcp"
                                             [] f.type = "L3_DATA" -> "l3"
                                             [] OTHER -> kind[s]
    BY <1>2 DEF Decode, Advance, CodecInv, CodecTypeOK
  <2>8. \A s \in Streams :
          /\ kind[s] = "tcp" <=> \E i \in SeenOn(s) : sent[i].type = "TCP_OPEN"
          /\ kind[s] = "l3" <=> \E i \in SeenOn(s) : sent[i].type = "L3_DATA"
    BY DEF CodecInv, DecoderState
  <2>9. \A s \in Streams :
          /\ kind'[s] = "tcp" <=> \E i \in SeenOn(s)' : sent[i].type = "TCP_OPEN"
          /\ kind'[s] = "l3" <=> \E i \in SeenOn(s)' : sent[i].type = "L3_DATA"
    <3> SUFFICES ASSUME NEW s \in Streams
                 PROVE  /\ kind'[s] = "tcp" <=> \E i \in SeenOn(s)' : sent[i].type = "TCP_OPEN"
                        /\ kind'[s] = "l3" <=> \E i \in SeenOn(s)' : sent[i].type = "L3_DATA"
      OBVIOUS
    <3>1. CASE s # f.sid
      BY <2>2, <2>7, <2>8, <3>1
    <3>2. CASE s = f.sid /\ f.type = "TCP_OPEN"
      BY <1>2, <2>1, <2>6, <2>7, <3>2
    <3>3. CASE s = f.sid /\ f.type = "L3_DATA"
      BY <1>2, <2>1, <2>6, <2>7, <3>3
    <3>4. CASE s = f.sid /\ f.type \notin {"TCP_OPEN", "L3_DATA"}
      <4>1. kind'[s] = kind[s]
        BY <2>7, <3>4
      <4>2. \A i \in SeenOn(s)' : sent[i].type \in {"TCP_OPEN", "L3_DATA"} => i \in SeenOn(s)
        BY <1>2, <2>1, <3>4
      <4> QED
        BY <2>1, <2>8, <3>4, <4>1, <4>2
    <3> QED
      BY <3>1, <3>2, <3>3, <3>4
  <2>10. \A s \in Streams :
           s \in closed' <=> \E i \in SeenOn(s)' : sent[i].type = "TCP_DATA" /\ sent[i].flags # {}
    <3>1. \A s \in Streams :
            s \in closed <=> \E i \in SeenOn(s) : sent[i].type = "TCP_DATA" /\ sent[i].flags # {}
      BY DEF CodecInv, DecoderState
    <3>2. closed' = IF f.type = "TCP_DATA" /\ f.flags # {} THEN closed \cup {f.sid} ELSE closed
      BY <1>2 DEF Decode, Advance
    <3> QED
      BY <1>2, <2>1, <2>2, <3>1, <3>2
  <2>11. connClosed' <=> \E i \in 1..(count + 1) : sent[i].type = "CLOSE"
    <3>1. connClosed <=> \E i \in 1..count : sent[i].type = "CLOSE"
      BY DEF CodecInv, DecoderState
    <3>2. connClosed' <=> connClosed \/ f.type = "CLOSE"
      BY <1>2 DEF Decode, Advance
    <3>3. 1..(count + 1) = (1..count) \cup {count + 1}
      BY <1>4
    <3> QED
      BY <1>2, <3>1, <3>2, <3>3, Zenon
  <2> QED
    BY <1>6, <2>4, <2>9, <2>10, <2>11 DEF DecoderState
<1>13. StatusOK'
  BY <1>6 DEF StatusOK
<1> QED
  BY <1>9, <1>10, <1>11, <1>12, <1>13 DEF CodecInv

(* The other steps leave the frames and the state of the streams alone.    *)
LEMMA SameFrames ==
  ASSUME CodecInv, UNCHANGED <<peerVars, streamVars, consumed, count>>
  PROVE  FramesOnWire' /\ DecoderState'
<1>1. /\ sent' = sent /\ written' = written /\ consumed' = consumed /\ count' = count
      /\ nextSeq' = nextSeq /\ kind' = kind /\ closed' = closed /\ connClosed' = connClosed
  BY DEF peerVars, streamVars
<1>2. FramesOnWire'
  BY <1>1 DEF CodecInv, FramesOnWire, FrameEnds
<1>3. DecoderState'
  BY <1>1 DEF CodecInv, DecoderState, SeenOn
<1> QED
  BY <1>2, <1>3

(* A piece of the stream arrives.                                          *)
LEMMA FeedKeepsCodec ==
  ASSUME CodecInv, NEW n \in Nat, Feed(n)
  PROVE  CodecInv'
<1>1. /\ limit' = limit /\ sent' = sent /\ written' = written /\ consumed' = consumed
      /\ count' = count /\ delivered' = delivered
      /\ nextSeq' = nextSeq /\ kind' = kind /\ closed' = closed /\ connClosed' = connClosed
      /\ arrived' = arrived + n /\ status' = "feeding" /\ batch' = <<>> /\ batch = <<>>
      /\ arrived + n <= written /\ status = "open"
  BY DEF Feed, peerVars, streamVars, CodecInv, FramesTaken
<1>2. FramesOnWire' /\ DecoderState'
  BY SameFrames DEF Feed
<1>3. CodecTypeOK'
  BY <1>1 DEF CodecInv, CodecTypeOK
<1>4. FramesTaken'
  BY <1>1 DEF CodecInv, FramesTaken
<1>5. StatusOK'
  BY <1>1 DEF StatusOK
<1> QED
  BY <1>2, <1>3, <1>4, <1>5 DEF CodecInv

(* feed() raises: the frame it is at is one too many or not legal.         *)
LEMMA RejectKeepsCodec ==
  ASSUME CodecInv, Reject
  PROVE  CodecInv'
<1>1. /\ limit' = limit /\ sent' = sent /\ written' = written /\ consumed' = consumed
      /\ count' = count /\ delivered' = delivered /\ arrived' = arrived
      /\ nextSeq' = nextSeq /\ kind' = kind /\ closed' = closed /\ connClosed' = connClosed
      /\ status' = "failed" /\ batch' = <<>>
  BY DEF Reject, peerVars, streamVars
<1>2. FramesOnWire' /\ DecoderState'
  BY SameFrames DEF Reject
<1>3. CodecTypeOK'
  BY <1>1 DEF CodecInv, CodecTypeOK
<1>4. count < Len(sent) /\ Current = sent[count + 1]
  BY BufferedFrame DEF Reject, Current, Header
<1>5. count < limit => ~LegalAt(sent, count + 1)
  <2>1. ~HeaderOK(Current) => ~Decodable(Current)
    BY DEF HeaderOK, Decodable
  <2>2. ~Acceptable(Current) \/ ~Decodable(Current)
    BY <2>1 DEF Reject
  <2>3. ~Decodable(Current) => ~LegalAt(sent, count + 1)
    BY <1>4, LegalAtPositions
  <2> QED
    BY <1>4, <2>2, <2>3, AcceptableIsLegal
<1>6. FramesTaken'
  <2>1. /\ Len(delivered) \in Nat /\ Len(batch) \in Nat /\ count \in Nat
        /\ Len(delivered) + Len(batch) <= count
    BY FrameAssumption DEF CodecInv, CodecTypeOK, FramesTaken
  <2>2. Len(delivered) + Len(<<>>) <= count
    BY <2>1
  <2> QED
    BY <1>1, <2>2 DEF CodecInv, FramesTaken
<1>7. StatusOK'
  BY <1>1, <1>4, <1>5 DEF StatusOK
<1> QED
  BY <1>2, <1>3, <1>6, <1>7 DEF CodecInv

(* feed() returns the frames of its batch.                                 *)
LEMMA ReturnKeepsCodec ==
  ASSUME CodecInv, ReturnFrames
  PROVE  /\ CodecInv'
         /\ delivered' = delivered \o batch
         /\ Len(delivered') = count'
         /\ \A i \in 1..Len(delivered') : delivered'[i] = sent[i]
<1>1. /\ limit' = limit /\ sent' = sent /\ written' = written /\ consumed' = consumed
      /\ count' = count /\ arrived' = arrived
      /\ nextSeq' = nextSeq /\ kind' = kind /\ closed' = closed /\ connClosed' = connClosed
      /\ status' = "open" /\ batch' = <<>> /\ delivered' = delivered \o batch
      /\ status = "feeding"
  BY DEF ReturnFrames, peerVars, streamVars
<1>2. FramesOnWire' /\ DecoderState'
  BY SameFrames DEF ReturnFrames
<1>3. /\ batch \in Seq(Frame) /\ delivered \in Seq(Frame)
      /\ Len(batch) \in Nat /\ Len(delivered) \in Nat /\ Len(delivered) + Len(batch) = count
  BY <1>1 DEF CodecInv, CodecTypeOK, FramesTaken
<1>4. /\ delivered' \in Seq(Frame) /\ Len(delivered') = count
      /\ \A i \in 1..count : delivered'[i] = IF i <= Len(delivered) THEN delivered[i]
                                             ELSE batch[i - Len(delivered)]
  BY <1>1, <1>3, ConcatProperties
<1>5. CodecTypeOK'
  BY <1>1, <1>4 DEF CodecInv, CodecTypeOK
<1>6. ASSUME NEW i \in 1..count PROVE delivered'[i] = sent[i]
  <2>1. CASE i <= Len(delivered)
    BY <1>3, <1>4, <2>1 DEF CodecInv, FramesTaken
  <2>2. CASE i > Len(delivered)
    <3>1. i - Len(delivered) \in 1..Len(batch) /\ Len(delivered) + (i - Len(delivered)) = i
      BY <1>3, <2>2
    <3>2. batch[i - Len(delivered)] = sent[Len(delivered) + (i - Len(delivered))]
      BY <3>1 DEF CodecInv, FramesTaken
    <3> QED
      BY <1>3, <1>4, <2>2, <3>1, <3>2
  <2> QED
    BY <1>3, <2>1, <2>2
<1>7. FramesTaken'
  <2>1. Len(delivered') + Len(<<>>) = count
    BY <1>3, <1>4
  <2> QED
    BY <1>1, <1>4, <1>6, <2>1 DEF CodecInv, FramesTaken
<1>8. StatusOK'
  <2>1. Buffered' = Buffered /\ Current' = Current /\ Buffered \in Nat
    BY <1>1, BufferedFrame DEF Buffered, Current
  <2>2. Buffered < Header \/ (HeaderOK(Current) /\ ~Complete(Current))
    BY <2>1 DEF ReturnFrames, Header
  <2> QED
    BY <1>1, <2>1, <2>2 DEF StatusOK, Complete
<1> QED
  BY <1>1, <1>2, <1>4, <1>5, <1>6, <1>7, <1>8 DEF CodecInv

(* finish() gives its verdict.                                             *)
LEMMA FinishKeepsCodec ==
  ASSUME CodecInv, Finish
  PROVE  CodecInv' /\ sent' = sent /\ delivered' = delivered /\ limit' = limit
<1>1. /\ limit' = limit /\ sent' = sent /\ written' = written /\ consumed' = consumed
      /\ count' = count /\ delivered' = delivered /\ arrived' = arrived /\ batch' = batch
      /\ nextSeq' = nextSeq /\ kind' = kind /\ closed' = closed /\ connClosed' = connClosed
      /\ status' = (IF CleanEnd THEN "finished" ELSE "truncated") /\ status = "open"
  BY DEF Finish, peerVars, streamVars
<1>2. FramesOnWire' /\ DecoderState'
  BY SameFrames DEF Finish
<1>3. CodecTypeOK'
  BY <1>1 DEF CodecInv, CodecTypeOK
<1>4. FramesTaken'
  BY <1>1 DEF CodecInv, FramesTaken
<1>5. StatusOK'
  <2>1. CleanEnd' <=> CleanEnd
    BY <1>1 DEF CleanEnd, Buffered
  <2> QED
    BY <1>1, <2>1 DEF StatusOK
<1> QED
  BY <1>1, <1>2, <1>3, <1>4, <1>5 DEF CodecInv

LEMMA IdleKeepsCodec ==
  ASSUME CodecInv, UNCHANGED codecVars
  PROVE  CodecInv'
<1>1. /\ limit' = limit /\ sent' = sent /\ written' = written /\ consumed' = consumed
      /\ count' = count /\ delivered' = delivered /\ arrived' = arrived /\ batch' = batch
      /\ nextSeq' = nextSeq /\ kind' = kind /\ closed' = closed /\ connClosed' = connClosed
      /\ status' = status
  BY DEF codecVars, peerVars, streamVars
<1>2. FramesOnWire' /\ DecoderState'
  BY SameFrames DEF codecVars
<1>3. CodecTypeOK'
  BY <1>1 DEF CodecInv, CodecTypeOK
<1>4. FramesTaken'
  BY <1>1 DEF CodecInv, FramesTaken
<1>5. StatusOK'
  <2>1. (CleanEnd' <=> CleanEnd) /\ Buffered' = Buffered /\ Current' = Current
    BY <1>1 DEF CleanEnd, Buffered, Current
  <2> QED
    BY <1>1, <2>1 DEF CodecInv, StatusOK, Complete
<1> QED
  BY <1>2, <1>3, <1>4, <1>5 DEF CodecInv

-----------------------------------------------------------------------------
(* What the invariant of the decoder says of its results.                  *)

(* The frames feed() has returned.                                         *)
LEMMA DeliveredFrames ==
  ASSUME CodecInv
  PROVE  /\ sent \in Seq(Frame) /\ delivered \in Seq(Frame)
         /\ count \in Nat /\ count <= Len(sent) /\ count <= limit /\ limit \in Nat
         /\ Len(delivered) \in Nat /\ Len(sent) \in Nat /\ Len(delivered) <= count
         /\ status \notin {"failed", "feeding"} => Len(delivered) = count
         /\ \A i \in 1..Len(delivered) : delivered[i] = sent[i]
         /\ \A i \in 1..count : sent[i] \in Frame /\ Decodable(sent[i]) /\ LegalAt(sent, i)
<1>1. /\ sent \in Seq(Frame) /\ delivered \in Seq(Frame)
      /\ count \in Nat /\ count <= Len(sent) /\ count <= limit /\ limit \in Nat
      /\ Len(delivered) \in Nat /\ Len(sent) \in Nat /\ Len(batch) \in Nat
      /\ Len(delivered) + Len(batch) <= count
      /\ status # "failed" => Len(delivered) + Len(batch) = count
      /\ status # "feeding" => Len(batch) = 0
      /\ \A i \in 1..Len(delivered) : delivered[i] = sent[i]
      /\ \A i \in 1..count : LegalAt(sent, i)
  BY FrameAssumption DEF CodecInv, CodecTypeOK, FramesTaken
<1>2. \A i \in 1..count : sent[i] \in Frame
  BY <1>1, ElementOfSeq
<1>3. \A i \in 1..count : Decodable(sent[i])
  BY <1>1, LegalAtPositions
<1> QED
  BY <1>1, <1>2, <1>3

(* Which TCP streams were opened and ended.                                *)
LEMMA StreamsSeen ==
  ASSUME CodecInv
  PROVE  \A s \in Streams :
           /\ kind[s] = "tcp" <=> \E i \in 1..count : sent[i].sid = s /\ sent[i].type = "TCP_OPEN"
           /\ s \in closed <=> \E i \in 1..count : /\ sent[i].sid = s
                                                   /\ sent[i].type = "TCP_DATA"
                                                   /\ sent[i].flags # {}
<1>1. \A s \in Streams :
        /\ kind[s] = "tcp" <=> \E i \in SeenOn(s) : sent[i].type = "TCP_OPEN"
        /\ s \in closed <=> \E i \in SeenOn(s) : sent[i].type = "TCP_DATA" /\ sent[i].flags # {}
  BY DEF CodecInv, DecoderState
<1>2. \A s, i : i \in SeenOn(s) <=> i \in 1..count /\ sent[i].sid = s
  BY DEF SeenOn
<1>3. ASSUME NEW s
      PROVE  /\ (\E i \in SeenOn(s) : sent[i].type = "TCP_OPEN") <=>
                  \E i \in 1..count : sent[i].sid = s /\ sent[i].type = "TCP_OPEN"
             /\ (\E i \in SeenOn(s) : sent[i].type = "TCP_DATA" /\ sent[i].flags # {}) <=>
                  \E i \in 1..count : /\ sent[i].sid = s
                                      /\ sent[i].type = "TCP_DATA"
                                      /\ sent[i].flags # {}
  BY ONLY <1>2, Zenon
<1> QED
  BY ONLY <1>1, <1>3

LEMMA CodecDelivers == CodecInv => DeliversLegalPrefix
<1> SUFFICES ASSUME CodecInv PROVE DeliversLegalPrefix
  OBVIOUS
<1>1. PICK k \in Nat : k = Len(delivered)
  BY DeliveredFrames
<1>2. k \in 0..Len(sent) /\ k <= limit /\ k <= count
  BY <1>1, DeliveredFrames
<1>3. /\ SubSeq(sent, 1, k) \in Seq(Frame)
      /\ Len(SubSeq(sent, 1, k)) = k
      /\ \A i \in 1..k : SubSeq(sent, 1, k)[i] = sent[i]
  BY <1>2, DeliveredFrames
<1>4. delivered = SubSeq(sent, 1, k)
  BY <1>1, <1>3, DeliveredFrames, SeqEqual
<1>5. \A i \in 1..k : LegalAt(sent, i)
  BY <1>2, DeliveredFrames
<1>6. Legal(SubSeq(sent, 1, k))
  BY <1>2, <1>5, DeliveredFrames, LegalSubSeq DEF CodecInv
<1> QED
  BY <1>1, <1>2, <1>4, <1>6 DEF DeliversLegalPrefix

LEMMA CodecRejects == CodecInv => RejectsOnlyIllegal
<1> SUFFICES ASSUME CodecInv, status = "failed", Legal(SubSeq(sent, 1, count + 1))
             PROVE  FALSE
  BY DEF RejectsOnlyIllegal
<1>1. count < Len(sent) /\ (count < limit => ~LegalAt(sent, count + 1))
  BY DEF CodecInv, StatusOK
<1>2. count + 1 \in 0..Len(sent)
  BY <1>1, DeliveredFrames
<1>3. count + 1 <= limit /\ \A i \in 1..(count + 1) : LegalAt(sent, i)
  BY <1>2, DeliveredFrames, LegalSubSeq DEF CodecInv
<1> QED
  BY <1>1, <1>3, DeliveredFrames

LEMMA CodecFinishes == CodecInv => FinishNoticesCut
<1> SUFFICES ASSUME CodecInv, status \in {"finished", "truncated"}
             PROVE  status = "finished" <=> WholeFramesArrived /\ StreamsEnded
  BY DEF FinishNoticesCut
<1>1. status = "finished" <=> CleanEnd
  BY DEF CodecInv, StatusOK
<1>2. Len(delivered) = count
  BY DeliveredFrames
<1>3. /\ consumed = Header * count + PayloadUnits(sent, 1, count)
      /\ arrived \in Nat /\ consumed \in Nat
  BY DEF CodecInv, FramesTaken, CodecTypeOK
<1>4. Buffered = 0 <=> arrived = consumed
  BY <1>3 DEF Buffered
<1>5. WholeFramesArrived <=> Buffered = 0
  <2>1. ASSUME WholeFramesArrived PROVE Buffered = 0
    <3>1. PICK k \in 0..Len(sent) : /\ delivered = SubSeq(sent, 1, k)
                                    /\ arrived = Header * k + PayloadUnits(sent, 1, k)
      BY <2>1 DEF WholeFramesArrived
    <3>2. Len(SubSeq(sent, 1, k)) = k
      BY DeliveredFrames
    <3> QED
      BY <1>2, <1>3, <1>4, <3>1, <3>2
  <2>2. ASSUME Buffered = 0 PROVE WholeFramesArrived
    <3>1. count \in 0..Len(sent)
      BY DeliveredFrames
    <3>2. delivered = SubSeq(sent, 1, count)
      BY <1>2, CodecDelivers DEF DeliversLegalPrefix
    <3> QED
      BY <1>3, <1>4, <2>2, <3>1, <3>2 DEF WholeFramesArrived
  <2> QED
    BY <2>1, <2>2
<1>6. \A i \in 1..count : delivered[i] = sent[i] /\ sent[i] \in Frame /\ Decodable(sent[i])
                          /\ sent[i].sid \in Streams
  BY <1>2, DeliveredFrames, FrameFields
<1>7. \A i \in 1..count : sent[i].flags # {} => sent[i].type = "TCP_DATA"
  BY <1>6, DecodableFrame
<1>8. StreamsEnded <=> \A s \in Streams : kind[s] = "tcp" => s \in closed
  <2>0. \A s \in Streams :
          /\ kind[s] = "tcp" <=> \E i \in 1..count : sent[i].sid = s /\ sent[i].type = "TCP_OPEN"
          /\ s \in closed <=> \E i \in 1..count : /\ sent[i].sid = s
                                                  /\ sent[i].type = "TCP_DATA"
                                                  /\ sent[i].flags # {}
    BY StreamsSeen
  <2>1. ASSUME StreamsEnded, NEW s \in Streams, kind[s] = "tcp" PROVE s \in closed
    <3>1. PICK i \in 1..count : sent[i].sid = s /\ sent[i].type = "TCP_OPEN"
      BY <2>0, <2>1
    <3>2. PICK j \in 1..count : delivered[j].sid = delivered[i].sid /\ delivered[j].flags # {}
      BY <1>2, <1>6, <2>1, <3>1 DEF StreamsEnded
    <3> QED
      BY <1>6, <1>7, <2>0, <3>1, <3>2
  <2>2. ASSUME \A s \in Streams : kind[s] = "tcp" => s \in closed,
               NEW i \in 1..count, delivered[i].type = "TCP_OPEN"
        PROVE  \E j \in 1..count : delivered[j].sid = delivered[i].sid /\ delivered[j].flags # {}
    BY <1>6, <2>0, <2>2
  <2> QED
    BY <1>2, <2>1, <2>2 DEF StreamsEnded
<1> QED
  BY <1>1, <1>5, <1>8 DEF CleanEnd

LEMMA CodecBounded == CodecInv => BufferBounded
<1> SUFFICES ASSUME CodecInv, status = "open" PROVE Buffered < Header + MaxPayload
  BY DEF BufferBounded
<1>1. Buffered \in Nat /\ (Buffered > 0 => Current \in Frame) /\ MaxPayload \in Nat
  BY BufferedFrame, FrameAssumption
<1>2. CASE Buffered < Header
  BY <1>1, <1>2 DEF Header
<1>3. CASE Buffered >= Header
  <2>1. PICK z \in Nat : z = Current.size /\ Units(Current) = 2 + z
    BY <1>1, <1>3, FrameFields DEF Header
  <2>2. HeaderOK(Current) /\ ~Complete(Current)
    BY <1>1, <1>3 DEF CodecInv, StatusOK, Header
  <2>3. z <= MaxPayload /\ ~(Buffered >= 2 + z)
    BY <2>1, <2>2 DEF HeaderOK, Complete
  <2> QED
    BY <1>1, <2>1, <2>3 DEF Header
<1> QED
  BY <1>1, <1>2, <1>3 DEF Header

LEMMA CodecInvCorrect == CodecInv => CodecCorrect
  BY CodecDelivers, CodecRejects, CodecFinishes, CodecBounded DEF CodecCorrect

-----------------------------------------------------------------------------
(* The request.                                                            *)

(* The handler's loop returns at no frame of a proper request.             *)
LEMMA ProperPasses ==
  ASSUME CodecInv, mode = "tcp", ProperRequest(sent),
         NEW fs \in Seq(Frame), Len(fs) <= Len(sent), \A i \in 1..Len(fs) : fs[i] = sent[i]
  PROVE  Passes(fs)
<1>1. /\ \A i \in 1..Len(sent) : /\ sent[i].sid = 1 /\ "RST" \notin sent[i].flags
                                 /\ sent[i].type \in {"TCP_OPEN", "TCP_DATA"}
                                 /\ LegalAt(sent, i)
      /\ BodyUnits(sent) <= MaxRequest
  BY DEF ProperRequest, Legal
<1>2. Len(sent) \in Nat /\ Len(fs) \in Nat
  BY DeliveredFrames
<1>3. ASSUME Len(fs) >= 1 PROVE fs[1].type = "TCP_OPEN" /\ fs[1].sid = 1
  <2>1. 1 \in 1..Len(fs) /\ 1 \in 1..Len(sent)
    BY <1>2, <1>3
  <2>2. SameStream(sent, 1) = {}
    BY DEF SameStream
  <2>3. sent[1].type # "TCP_DATA"
    BY <1>1, <2>1, <2>2, LegalAtPositions
  <2> QED
    BY <1>1, <2>1, <2>3
<1>4. ASSUME NEW i \in 2..Len(fs)
      PROVE  fs[i].type = "TCP_DATA" /\ fs[i].sid = 1 /\ "RST" \notin fs[i].flags
  <2>1. i \in 1..Len(fs) /\ i \in 1..Len(sent) /\ 1 \in 1..Len(sent) /\ 1 \in 1..(i - 1)
    BY <1>2
  <2>2. 1 \in SameStream(sent, i)
    BY <1>1, <2>1 DEF SameStream
  <2>3. sent[i].type # "TCP_OPEN"
    BY <1>1, <2>1, <2>2, LegalAtPositions
  <2> QED
    BY <1>1, <2>1, <2>3
<1>5. BodyUnits(fs) <= MaxRequest
  <2>1. \A i \in 2..Len(fs) : fs[i] = sent[i]
    BY <1>2
  <2>2. PICK a \in Nat : a = BodyUnits(fs)
    BY <1>2, PayloadFinite DEF BodyUnits
  <2>3. PICK b \in Nat : b = BodyUnits(sent)
    BY <1>2, PayloadFinite DEF BodyUnits
  <2>4. 2 \in Nat
    OBVIOUS
  <2>5. PayloadUnits(fs, 2, Len(fs)) <= PayloadUnits(sent, 2, Len(sent))
    BY <1>2, <2>1, <2>4, PayloadMonotonic
  <2>6. a <= b
    BY <2>2, <2>3, <2>5 DEF BodyUnits
  <2> QED
    BY <1>1, <2>2, <2>3, <2>6, ExchangeAssumption
<1> QED
  BY <1>3, <1>4, <1>5 DEF Passes

(* A proper request has nothing behind its FIN, and the FIN ends its only  *)
(* stream: finish() succeeds.                                              *)
LEMMA ProperEnds ==
  ASSUME CodecInv, status = "open", mode = "tcp", CompleteRequest(delivered), ProperRequest(sent)
  PROVE  CleanEnd
<1>1. /\ \A i \in 1..Len(sent) : /\ sent[i].sid = 1
                                 /\ sent[i].type \in {"TCP_OPEN", "TCP_DATA"}
                                 /\ LegalAt(sent, i)
  BY DEF ProperRequest, Legal
<1>2. /\ Len(delivered) = count /\ count \in Nat /\ Len(sent) \in Nat /\ count <= Len(sent)
      /\ \A i \in 1..count : /\ delivered[i] = sent[i]
                             /\ sent[i] \in Frame /\ Decodable(sent[i])
  BY DeliveredFrames
<1>3. PICK j \in 2..count : "FIN" \in delivered[j].flags
  BY <1>2 DEF CompleteRequest
<1>4. j \in 1..count /\ j \in 1..Len(sent) /\ sent[j].flags # {}
  BY <1>2, <1>3
<1>5. Buffered = 0
  <2> SUFFICES ASSUME Buffered # 0 PROVE FALSE
    OBVIOUS
  <2>1. count + 1 \in 1..Len(sent)
    BY BufferedFrame
  <2>2. j \in SameStream(sent, count + 1)
    BY <1>1, <1>2, <1>4, <2>1 DEF SameStream
  <2> QED
    BY <1>1, <1>4, <2>1, <2>2, LegalAtPositions
<1>6. ASSUME NEW s \in Streams, kind[s] = "tcp" PROVE s \in closed
  <2>1. PICK i \in 1..count : sent[i].sid = s
    BY <1>6, StreamsSeen
  <2>2. i \in 1..Len(sent)
    BY <1>2
  <2>3. sent[j].sid = s
    BY <1>1, <1>4, <2>1, <2>2
  <2>4. sent[j].type = "TCP_DATA"
    BY <1>2, <1>4, DecodableFrame
  <2> QED
    BY <1>4, <2>3, <2>4, StreamsSeen
<1> QED
  BY <1>5, <1>6 DEF CleanEnd

(* What a complete request looks like, and so what is sent on.             *)
LEMMA DialForwards ==
  ASSUME ExchangeInv, Dial
  PROVE  ForwardsWholeRequest' /\ asked' \in Seq(Frames) /\ forwarded' \in Seq(Frames)
<1>1. /\ CodecInv /\ sent \in Seq(Frames) /\ Passes(delivered) /\ CompleteRequest(delivered)
      /\ asked' = sent /\ forwarded' = Tail(delivered)
  BY DEF ExchangeInv, RequestPhase, Dial
<1>2. PICK k \in Nat : k = Len(delivered)
  BY <1>1, DeliveredFrames
<1>3. /\ delivered \in Seq(Frame) /\ Len(sent) \in Nat /\ k <= Len(sent) /\ k <= count /\ count \in Nat
      /\ \A i \in 1..k : /\ delivered[i] = sent[i]
                         /\ sent[i] \in Frame /\ Decodable(sent[i]) /\ LegalAt(sent, i)
  BY <1>1, <1>2, DeliveredFrames
<1>4. PICK j \in 2..k : "FIN" \in delivered[j].flags
  BY <1>1, <1>2 DEF CompleteRequest
<1>5. /\ sent[1].type = "TCP_OPEN" /\ sent[1].sid = 1
      /\ \A i \in 2..k : sent[i].type = "TCP_DATA" /\ sent[i].sid = 1 /\ "RST" \notin sent[i].flags
  BY <1>1, <1>2, <1>3, <1>4 DEF Passes
<1>6. ASSUME NEW i \in 2..k PROVE sent[i].flags = {} \/ sent[i].flags = {"FIN"}
  <2>1. sent[i] \in Frame /\ Decodable(sent[i])
    BY <1>3
  <2>2. sent[i].flags \in SUBSET {"FIN", "RST", "RESERVED"} /\ "RESERVED" \notin sent[i].flags
    BY <2>1, FrameFields, DecodableFrame
  <2>3. "RST" \notin sent[i].flags
    BY <1>5
  <2> QED
    BY <2>2, <2>3
<1>7. ASSUME NEW i \in 2..k, i < k PROVE sent[i].flags = {}
  <2>1. k \in 2..k /\ LegalAt(sent, k) /\ i \in 1..(k - 1)
    BY <1>3, <1>7
  <2>2. i \in SameStream(sent, k)
    BY <1>5, <2>1 DEF SameStream
  <2> QED
    BY <1>5, <2>1, <2>2, LegalAtPositions
<1>8. j = k /\ sent[k].flags = {"FIN"} /\ k >= 2
  <2>1. "FIN" \in sent[j].flags
    BY <1>3, <1>4
  <2>2. ~(j < k)
    BY <1>7, <2>1
  <2>3. j = k /\ k \in 2..k
    BY <2>2
  <2> QED
    BY <1>6, <2>1, <2>3
<1>9. /\ Tail(delivered) \in Seq(Frame) /\ Len(Tail(delivered)) = k - 1
      /\ \A i \in 1..(k - 1) : Tail(delivered)[i] = delivered[i + 1]
  BY <1>2, <1>3, <1>8, HeadTailProperties
<1>10. \A i \in 2..k : sent[i] \in Frames
  BY <1>1, <1>3, ElementOfSeq
<1>11. /\ SubSeq(sent, 2, k) \in Seq(Frames) /\ Len(SubSeq(sent, 2, k)) = k - 1
       /\ \A i \in 1..(k - 1) : SubSeq(sent, 2, k)[i] = sent[i + 1]
  BY <1>1, <1>3, <1>8, <1>10
<1>12. Tail(delivered) = SubSeq(sent, 2, k)
  <2>1. SubSeq(sent, 2, k) \in Seq(Frame)
    BY <1>11, FrameAssumption, SeqMonotonic
  <2>2. \A i \in 1..(k - 1) : Tail(delivered)[i] = SubSeq(sent, 2, k)[i]
    BY <1>3, <1>8, <1>9, <1>11
  <2> QED
    BY <1>9, <1>11, <2>1, <2>2, SeqEqual
<1>13. BodyUnits(SubSeq(sent, 1, k)) <= MaxRequest
  <2>1. k \in 0..Len(sent) /\ Len(delivered) = k
    BY <1>2, <1>3
  <2>2. SubSeq(sent, 1, k) = delivered
    BY <1>1, <1>2, CodecDelivers DEF DeliversLegalPrefix
  <2> QED
    BY <1>1, <2>2 DEF Passes
<1>14. Len(forwarded') + 1 = k
  BY <1>1, <1>8, <1>9
<1>15. ForwardsWholeRequest'
  <2>1. \A i \in 2..k : /\ sent[i].type = "TCP_DATA" /\ sent[i].sid = 1
                        /\ sent[i].flags = IF i = k THEN {"FIN"} ELSE {}
    <3> SUFFICES ASSUME NEW i \in 2..k
                 PROVE  /\ sent[i].type = "TCP_DATA" /\ sent[i].sid = 1
                        /\ sent[i].flags = IF i = k THEN {"FIN"} ELSE {}
      OBVIOUS
    <3>1. i = k \/ i < k
      OBVIOUS
    <3> QED
      BY <1>5, <1>7, <1>8, <3>1
  <2> QED
    BY <1>1, <1>5, <1>12, <1>13, <1>14, <2>1 DEF ForwardsWholeRequest
<1> QED
  BY <1>1, <1>11, <1>12, <1>15

-----------------------------------------------------------------------------
(* The answer.                                                             *)

(* The frames the gateway writes.                                          *)
LEMMA ReplyFrames ==
  /\ Reply("TCP_OPEN", 1, 0, 1, {}) \in Frame
  /\ Reply("PONG", 0, 0, 1, {}) \in Frame
  /\ \A n \in Nat : /\ \A m \in ChunkSizes : Reply("TCP_DATA", 1, n, m, {}) \in Frame
                    /\ Reply("TCP_DATA", 1, n, 0, {"FIN"}) \in Frame
  BY FrameAssumption, ExchangeAssumption DEF Reply, Frame, Types

LEMMA ReplyDecodable ==
  /\ Decodable(Reply("TCP_OPEN", 1, 0, 1, {}))
  /\ Decodable(Reply("PONG", 0, 0, 1, {}))
  /\ \A n \in Nat : /\ \A m \in ChunkSizes : Decodable(Reply("TCP_DATA", 1, n, m, {}))
                    /\ Decodable(Reply("TCP_DATA", 1, n, 0, {"FIN"}))
  BY FrameAssumption, ExchangeAssumption DEF Reply, Decodable, Semantics, Types

(* The answer to a TCP request, frame by frame.                            *)
LEMMA AnswerFrames ==
  ASSUME CodecInv, AnswerPhase, Answering, mode = "tcp"
  PROVE  /\ Len(sent) \in Nat
         /\ sent[1].type = "TCP_OPEN" /\ sent[1].sid = 1 /\ sent[1].seq = 0 /\ sent[1].flags = {}
         /\ Decodable(sent[1])
         /\ \A i \in 2..Len(sent) :
              /\ sent[i].type = "TCP_DATA" /\ sent[i].sid = 1 /\ sent[i].seq = i - 1
              /\ Decodable(sent[i])
              /\ IF gw = "finished" /\ i = Len(sent)
                 THEN sent[i].flags = {"FIN"} /\ sent[i].size = 0
                 ELSE sent[i].flags = {} /\ sent[i].size \in ChunkSizes
<1>1. Len(sent) \in Nat
  BY DeliveredFrames
<1>2. sent[1] = Reply("TCP_OPEN", 1, 0, 1, {})
  BY DEF AnswerPhase
<1>3. ASSUME NEW i \in 2..Len(sent)
      PROVE  /\ sent[i].type = "TCP_DATA" /\ sent[i].sid = 1 /\ sent[i].seq = i - 1
             /\ Decodable(sent[i])
             /\ IF gw = "finished" /\ i = Len(sent)
                THEN sent[i].flags = {"FIN"} /\ sent[i].size = 0
                ELSE sent[i].flags = {} /\ sent[i].size \in ChunkSizes
  <2>1. PICK n \in Nat : n = i - 1
    BY <1>1
  <2>2. IF gw = "finished" /\ i = Len(sent)
        THEN sent[i] = Reply("TCP_DATA", 1, n, 0, {"FIN"})
        ELSE \E m \in ChunkSizes : sent[i] = Reply("TCP_DATA", 1, n, m, {})
    BY <1>1, <2>1 DEF AnswerPhase, Fin, Chunks
  <2>3. CASE gw = "finished" /\ i = Len(sent)
    <3>1. sent[i] = Reply("TCP_DATA", 1, n, 0, {"FIN"}) /\ Decodable(sent[i])
      BY <2>2, <2>3, ReplyDecodable
    <3> QED
      BY <2>1, <2>3, <3>1 DEF Reply
  <2>4. CASE ~(gw = "finished" /\ i = Len(sent))
    <3>1. PICK m \in ChunkSizes : sent[i] = Reply("TCP_DATA", 1, n, m, {})
      BY <2>2, <2>4
    <3>2. Decodable(sent[i])
      BY <3>1, ReplyDecodable
    <3> QED
      BY <2>1, <2>4, <3>1, <3>2 DEF Reply
  <2> QED
    BY <2>3, <2>4
<1>4. Decodable(sent[1])
  BY <1>2, ReplyDecodable
<1> QED
  BY <1>1, <1>2, <1>3, <1>4 DEF Reply

(* What the gateway writes is a legal conversation, but for its length.    *)
LEMMA AnswerLegal ==
  ASSUME CodecInv, AnswerPhase, Answering, mode \in Modes, NEW i \in 1..Len(sent)
  PROVE  LegalAt(sent, i)
<1>1. CASE mode = "l3"
  <2>1. sent = <<Reply("PONG", 0, 0, 1, {})>>
    BY <1>1 DEF AnswerPhase
  <2>2. i = 1 /\ sent[1] = Reply("PONG", 0, 0, 1, {})
    BY <2>1
  <2>3. SameStream(sent, 1) = {} /\ Cardinality({}) = 0
    BY FS_EmptySet DEF SameStream
  <2>4. sent[1].type = "PONG" /\ sent[1].seq = 0 /\ Decodable(sent[1])
    BY <2>2, ReplyDecodable DEF Reply
  <2>5. \A j \in 1..(1 - 1) : sent[j].type # "CLOSE"
    OBVIOUS
  <2> QED
    BY <2>2, <2>3, <2>4, <2>5, LegalAtPositions
<1>2. CASE mode = "tcp"
  <2>1. Len(sent) \in Nat /\ i \in Nat
    BY DeliveredFrames
  <2>2. \A j \in 1..Len(sent) : j = 1 \/ j \in 2..Len(sent)
    BY <2>1
  <2>3. \A j \in 1..(i - 1) : /\ j \in 1..Len(sent) /\ sent[j].sid = 1
                              /\ sent[j].flags = {} /\ sent[j].type # "CLOSE"
    <3> SUFFICES ASSUME NEW j \in 1..(i - 1)
                 PROVE  /\ j \in 1..Len(sent) /\ sent[j].sid = 1
                        /\ sent[j].flags = {} /\ sent[j].type # "CLOSE"
      OBVIOUS
    <3>1. j \in 1..Len(sent) /\ j # Len(sent)
      BY <2>1
    <3>2. CASE j = 1
      BY <1>2, <3>1, <3>2, AnswerFrames
    <3>3. CASE j \in 2..Len(sent)
      BY <1>2, <3>1, <3>3, AnswerFrames
    <3> QED
      BY <2>2, <3>1, <3>2, <3>3
  <2>4. sent[i].sid = 1 /\ sent[i].seq = i - 1 /\ Decodable(sent[i])
    BY <1>2, <2>2, AnswerFrames
  <2>5. SameStream(sent, i) = 1..(i - 1)
    BY <2>3, <2>4 DEF SameStream
  <2>6. Cardinality(1..(i - 1)) = i - 1
    <3>1. 1 \in Int /\ i - 1 \in Int
      BY <2>1
    <3>2. Cardinality(1..(i - 1)) = IF 1 > i - 1 THEN 0 ELSE (i - 1) - 1 + 1
      BY ONLY <3>1, FS_Interval
    <3> QED
      BY <2>1, <3>2
  <2>7. CASE i = 1
    <3>1. 1..(i - 1) = {} /\ sent[i].type = "TCP_OPEN"
      BY <1>2, <2>7, AnswerFrames
    <3> QED
      BY <2>3, <2>4, <2>5, <2>6, <3>1, LegalAtPositions
  <2>8. CASE i \in 2..Len(sent)
    <3>1. 1 \in 1..(i - 1) /\ sent[1].type = "TCP_OPEN" /\ sent[i].type = "TCP_DATA"
      BY <1>2, <2>1, <2>8, AnswerFrames
    <3> QED
      BY <2>3, <2>4, <2>5, <2>6, <3>1, LegalAtPositions
  <2> QED
    BY <2>2, <2>7, <2>8
<1> QED
  BY <1>1, <1>2 DEF Modes

(* When all that was written has arrived, feed() keeps nothing back.       *)
LEMMA AllArrived ==
  ASSUME CodecInv, status = "open", arrived = written
  PROVE  /\ Buffered = 0 /\ Len(delivered) = Len(sent)
         /\ \A i \in 1..Len(sent) : delivered[i] = sent[i]
<1>1. /\ count \in Nat /\ Len(sent) \in Nat /\ count <= Len(sent) /\ Len(delivered) = count
      /\ \A i \in 1..Len(delivered) : delivered[i] = sent[i]
  BY DeliveredFrames
<1>2. PICK ends \in [0..Len(sent) -> 0..written] : FrameEnds(ends)
  BY DEF CodecInv, FramesOnWire
<1>3. written \in Nat /\ consumed \in 0..written
  BY DEF CodecInv, CodecTypeOK
<1>4. count = Len(sent)
  <2> SUFFICES ASSUME count < Len(sent) PROVE FALSE
    BY <1>1
  <2>1. count + 1 \in 1..Len(sent) /\ Current \in Frame /\ (count + 1) - 1 = count
    BY <1>1, BufferedFrame
  <2>2. PICK u \in Nat : u = Units(Current) /\ u >= 2
    BY <2>1, FrameFields DEF Header
  <2>3. ends[count + 1] = consumed + u
    BY <1>2, <2>1, <2>2 DEF FrameEnds, Current
  <2>4. ends[count + 1] \in 0..written
    BY <1>1, <1>2, <2>1
  <2>5. consumed + u <= written
    BY <2>3, <2>4, <1>3
  <2>6. Buffered \in Nat /\ Buffered >= u /\ ~(Buffered < Header)
    BY <1>3, <2>2, <2>5 DEF Buffered, Header
  <2> QED
    BY <2>2, <2>6 DEF CodecInv, StatusOK, Complete
<1>5. consumed = written
  BY <1>2, <1>4 DEF FrameEnds
<1> QED
  BY <1>1, <1>3, <1>4, <1>5 DEF Buffered

(* A whole answer satisfies everything the client asks of it.              *)
LEMMA WholeAnswer ==
  ASSUME CodecInv, AnswerPhase, gw = "finished", mode \in Modes, status = "open",
         arrived = written, answered \in Nat
  PROVE  CleanEnd /\ Answers(delivered)
<1>1. /\ Buffered = 0 /\ Len(delivered) = Len(sent) /\ Len(sent) \in Nat
      /\ \A i \in 1..Len(sent) : delivered[i] = sent[i]
  BY AllArrived, DeliveredFrames
<1>2. Answering /\ count = Len(sent)
  BY <1>1, DeliveredFrames DEF Answering
<1>3. CASE mode = "l3"
  <2>1. sent = <<Reply("PONG", 0, 0, 1, {})>>
    BY <1>2, <1>3 DEF AnswerPhase
  <2>2. Len(sent) = 1 /\ sent[1].type = "PONG"
    BY <2>1 DEF Reply
  <2>3. \A s \in Streams : kind[s] # "tcp"
    BY <1>2, <2>2, StreamsSeen
  <2> QED
    BY <1>1, <1>3, <2>2, <2>3 DEF CleanEnd, Answers
<1>4. CASE mode = "tcp"
  <2>1. PICK n \in Nat : n = Len(sent) /\ n > 1
    BY <1>2, <1>4 DEF AnswerPhase
  <2>2. /\ sent[1].type = "TCP_OPEN" /\ sent[1].sid = 1
        /\ \A i \in 2..n : /\ sent[i].type = "TCP_DATA" /\ sent[i].sid = 1
                           /\ "RST" \notin sent[i].flags
        /\ sent[n].flags = {"FIN"}
    BY <1>2, <1>4, <2>1, AnswerFrames
  <2>3. n \in 2..n /\ n \in 1..n /\ 1 \in 1..n
    BY <2>1
  <2>4. Answers(delivered)
    BY <1>1, <1>4, <2>1, <2>2, <2>3 DEF Answers
  <2>5. ASSUME NEW s \in Streams, kind[s] = "tcp" PROVE s \in closed
    <3>1. PICK i \in 1..n : sent[i].sid = s
      BY <1>2, <2>1, <2>5, StreamsSeen
    <3>2. s = 1
      BY <2>1, <2>2, <3>1
    <3> QED
      BY <1>2, <2>1, <2>2, <2>3, <3>2, StreamsSeen
  <2> QED
    BY <1>1, <2>4, <2>5 DEF CleanEnd
<1> QED
  BY <1>3, <1>4 DEF Modes

(* An answer that satisfies the client is whole.                           *)
LEMMA AnswersAreWhole ==
  ASSUME CodecInv, AnswerPhase, Answering, mode \in Modes, status = "open",
         Answers(delivered), answered \in Nat
  PROVE  /\ gw = "finished"
         /\ delivered = sent
         /\ mode = "tcp" =>
              Cardinality({i \in 2..Len(delivered) : delivered[i].size > 0}) = answered
<1>1. /\ Len(sent) \in Nat /\ Len(delivered) \in Nat /\ Len(delivered) <= Len(sent)
      /\ \A i \in 1..Len(delivered) : delivered[i] = sent[i]
      /\ sent \in Seq(Frame) /\ delivered \in Seq(Frame)
  BY DeliveredFrames
<1>2. CASE mode = "l3"
  <2>1. Len(delivered) = 1 /\ sent = <<Reply("PONG", 0, 0, 1, {})>> /\ gw = "finished"
    BY <1>2 DEF AnswerPhase, Answers
  <2>2. Len(sent) = 1
    BY <2>1
  <2>3. delivered = sent
    BY <1>1, <2>1, <2>2, SeqEqual
  <2> QED
    BY <1>2, <2>1, <2>3
<1>3. CASE mode = "tcp"
  <2>1. PICK n \in Nat : n = Len(delivered) /\ n > 1 /\ "FIN" \in delivered[n].flags
    BY <1>1, <1>3 DEF Answers
  <2>2. n \in 2..Len(sent) /\ "FIN" \in sent[n].flags
    BY <1>1, <2>1
  <2>3. gw = "finished" /\ n = Len(sent)
    BY <1>3, <2>2, AnswerFrames
  <2>4. delivered = sent
    BY <1>1, <2>1, <2>3, SeqEqual
  <2>5. n = answered + 2
    BY <1>3, <2>3 DEF AnswerPhase
  <2>6. \A i \in 2..n : sent[i].size \in IF i = n THEN {0} ELSE 1..MaxPayload
    BY <1>3, <2>3, AnswerFrames, ExchangeAssumption
  <2>7. {i \in 2..Len(delivered) : delivered[i].size > 0} = 2..(n - 1)
    BY <2>1, <2>4, <2>6, FrameAssumption
  <2>8. Cardinality(2..(n - 1)) = n - 2
    <3>1. 2 \in Int /\ n - 1 \in Int
      BY <2>1
    <3>2. Cardinality(2..(n - 1)) = IF 2 > n - 1 THEN 0 ELSE (n - 1) - 2 + 1
      BY ONLY <3>1, FS_Interval
    <3> QED
      BY <2>1, <3>2
  <2>9. n - 2 = answered
    BY <2>5
  <2> QED
    BY <2>3, <2>4, <2>7, <2>8, <2>9
<1> QED
  BY <1>2, <1>3 DEF Modes

-----------------------------------------------------------------------------
(* Every step of the exchange keeps its invariant.                         *)

LEMMA ForwardedKept ==
  ASSUME ForwardsWholeRequest, asked' = asked, forwarded' = forwarded
  PROVE  ForwardsWholeRequest'
  BY DEF ForwardsWholeRequest

(* The gateway's steps before it answers.                                  *)
LEMMA RequestStep ==
  ASSUME ExchangeInv, CodecInv',
         ~Answering, gw' \notin {"relay", "stopped", "finished"}, gw' \in Serving \cup Ended,
         UNCHANGED <<mode, asked, forwarded, answered, client, cut>>,
         sent' \in Seq(Frames), Len(sent') <= MaxSent,
         gw' = "complete" => mode = "tcp" /\ status' = "open",
         gw' = "accepted" => Len(sent') >= 1,
         gw' = "complete" \/ (gw' = "accepted" /\ mode = "tcp") =>
           Passes(delivered') /\ CompleteRequest(delivered'),
         ServesProperRequest'
  PROVE  ExchangeInv'
<1>1. /\ mode' = mode /\ asked' = asked /\ forwarded' = forwarded /\ answered' = answered
      /\ client' = client /\ cut' = cut
  OBVIOUS
<1>2. client = "waiting" /\ answered = 0
  BY DEF ExchangeInv, RequestPhase, Answering
<1>3. CodecTypeOK'
  BY DEF CodecInv
<1>4. ExchangeTypeOK'
  BY <1>1, <1>3 DEF ExchangeInv, ExchangeTypeOK
<1>5. RequestPhase'
  BY <1>1, <1>2 DEF RequestPhase
<1>6. AnswerPhase'
  BY DEF AnswerPhase, Answering
<1>7. ClientPhase' /\ AnswerIsWhole' /\ WholeAnswerAccepted'
  BY <1>1, <1>2 DEF ClientPhase, AnswerIsWhole, WholeAnswerAccepted
<1>8. ForwardsWholeRequest'
  BY <1>1, ForwardedKept DEF ExchangeInv
<1> QED
  BY <1>4, <1>5, <1>6, <1>7, <1>8 DEF ExchangeInv

(* The client's steps.                                                     *)
LEMMA ResponseStep ==
  ASSUME ExchangeInv, CodecInv', Answering,
         UNCHANGED <<mode, gw, asked, forwarded, answered, sent>>,
         client' \in {"waiting", "decoding", "finishing", "returned", "rejected", "failed"},
         cut' \in BOOLEAN,
         ClientPhase', AnswerIsWhole', WholeAnswerAccepted'
  PROVE  ExchangeInv'
<1>1. /\ mode' = mode /\ asked' = asked /\ forwarded' = forwarded /\ answered' = answered
      /\ gw' = gw /\ sent' = sent
  OBVIOUS
<1>2. gw \in {"relay", "stopped", "finished"}
  BY DEF Answering
<1>3. CodecTypeOK'
  BY DEF CodecInv
<1>4. ExchangeTypeOK'
  BY <1>1, <1>3 DEF ExchangeInv, ExchangeTypeOK
<1>5. RequestPhase'
  BY <1>1, <1>2 DEF RequestPhase
<1>6. AnswerPhase'
  BY <1>1 DEF ExchangeInv, AnswerPhase, Answering
<1>7. ServesProperRequest'
  BY <1>1, <1>2 DEF ServesProperRequest
<1>8. ForwardsWholeRequest'
  BY <1>1, ForwardedKept DEF ExchangeInv
<1> QED
  BY <1>1, <1>4, <1>5, <1>6, <1>7, <1>8 DEF ExchangeInv

(* The gateway's steps in its answer.                                      *)
LEMMA RelayStep ==
  ASSUME ExchangeInv, CodecInv', client = "waiting",
         UNCHANGED <<mode, asked, forwarded, client, cut>>,
         gw' \in {"relay", "stopped", "finished"},
         Len(sent') <= MaxSent, answered' \in 0..MaxSent,
         AnswerPhase'
  PROVE  ExchangeInv'
<1>1. /\ mode' = mode /\ asked' = asked /\ forwarded' = forwarded
      /\ client' = client /\ cut' = cut
  OBVIOUS
<1>2. CodecTypeOK'
  BY DEF CodecInv
<1>3. ExchangeTypeOK'
  BY <1>1, <1>2 DEF ExchangeInv, ExchangeTypeOK, Serving, Ended
<1>4. RequestPhase'
  BY DEF RequestPhase
<1>5. ClientPhase' /\ AnswerIsWhole' /\ WholeAnswerAccepted'
  BY <1>1 DEF ClientPhase, AnswerIsWhole, WholeAnswerAccepted
<1>6. ServesProperRequest'
  BY DEF ServesProperRequest
<1>7. ForwardsWholeRequest'
  BY <1>1, ForwardedKept DEF ExchangeInv
<1> QED
  BY <1>3, <1>4, <1>5, <1>6, <1>7 DEF ExchangeInv

(* The peer writes, a piece arrives, a frame is decoded.                   *)
LEMMA CollectStep ==
  ASSUME ExchangeInv, gw = "collect", UNCHANGED exchangeVars, CodecInv',
         sent' \in Seq(Frames), Len(sent') <= MaxSent
  PROVE  ExchangeInv'
<1>1. /\ gw' = "collect" /\ ~Answering
      /\ UNCHANGED <<mode, asked, forwarded, answered, client, cut>>
  BY DEF exchangeVars, Answering
<1>2. ServesProperRequest'
  BY <1>1 DEF ServesProperRequest
<1> QED
  BY <1>1, <1>2, RequestStep DEF Serving

LEMMA CollectSteps ==
  ASSUME ExchangeInv,
         (\E f \in Frames : PeerWrites(f)) \/ (\E n \in 1..(written - arrived) : Receive(n))
           \/ DecodeRequest
  PROVE  ExchangeInv'
<1>1. /\ gw = "collect" => sent \in Seq(Frames)
      /\ CodecInv /\ Len(sent) <= MaxSent /\ Len(sent) \in Nat
  BY DeliveredFrames DEF ExchangeInv, RequestPhase
<1>2. ASSUME NEW f \in Frames, PeerWrites(f) PROVE ExchangeInv'
  <2>1. gw = "collect" /\ Write(f) /\ UNCHANGED exchangeVars /\ f \in Frame
    BY <1>2, FrameAssumption DEF PeerWrites
  <2>2. CodecInv'
    BY <1>1, <2>1, WriteKeepsCodec
  <2>3. sent' \in Seq(Frames) /\ Len(sent') <= MaxSent
    BY <1>1, <2>1, FrameAssumption DEF Write
  <2> QED
    BY <2>1, <2>2, <2>3, CollectStep
<1>3. ASSUME NEW n \in 1..(written - arrived), Receive(n) PROVE ExchangeInv'
  <2>1. /\ gw = "collect" /\ Feed(n) /\ UNCHANGED exchangeVars /\ sent' = sent
    BY <1>3 DEF Receive, Feed, peerVars
  <2>2. CodecInv'
    BY <1>1, <2>1, FeedKeepsCodec
  <2> QED
    BY <1>1, <2>1, <2>2, CollectStep
<1>4. ASSUME DecodeRequest PROVE ExchangeInv'
  <2>1. /\ gw = "collect" /\ Decode /\ UNCHANGED exchangeVars /\ sent' = sent
    BY <1>4 DEF DecodeRequest, Decode, peerVars
  <2>2. CodecInv'
    BY <1>1, <2>1, DecodeKeepsCodec
  <2> QED
    BY <1>1, <2>1, <2>2, CollectStep
<1> QED
  BY <1>2, <1>3, <1>4

(* The gateway's codec raises: the request was not a proper one.           *)
LEMMA RejectRequestStep ==
  ASSUME ExchangeInv, RejectRequest
  PROVE  ExchangeInv'
<1>1. /\ gw = "collect" /\ Reject /\ gw' = "refused" /\ ~Answering
      /\ UNCHANGED <<mode, asked, forwarded, answered, client, cut>>
      /\ sent' = sent /\ limit' = limit /\ count' = count /\ status' = "failed"
  BY DEF RejectRequest, GatewayGoes, Answering, Reject, peerVars
<1>2. CodecInv /\ sent \in Seq(Frames) /\ Len(sent) <= MaxSent
  BY <1>1 DEF ExchangeInv, RequestPhase
<1>3. CodecInv'
  BY <1>1, <1>2, RejectKeepsCodec
<1>4. count < Len(sent) /\ (count < limit => ~LegalAt(sent, count + 1))
  BY <1>1, <1>3 DEF CodecInv, StatusOK
<1>5. ~Legal(sent)
  <2>1. count + 1 \in 1..Len(sent) /\ (Len(sent) <= limit => count < limit)
    BY <1>2, <1>4, DeliveredFrames
  <2> QED
    BY <1>4, <2>1 DEF Legal
<1>6. ~Legal(sent)'
  BY <1>1, <1>5 DEF Legal
<1>7. ServesProperRequest'
  BY <1>6 DEF ServesProperRequest, ProperRequest
<1> QED
  BY <1>1, <1>2, <1>3, <1>7, RequestStep DEF Ended

(* feed() returns to the handler, whose loop goes over the frames.         *)
LEMMA TakeFramesStep ==
  ASSUME ExchangeInv, TakeFrames
  PROVE  ExchangeInv'
<1>1. gw = "collect" /\ ReturnFrames /\ ~Answering
  BY DEF TakeFrames, Answering
<1>2. /\ CodecInv /\ sent \in Seq(Frames) /\ Len(sent) <= MaxSent /\ mode \in Modes
  BY <1>1 DEF ExchangeInv, ExchangeTypeOK, RequestPhase
<1>3. /\ CodecInv'
      /\ delivered' = delivered \o batch
      /\ \A i \in 1..Len(delivered') : delivered'[i] = sent[i]
      /\ Len(delivered') = count'
  BY <1>1, <1>2, ReturnKeepsCodec
<1>4. /\ sent' = sent /\ limit' = limit /\ status' = "open" /\ count' = count
  BY <1>1 DEF ReturnFrames, peerVars
<1>5. PICK verdict \in IF mode = "tcp" THEN TcpVerdicts(delivered') ELSE L3Verdicts(delivered') :
        gw' = verdict /\ UNCHANGED <<mode, asked, forwarded, answered, client, cut>>
  BY <1>3 DEF TakeFrames, GatewayGoes
<1>6. delivered' \in Seq(Frame) /\ Len(delivered') <= Len(sent)
  BY <1>2, <1>3, <1>4, DeliveredFrames DEF CodecInv, CodecTypeOK
<1>7. ProperRequest(sent)' <=> ProperRequest(sent)
  BY <1>4, <1>5 DEF ProperRequest, Legal
<1>8. CASE mode = "tcp"
  <2>1. verdict \in {"refused", "complete", "collect", "declined"}
    BY <1>5, <1>8 DEF TcpVerdicts
  <2>2. verdict = "refused" => ~Passes(delivered')
    BY <1>5, <1>8 DEF TcpVerdicts
  <2>3. verdict = "complete" => Passes(delivered') /\ CompleteRequest(delivered')
    BY <1>5, <1>8 DEF TcpVerdicts
  <2>4. ServesProperRequest'
    <3> SUFFICES ASSUME gw' = "refused", ProperRequest(sent) PROVE FALSE
      BY <1>7 DEF ServesProperRequest
    <3> QED
      BY <1>2, <1>3, <1>5, <1>6, <1>8, <2>2, ProperPasses
  <2> QED
    BY <1>1, <1>2, <1>3, <1>4, <1>5, <1>8, <2>1, <2>3, <2>4, RequestStep DEF Serving, Ended
<1>9. CASE mode = "l3"
  <2>1. verdict \in {"refused", "accepted", "collect", "declined"}
    BY <1>5, <1>9 DEF L3Verdicts
  <2>2. verdict = "refused" => /\ delivered' # <<>>
                               /\ ~(delivered'[1].type = "L3_DATA" /\ delivered'[1].sid = 1)
    BY <1>5, <1>9 DEF L3Verdicts
  <2>3. verdict = "accepted" => Len(sent') >= 1
    <3>1. verdict = "accepted" => delivered' # <<>>
      BY <1>5, <1>9 DEF L3Verdicts
    <3>2. delivered' # <<>> => Len(delivered') \in Nat \ {0}
      BY <1>6, EmptySeq
    <3>3. Len(sent) \in Nat
      BY <1>2, DeliveredFrames
    <3> QED
      BY <1>4, <1>6, <3>1, <3>2, <3>3
  <2>4. ServesProperRequest'
    <3> SUFFICES ASSUME gw' = "refused", ProperRequest(sent) PROVE FALSE
      BY <1>7 DEF ServesProperRequest
    <3>1. Len(delivered') \in Nat \ {0} /\ Len(sent) \in Nat
      BY <1>2, <1>5, <1>6, <2>2, EmptySeq, DeliveredFrames
    <3>2. 1 \in 1..Len(delivered') /\ 1 \in 1..Len(sent)
      BY <1>6, <3>1
    <3>3. sent[1].type = "L3_DATA" /\ sent[1].sid = 1
      BY <1>9, <3>2 DEF ProperRequest
    <3> QED
      BY <1>3, <1>5, <2>2, <3>2, <3>3
  <2> QED
    BY <1>1, <1>2, <1>3, <1>4, <1>5, <1>9, <2>1, <2>3, <2>4, RequestStep DEF Serving, Ended
<1> QED
  BY <1>2, <1>8, <1>9 DEF Modes

LEMMA ExpireStep ==
  ASSUME ExchangeInv, Expire
  PROVE  ExchangeInv'
<1>1. /\ gw = "collect" /\ gw' = "expired" /\ ~Answering
      /\ UNCHANGED <<mode, asked, forwarded, answered, client, cut>>
  BY DEF Expire, GatewayGoes, Answering
<1>2. CodecInv /\ sent \in Seq(Frames) /\ Len(sent) <= MaxSent
  BY <1>1 DEF ExchangeInv, RequestPhase
<1>3. CodecInv' /\ sent' = sent
  <2>1. CASE Finish
    BY <1>2, <2>1, FinishKeepsCodec
  <2>2. CASE UNCHANGED codecVars
    BY <1>2, <2>2, IdleKeepsCodec DEF codecVars, peerVars
  <2> QED
    BY <2>1, <2>2 DEF Expire
<1>4. ServesProperRequest'
  BY <1>1 DEF ServesProperRequest
<1> QED
  BY <1>1, <1>2, <1>3, <1>4, RequestStep DEF Ended

(* finish() fails only for a request that is not proper.                   *)
LEMMA FinishRequestStep ==
  ASSUME ExchangeInv, FinishRequest
  PROVE  ExchangeInv'
<1>1. gw = "complete" /\ Finish /\ ~Answering
  BY DEF FinishRequest, Answering
<1>2. /\ CodecInv /\ sent \in Seq(Frames) /\ Len(sent) <= MaxSent
      /\ mode = "tcp" /\ status = "open"
      /\ Passes(delivered) /\ CompleteRequest(delivered)
  BY <1>1 DEF ExchangeInv, RequestPhase
<1>3. CodecInv' /\ sent' = sent /\ delivered' = delivered /\ limit' = limit
  BY <1>1, <1>2, FinishKeepsCodec
<1>4. PICK verdict \in IF CleanEnd THEN {"accepted", "declined"} ELSE {"refused"} :
        gw' = verdict /\ UNCHANGED <<mode, asked, forwarded, answered, client, cut>>
  BY DEF FinishRequest, GatewayGoes
<1>5. gw' \in {"accepted", "declined", "refused"} /\ (gw' = "refused" => ~CleanEnd)
  BY <1>4
<1>6. ServesProperRequest'
  <2>1. ProperRequest(sent)' <=> ProperRequest(sent)
    BY <1>3, <1>4 DEF ProperRequest, Legal
  <2>2. gw' = "refused" => ~ProperRequest(sent)
    BY <1>2, <1>5, ProperEnds
  <2> QED
    BY <2>1, <2>2 DEF ServesProperRequest
<1>7. Len(sent') >= 1
  <2>1. PICK j \in 2..Len(delivered) : "FIN" \in delivered[j].flags
    BY <1>2 DEF CompleteRequest
  <2> QED
    BY <1>2, <1>3, <2>1, DeliveredFrames
<1> QED
  BY <1>1, <1>2, <1>3, <1>4, <1>5, <1>6, <1>7, RequestStep DEF Serving, Ended

LEMMA DialFailedStep ==
  ASSUME ExchangeInv, DialFailed
  PROVE  ExchangeInv'
<1>1. /\ gw = "accepted" /\ gw' = "failed" /\ ~Answering
      /\ UNCHANGED <<mode, asked, forwarded, answered, client, cut>>
      /\ UNCHANGED codecVars /\ sent' = sent
  BY DEF DialFailed, GatewayGoes, Answering, codecVars, peerVars
<1>2. CodecInv /\ sent \in Seq(Frames) /\ Len(sent) <= MaxSent
  BY <1>1 DEF ExchangeInv, RequestPhase
<1>3. CodecInv'
  BY <1>1, <1>2, IdleKeepsCodec
<1>4. ServesProperRequest'
  BY <1>1 DEF ServesProperRequest
<1> QED
  BY <1>1, <1>2, <1>3, <1>4, RequestStep DEF Ended

(* The answer starts with a codec that has decoded nothing.                *)
LEMMA StartAnswerFresh ==
  ASSUME mode \in Modes, NEW f \in Frame, StartAnswer(f)
  PROVE  CodecInv' /\ sent' = <<f>>
<1>1. FreshCodec'
  BY ExchangeAssumption DEF StartAnswer, FreshCodec
<1>2. CodecInv'
  BY <1>1, FreshCodecInv, PTL
<1> QED
  BY <1>2 DEF StartAnswer

LEMMA AcknowledgeStep ==
  ASSUME ExchangeInv, AcknowledgePacket
  PROVE  ExchangeInv'
<1>1. /\ gw = "accepted" /\ mode = "l3" /\ StartAnswer(Reply("PONG", 0, 0, 1, {}))
      /\ gw' = "finished" /\ UNCHANGED <<mode, asked, forwarded, answered, client, cut>>
  BY DEF AcknowledgePacket, GatewayGoes
<1>2. client = "waiting" /\ answered \in 0..MaxSent /\ mode \in Modes
  BY <1>1 DEF ExchangeInv, ExchangeTypeOK, RequestPhase
<1>3. CodecInv' /\ sent' = <<Reply("PONG", 0, 0, 1, {})>>
  BY <1>1, <1>2, ReplyFrames, StartAnswerFresh
<1>4. Len(sent') <= MaxSent
  <2>1. 1 <= Len(sent) /\ Len(sent) <= MaxSent /\ Len(sent) \in Nat
    BY <1>1, DeliveredFrames DEF ExchangeInv, RequestPhase
  <2>2. Len(sent') = 1
    BY <1>3
  <2> QED
    BY <2>1, <2>2, FrameAssumption
<1>5. AnswerPhase'
  BY <1>1, <1>3 DEF AnswerPhase
<1> QED
  BY <1>1, <1>2, <1>3, <1>4, <1>5, RelayStep

LEMMA DialStep ==
  ASSUME ExchangeInv, Dial
  PROVE  ExchangeInv'
<1>1. /\ gw = "accepted" /\ mode = "tcp" /\ StartAnswer(Reply("TCP_OPEN", 1, 0, 1, {}))
      /\ gw' = "relay" /\ mode' = mode /\ answered' = answered /\ client' = client /\ cut' = cut
  BY DEF Dial
<1>2. /\ client = "waiting" /\ answered = 0 /\ mode \in Modes
      /\ Len(sent) >= 1 /\ Len(sent) <= MaxSent /\ CodecInv /\ ExchangeTypeOK
  BY <1>1 DEF ExchangeInv, ExchangeTypeOK, RequestPhase
<1>3. CodecInv' /\ sent' = <<Reply("TCP_OPEN", 1, 0, 1, {})>>
  BY <1>1, <1>2, ReplyFrames, StartAnswerFresh
<1>4. Len(sent') = 1 /\ sent'[1] = Reply("TCP_OPEN", 1, 0, 1, {})
  BY <1>3
<1>5. Len(sent') <= MaxSent
  BY <1>2, <1>4, DeliveredFrames, FrameAssumption
<1>6. AnswerPhase'
  BY <1>1, <1>2, <1>4 DEF AnswerPhase
<1>7. RequestPhase' /\ ServesProperRequest'
  BY <1>1 DEF RequestPhase, ServesProperRequest
<1>8. ClientPhase' /\ AnswerIsWhole' /\ WholeAnswerAccepted'
  BY <1>1, <1>2 DEF ClientPhase, AnswerIsWhole, WholeAnswerAccepted
<1>9. ForwardsWholeRequest' /\ asked' \in Seq(Frames) /\ forwarded' \in Seq(Frames)
  BY DialForwards
<1>10. CodecTypeOK'
  BY <1>3 DEF CodecInv
<1>11. ExchangeTypeOK'
  BY <1>1, <1>2, <1>9, <1>10 DEF ExchangeTypeOK, Serving
<1> QED
  BY <1>3, <1>5, <1>6, <1>7, <1>8, <1>9, <1>11 DEF ExchangeInv

(* The relay writes a frame f behind its chunks.                           *)
LEMMA RelayWrites ==
  ASSUME ExchangeInv, gw = "relay", client = "waiting", NEW n \in Nat, n = answered + 1,
         NEW f \in Frame, Write(f)
  PROVE  /\ CodecInv' /\ mode = "tcp"
         /\ Len(sent') = n + 1 /\ Len(sent') <= MaxSent /\ n \in 0..MaxSent
         /\ answered \in 0..MaxSent
         /\ sent'[1] = Reply("TCP_OPEN", 1, 0, 1, {})
         /\ \A i \in 2..n : sent'[i] \in Chunks(i)
         /\ sent'[n + 1] = f
<1>1. /\ Answering /\ CodecInv /\ AnswerPhase /\ mode \in Modes /\ answered \in 0..MaxSent
  BY DEF Answering, ExchangeInv, ExchangeTypeOK
<1>2. CodecInv'
  BY <1>1, WriteKeepsCodec
<1>3. mode = "tcp" /\ Len(sent) = n
  BY <1>1 DEF AnswerPhase, Modes
<1>4. sent \in Seq(Frame) /\ sent' = Append(sent, f) /\ n < MaxSent
  BY <1>1, <1>3, DeliveredFrames DEF Write
<1>5. /\ Len(sent') = n + 1 /\ sent'[n + 1] = f
      /\ \A i \in 1..n : sent'[i] = sent[i]
  BY <1>3, <1>4, AppendProperties
<1>6. n \in 0..MaxSent /\ n + 1 <= MaxSent /\ n >= 1
  BY <1>1, <1>4, FrameAssumption
<1>7. /\ sent[1] = Reply("TCP_OPEN", 1, 0, 1, {})
      /\ \A i \in 2..n : sent[i] \in Chunks(i)
  BY <1>1, <1>3 DEF AnswerPhase
<1>8. /\ sent'[1] = Reply("TCP_OPEN", 1, 0, 1, {})
      /\ \A i \in 2..n : sent'[i] \in Chunks(i)
  BY <1>5, <1>6, <1>7
<1> QED
  BY <1>1, <1>2, <1>3, <1>5, <1>6, <1>8

LEMMA RelayChunkStep ==
  ASSUME ExchangeInv, RelayChunk
  PROVE  ExchangeInv'
<1>1. PICK n \in Nat : n = answered + 1
  BY FrameAssumption DEF ExchangeInv, ExchangeTypeOK
<1>2. PICK m \in ChunkSizes, f \in Frame :
        f = Reply("TCP_DATA", 1, n, m, {}) /\ Write(f)
  BY <1>1, ReplyFrames DEF RelayChunk
<1>3. /\ gw = "relay" /\ client = "waiting" /\ Write(f)
      /\ answered' = n /\ gw' = "relay"
      /\ UNCHANGED <<mode, asked, forwarded, client, cut>>
  BY <1>1, <1>2 DEF RelayChunk
<1>4. /\ CodecInv' /\ mode = "tcp"
      /\ Len(sent') = n + 1 /\ Len(sent') <= MaxSent /\ n \in 0..MaxSent
      /\ sent'[1] = Reply("TCP_OPEN", 1, 0, 1, {})
      /\ \A i \in 2..n : sent'[i] \in Chunks(i)
      /\ sent'[n + 1] = f
  BY <1>1, <1>3, RelayWrites
<1>5. ASSUME NEW i \in 2..(n + 1) PROVE sent'[i] \in Chunks(i)
  <2>1. CASE i \in 2..n
    BY <1>4, <2>1
  <2>2. CASE i = n + 1
    <3>1. i - 1 = n
      BY <2>2
    <3> QED
      BY <1>2, <1>4, <2>2, <3>1 DEF Chunks
  <2> QED
    BY <2>1, <2>2
<1>6. AnswerPhase'
  BY <1>3, <1>4, <1>5 DEF AnswerPhase, Chunks
<1> QED
  BY <1>3, <1>4, <1>6, RelayStep

LEMMA RelayFinStep ==
  ASSUME ExchangeInv, RelayFin
  PROVE  ExchangeInv'
<1>1. PICK n \in Nat : n = answered + 1
  BY FrameAssumption DEF ExchangeInv, ExchangeTypeOK
<1>2. PICK f \in Frame : f = Reply("TCP_DATA", 1, n, 0, {"FIN"})
  BY ReplyFrames
<1>3. /\ gw = "relay" /\ client = "waiting" /\ Write(f)
      /\ answered' = answered /\ gw' = "finished"
      /\ UNCHANGED <<mode, asked, forwarded, client, cut>>
  BY <1>1, <1>2 DEF RelayFin, GatewayGoes
<1>4. /\ CodecInv' /\ mode = "tcp" /\ answered \in 0..MaxSent
      /\ Len(sent') = n + 1 /\ Len(sent') <= MaxSent
      /\ sent'[1] = Reply("TCP_OPEN", 1, 0, 1, {})
      /\ \A i \in 2..n : sent'[i] \in Chunks(i)
      /\ sent'[n + 1] = f
  BY <1>1, <1>3, RelayWrites
<1>5. ASSUME NEW i \in 2..(n + 1) PROVE sent'[i] \in IF i = n + 1 THEN {Fin(i)} ELSE Chunks(i)
  <2>1. CASE i \in 2..n
    BY <1>4, <2>1
  <2>2. CASE i = n + 1
    <3>1. i - 1 = n
      BY <2>2
    <3> QED
      BY <1>2, <1>4, <2>2, <3>1 DEF Fin
  <2> QED
    BY <2>1, <2>2
<1>6. Len(sent') = answered' + 2
  BY <1>1, <1>3, <1>4
<1>7. AnswerPhase'
  BY <1>3, <1>4, <1>5, <1>6 DEF AnswerPhase, Chunks, Fin
<1> QED
  BY <1>3, <1>4, <1>7, RelayStep

LEMMA RelayStopStep ==
  ASSUME ExchangeInv, RelayStop
  PROVE  ExchangeInv'
<1>1. /\ gw = "relay" /\ client = "waiting" /\ gw' = "stopped"
      /\ UNCHANGED <<mode, asked, forwarded, client, cut>>
      /\ UNCHANGED codecVars /\ sent' = sent
  BY DEF RelayStop, codecVars, peerVars
<1>2. /\ Answering /\ CodecInv /\ AnswerPhase /\ mode \in Modes /\ answered \in 0..MaxSent
      /\ Len(sent) <= MaxSent
  BY <1>1 DEF Answering, ExchangeInv, ExchangeTypeOK
<1>3. CodecInv'
  BY <1>1, <1>2, IdleKeepsCodec
<1>4. mode = "tcp" /\ Len(sent) = answered + 1
  BY <1>1, <1>2 DEF AnswerPhase, Modes
<1>5. answered' \in 0..MaxSent
  <2>1. PICK lost \in {0, 1} : answered' = answered + lost
    BY DEF RelayStop
  <2> QED
    BY <1>2, <1>4, <2>1, FrameAssumption
<1>6. AnswerPhase'
  BY <1>1, <1>2, <1>4 DEF AnswerPhase
<1> QED
  BY <1>1, <1>2, <1>3, <1>5, <1>6, RelayStep

LEMMA ReadSteps ==
  ASSUME ExchangeInv, (\E n \in 0..written : ReadAll(n)) \/ ReadOverLimit \/ ReadFails
  PROVE  ExchangeInv'
<1>1. /\ CodecInv /\ written \in Nat /\ arrived \in 0..written
      /\ cut \in BOOLEAN
  BY DEF ExchangeInv, ExchangeTypeOK, CodecInv, CodecTypeOK
<1>2. ASSUME NEW n \in 0..written, ReadAll(n) PROVE ExchangeInv'
  <2>1. /\ Answering /\ Feed(n) /\ n \in Nat
        /\ client' = "decoding" /\ UNCHANGED <<mode, gw, asked, forwarded, answered>>
        /\ (gw # "relay" /\ n = written /\ cut' = FALSE) \/ cut' = TRUE
        /\ sent' = sent /\ written' = written /\ arrived' = arrived + n /\ arrived + n <= written
    BY <1>1, <1>2 DEF ReadAll, ClientGoes, Feed, peerVars
  <2>2. CodecInv'
    BY <1>1, <2>1, FeedKeepsCodec
  <2>3. ~cut' => arrived' = written' /\ gw' # "relay"
    <3>1. ~cut' => gw # "relay" /\ n = written
      BY <2>1, Zenon
    <3>2. n = written => arrived + n = written
      BY <1>1, <2>1
    <3> QED
      BY <2>1, <3>1, <3>2
  <2>4. ClientPhase'
    BY <2>1, <2>3 DEF ClientPhase
  <2>5. AnswerIsWhole' /\ WholeAnswerAccepted'
    BY <2>1 DEF AnswerIsWhole, WholeAnswerAccepted
  <2>6. cut' \in BOOLEAN
    BY <2>1, Zenon
  <2> QED
    BY <2>1, <2>2, <2>4, <2>5, <2>6, ResponseStep
<1>3. ASSUME ReadFails PROVE ExchangeInv'
  <2>1. /\ Answering /\ UNCHANGED codecVars /\ sent' = sent /\ cut' = cut
        /\ client' = "failed" /\ UNCHANGED <<mode, gw, asked, forwarded, answered>>
    BY <1>3 DEF ReadFails, ClientGoes, codecVars, peerVars
  <2>2. CodecInv'
    BY <1>1, <2>1, IdleKeepsCodec
  <2>3. ClientPhase' /\ AnswerIsWhole' /\ WholeAnswerAccepted'
    BY <2>1 DEF ClientPhase, AnswerIsWhole, WholeAnswerAccepted
  <2> QED
    BY <1>1, <2>1, <2>2, <2>3, ResponseStep
<1>4. ASSUME ReadOverLimit PROVE ExchangeInv'
  <2>1. /\ Answering /\ UNCHANGED codecVars /\ sent' = sent /\ written' = written /\ cut' = cut
        /\ written > MaxResponse
        /\ client' = "rejected" /\ UNCHANGED <<mode, gw, asked, forwarded, answered>>
    BY <1>4 DEF ReadOverLimit, ClientGoes, codecVars, peerVars
  <2>2. CodecInv'
    BY <1>1, <2>1, IdleKeepsCodec
  <2>3. ClientPhase' /\ AnswerIsWhole' /\ WholeAnswerAccepted'
    BY <2>1 DEF ClientPhase, AnswerIsWhole, WholeAnswerAccepted
  <2> QED
    BY <1>1, <2>1, <2>2, <2>3, ResponseStep
<1> QED
  BY <1>2, <1>3, <1>4

LEMMA DecodingSteps ==
  ASSUME ExchangeInv, DecodeResponse \/ TakeResponse
  PROVE  ExchangeInv'
<1>1. /\ CodecInv /\ client = "decoding" /\ Answering /\ cut \in BOOLEAN
      /\ ~cut => arrived = written /\ gw # "relay"
  BY DEF ExchangeInv, ExchangeTypeOK, RequestPhase, ClientPhase, DecodeResponse, TakeResponse,
         Answering
<1>2. CASE DecodeResponse
  <2>1. /\ Decode /\ sent' = sent /\ written' = written /\ arrived' = arrived
        /\ UNCHANGED <<mode, gw, asked, forwarded, answered>> /\ client' = client /\ cut' = cut
    BY <1>2 DEF DecodeResponse, Decode, peerVars, exchangeVars
  <2>2. CodecInv'
    BY <1>1, <2>1, DecodeKeepsCodec
  <2>3. ClientPhase' /\ AnswerIsWhole' /\ WholeAnswerAccepted'
    BY <1>1, <2>1 DEF ClientPhase, AnswerIsWhole, WholeAnswerAccepted
  <2> QED
    BY <1>1, <2>1, <2>2, <2>3, ResponseStep
<1>3. CASE TakeResponse
  <2>1. /\ ReturnFrames /\ sent' = sent /\ written' = written /\ arrived' = arrived
        /\ UNCHANGED <<mode, gw, asked, forwarded, answered>> /\ client' = "finishing" /\ cut' = cut
        /\ status' = "open"
    BY <1>3 DEF TakeResponse, ReturnFrames, peerVars, ClientGoes
  <2>2. CodecInv'
    BY <1>1, <2>1, ReturnKeepsCodec
  <2>3. ClientPhase' /\ AnswerIsWhole' /\ WholeAnswerAccepted'
    BY <1>1, <2>1 DEF ClientPhase, AnswerIsWhole, WholeAnswerAccepted
  <2> QED
    BY <1>1, <2>1, <2>2, <2>3, ResponseStep
<1> QED
  BY <1>2, <1>3

(* The client's codec raises only at a frame over its limit: what the      *)
(* gateway writes is legal, wherever it is cut.                            *)
LEMMA RejectResponseStep ==
  ASSUME ExchangeInv, RejectResponse
  PROVE  ExchangeInv'
<1>1. /\ CodecInv /\ client = "decoding" /\ Answering /\ cut \in BOOLEAN /\ AnswerPhase
      /\ mode \in Modes
  BY DEF ExchangeInv, ExchangeTypeOK, RequestPhase, RejectResponse, Answering
<1>2. /\ Reject /\ sent' = sent /\ limit' = limit /\ count' = count /\ status' = "failed"
      /\ UNCHANGED <<mode, gw, asked, forwarded, answered>> /\ client' = "rejected" /\ cut' = cut
  BY DEF RejectResponse, Reject, peerVars, ClientGoes
<1>3. CodecInv'
  BY <1>1, <1>2, RejectKeepsCodec
<1>4. count < Len(sent) /\ (count < limit => ~LegalAt(sent, count + 1))
  BY <1>2, <1>3 DEF CodecInv, StatusOK
<1>5. Len(sent) > limit
  <2>1. count + 1 \in 1..Len(sent)
    BY <1>1, <1>4, BufferedFrame
  <2>2. LegalAt(sent, count + 1)
    BY <1>1, <2>1, AnswerLegal
  <2> QED
    BY <1>1, <1>4, <2>2, DeliveredFrames
<1>6. ClientPhase' /\ AnswerIsWhole' /\ WholeAnswerAccepted'
  BY <1>2, <1>5 DEF ClientPhase, AnswerIsWhole, WholeAnswerAccepted
<1> QED
  BY <1>1, <1>2, <1>3, <1>6, ResponseStep

(* The client finishes: it returns whole answers, and rejects no answer    *)
(* that was finished and not cut.                                          *)
LEMMA FinishResponseStep ==
  ASSUME ExchangeInv, FinishResponse
  PROVE  ExchangeInv'
<1>1. /\ CodecInv /\ client = "finishing" /\ Answering /\ cut \in BOOLEAN /\ AnswerPhase
      /\ mode \in Modes /\ status = "open" /\ answered \in Nat
      /\ ~cut => arrived = written
  BY FrameAssumption
     DEF ExchangeInv, ExchangeTypeOK, RequestPhase, ClientPhase, FinishResponse, Answering
<1>2. PICK outcome \in Outcomes :
        /\ Finish /\ client' = outcome /\ cut' = cut
        /\ UNCHANGED <<mode, gw, asked, forwarded, answered>>
  BY DEF FinishResponse, ClientGoes
<1>3. CodecInv' /\ sent' = sent /\ delivered' = delivered /\ limit' = limit
  BY <1>1, <1>2, FinishKeepsCodec
<1>4. /\ outcome \in {"rejected", "returned", "failed"}
      /\ outcome = "rejected" => ~(CleanEnd /\ Answers(delivered))
      /\ outcome = "returned" => CleanEnd /\ Answers(delivered)
  <2>1. CASE ~(CleanEnd /\ Answers(delivered))
    BY <1>2, <2>1 DEF Outcomes
  <2>2. CASE CleanEnd /\ Answers(delivered) /\ mode = "l3"
    BY <1>2, <2>2 DEF Outcomes
  <2>3. CASE CleanEnd /\ Answers(delivered) /\ mode # "l3"
    BY <1>2, <2>3 DEF Outcomes
  <2> QED
    BY <2>1, <2>2, <2>3
<1>5. AnswerIsWhole'
  <2>1. outcome = "returned" =>
          /\ gw = "finished"
          /\ delivered = sent
          /\ mode = "tcp" =>
               Cardinality({i \in 2..Len(delivered) : delivered[i].size > 0}) = answered
    BY <1>1, <1>4, AnswersAreWhole
  <2> QED
    BY <1>2, <1>3, <2>1 DEF AnswerIsWhole
<1>6. WholeAnswerAccepted'
  <2>1. outcome = "rejected" => cut \/ gw # "finished"
    BY <1>1, <1>4, WholeAnswer
  <2> QED
    BY <1>2, <2>1 DEF WholeAnswerAccepted
<1>7. ClientPhase'
  BY <1>2, <1>4 DEF ClientPhase
<1> QED
  BY <1>1, <1>2, <1>3, <1>4, <1>5, <1>6, <1>7, ResponseStep

LEMMA ExchangeInvInit == Init => ExchangeInv
<1> SUFFICES ASSUME Init PROVE ExchangeInv
  OBVIOUS
<1>1. FreshCodec
  BY DEF Init, CodecInit, FreshCodec
<1>2. CodecInv
  BY <1>1, FreshCodecInv
<1>3. /\ sent = <<>> /\ gw = "collect" /\ asked = <<>> /\ forwarded = <<>> /\ answered = 0
      /\ client = "waiting" /\ mode \in Modes /\ CodecTypeOK /\ MaxSent \in Nat
  BY <1>2, FrameAssumption DEF Init, CodecInit, CodecInv
<1>4. cut \in BOOLEAN
  BY Zenon DEF Init
<1>5. ExchangeTypeOK
  BY <1>3, <1>4 DEF ExchangeTypeOK, Serving
<1>6. Len(sent) <= MaxSent
  BY <1>3
<1>7. RequestPhase /\ AnswerPhase /\ ClientPhase
  BY <1>3 DEF RequestPhase, AnswerPhase, ClientPhase, Answering
<1>8. ForwardsWholeRequest /\ ServesProperRequest /\ AnswerIsWhole /\ WholeAnswerAccepted
  BY <1>3 DEF ForwardsWholeRequest, ServesProperRequest, AnswerIsWhole, WholeAnswerAccepted
<1> QED
  BY <1>2, <1>5, <1>6, <1>7, <1>8 DEF ExchangeInv

LEMMA ExchangeStutter ==
  ASSUME ExchangeInv, UNCHANGED vars
  PROVE  ExchangeInv'
<1>1. UNCHANGED codecVars /\ UNCHANGED exchangeVars
  BY DEF vars
<1>2. CodecInv'
  BY <1>1, IdleKeepsCodec DEF ExchangeInv
<1>3. /\ sent' = sent /\ status' = status /\ delivered' = delivered /\ limit' = limit
      /\ arrived' = arrived /\ written' = written
      /\ mode' = mode /\ gw' = gw /\ asked' = asked /\ forwarded' = forwarded
      /\ answered' = answered /\ client' = client /\ cut' = cut
  BY <1>1 DEF codecVars, peerVars, exchangeVars
<1>4. ExchangeTypeOK'
  BY <1>2, <1>3 DEF ExchangeInv, ExchangeTypeOK, CodecInv
<1>5. RequestPhase' /\ AnswerPhase' /\ ClientPhase'
  BY <1>3 DEF ExchangeInv, RequestPhase, AnswerPhase, ClientPhase, Answering
<1>6. ServesProperRequest'
  BY <1>3 DEF ExchangeInv, ServesProperRequest, ProperRequest, Legal
<1>7. AnswerIsWhole' /\ WholeAnswerAccepted'
  BY <1>3 DEF ExchangeInv, AnswerIsWhole, WholeAnswerAccepted
<1>8. ForwardsWholeRequest'
  BY <1>3, ForwardedKept DEF ExchangeInv
<1> QED
  BY <1>2, <1>3, <1>4, <1>5, <1>6, <1>7, <1>8 DEF ExchangeInv

LEMMA ExchangeInvStep == ExchangeInv /\ [Next]_vars => ExchangeInv'
<1> SUFFICES ASSUME ExchangeInv, [Next]_vars PROVE ExchangeInv'
  OBVIOUS
<1>1. CASE (\E f \in Frames : PeerWrites(f)) \/ (\E n \in 1..(written - arrived) : Receive(n))
             \/ DecodeRequest
  BY <1>1, CollectSteps
<1>2. CASE RejectRequest
  BY <1>2, RejectRequestStep
<1>3. CASE TakeFrames
  BY <1>3, TakeFramesStep
<1>4. CASE Expire
  BY <1>4, ExpireStep
<1>5. CASE FinishRequest
  BY <1>5, FinishRequestStep
<1>6. CASE Dial
  BY <1>6, DialStep
<1>7. CASE DialFailed
  BY <1>7, DialFailedStep
<1>8. CASE AcknowledgePacket
  BY <1>8, AcknowledgeStep
<1>9. CASE RelayChunk
  BY <1>9, RelayChunkStep
<1>10. CASE RelayFin
  BY <1>10, RelayFinStep
<1>11. CASE RelayStop
  BY <1>11, RelayStopStep
<1>12. CASE (\E n \in 0..written : ReadAll(n)) \/ ReadOverLimit \/ ReadFails
  BY <1>12, ReadSteps
<1>13. CASE DecodeResponse \/ TakeResponse
  BY <1>13, DecodingSteps
<1>14. CASE RejectResponse
  BY <1>14, RejectResponseStep
<1>15. CASE FinishResponse
  BY <1>15, FinishResponseStep
<1>16. CASE UNCHANGED vars
  BY <1>16, ExchangeStutter
<1> QED
  BY <1>1, <1>2, <1>3, <1>4, <1>5, <1>6, <1>7, <1>8, <1>9, <1>10, <1>11, <1>12, <1>13, <1>14,
     <1>15, <1>16 DEF Next

-----------------------------------------------------------------------------
(* For every set of frames, every limit and every fragmentation the        *)
(* invariant of the exchange holds in every reachable state.               *)
THEOREM ExchangeInductive == Spec => []ExchangeInv
  BY ExchangeInvInit, ExchangeInvStep, PTL DEF Spec

(* The variables of the codec, the gateway's handler and the client keep   *)
(* their types; in particular _frames never passes max_frames and no more  *)
(* units are decoded than have arrived.                                    *)
THEOREM ExchangeTypes == Spec => []ExchangeTypeOK
<1>1. ExchangeInv => ExchangeTypeOK
  BY DEF ExchangeInv
<1> QED
  BY <1>1, ExchangeInductive, PTL

(* FrameCodec.feed() and finish() against the definition of a legal        *)
(* conversation: they deliver a legal beginning of what was written, raise *)
(* only at an illegal frame, notice every cut, and keep back less than one *)
(* frame.                                                                  *)
THEOREM CodecImplementsProtocol == Spec => []CodecCorrect
<1>1. ExchangeInv => CodecCorrect
  BY CodecInvCorrect DEF ExchangeInv
<1> QED
  BY <1>1, ExchangeInductive, PTL

(* _handle_tcp sends on whole requests within its limit, and nothing else. *)
THEOREM RequestsForwardedWhole == Spec => []ForwardsWholeRequest
<1>1. ExchangeInv => ForwardsWholeRequest
  BY DEF ExchangeInv
<1> QED
  BY <1>1, ExchangeInductive, PTL

(* _handle_tcp and _handle_l3 refuse no proper request for its frames.     *)
THEOREM ProperRequestsServed == Spec => []ServesProperRequest
<1>1. ExchangeInv => ServesProperRequest
  BY DEF ExchangeInv
<1> QED
  BY <1>1, ExchangeInductive, PTL

(* fetch and send_l3 return only answers the gateway wrote to their end.   *)
THEOREM AnswersReturnedWhole == Spec => []AnswerIsWhole
<1>1. ExchangeInv => AnswerIsWhole
  BY DEF ExchangeInv
<1> QED
  BY <1>1, ExchangeInductive, PTL

(* fetch and send_l3 refuse no finished answer that was not cut, unless it *)
(* has more frames than their codec takes or more than MAX_HTTP_RESPONSE.  *)
THEOREM FinishedAnswersAccepted == Spec => []WholeAnswerAccepted
<1>1. ExchangeInv => WholeAnswerAccepted
  BY DEF ExchangeInv
<1> QED
  BY <1>1, ExchangeInductive, PTL
=============================================================================
