-------------------------------- MODULE Wire --------------------------------
(***************************************************************************)
(* Packets as bytes and back (wire/endian/helper.go, wire/pkt), within the *)
(* frames of a tcp connection (tcp/connection.go), whose reader takes the  *)
(* bytes as they come.  A byte has Base values; a length takes LongLen or  *)
(* ShortLen bytes.  One goroutine writes: what two of them do to a frame   *)
(* is in Channel.tla.                                                      *)
(***************************************************************************)
EXTENDS Naturals, Sequences

CONSTANTS
    Base,      \* 256
    LongLen,   \* bytes of a uint32
    ShortLen,  \* bytes of a uint16
    MagicLogicPkt, MagicBasicPkt,  \* wire/definitions.go:10-11
    OpBinary, OpPing,
    LogicPkts, \* packets that are sent: records of header and body
    BasicPkts, \* and records of code and body
    MaxFrames  \* how many frames are sent

VARIABLES
    packets,   \* what was sent, in order: packets, or << >> for a ping
    wire,      \* bytes on their way
    stage,     \* what ReadFrame reads: "op", "length" or "payload"
    buf,       \* the bytes of it that came so far
    need,      \* how many it takes
    op,        \* the op code of this frame
    frames     \* the frames ReadFrame returned

wireVars == <<packets, wire, stage, buf, need, op, frames>>

WireInit ==
    /\ packets = << >> /\ wire = << >>
    /\ stage = "op" /\ buf = << >> /\ need = 1 /\ op = 0
    /\ frames = << >>

-----------------------------------------------------------------------------
(* wire/endian: big-endian numbers and byte strings with their length.     *)

Bytes == 0..(Base - 1)

\* Shifted(n, width)[i] is n without its i last bytes: n >> 8, n >> 16 and so on.
Shifted(n, width) ==
    LET shifted[i \in 0..width] == IF i = 0 THEN n ELSE shifted[i - 1] \div Base
    IN shifted

Fits(n, width) == Shifted(n, width)[width] = 0

\* Changed form: the least byte comes first.
PutUintLittle(n, width) == [i \in 1..width |-> Shifted(n, width)[i - 1] % Base]

\* Digits beyond the width are lost, as in uint32(bufLen).
PutUint(n, width) == [i \in 1..width |-> Shifted(n, width)[width - i] % Base]

\* Values(bytes)[i] is the number that the first i bytes make.
Values(bytes) ==
    LET value[i \in 0..Len(bytes)] ==
            IF i = 0 THEN 0 ELSE value[i - 1] * Base + bytes[i]
    IN value

Uint(bytes) == Values(bytes)[Len(bytes)]

WriteBytes(bytes) == PutUint(Len(bytes), LongLen) \o bytes

\* ReadFull takes n bytes from position i, or none, with an error, when they
\* are not all there (which no payload of a whole frame lets happen).
Fixed(bytes, i, n) ==
    IF i + n - 1 <= Len(bytes) THEN SubSeq(bytes, i, i + n - 1) ELSE << >>

\* A byte string after its length.
ReadBytes(bytes, i) == Fixed(bytes, i + LongLen, Uint(Fixed(bytes, i, LongLen)))

-----------------------------------------------------------------------------
(* wire/pkt.  The header is the bytes protobuf makes of it; the Length of a *)
(* basic packet is that of its body.                                       *)

EncodeLogic(p) == WriteBytes(p.header) \o WriteBytes(p.body)

EncodeBasic(p) == PutUint(p.code, ShortLen) \o PutUint(Len(p.body), ShortLen) \o p.body

\* Changed form: every packet gets the magic of a logic packet.
MarshalUnmarked(p) == MagicLogicPkt \o (IF "header" \in DOMAIN p THEN EncodeLogic(p)
                                                               ELSE EncodeBasic(p))

Marshal(p) == IF "header" \in DOMAIN p THEN MagicLogicPkt \o EncodeLogic(p)
                                       ELSE MagicBasicPkt \o EncodeBasic(p)

ASSUME BytesAssumption ==
    /\ MaxFrames \in Nat
    /\ Base \in Nat \ {0, 1} /\ LongLen \in Nat \ {0} /\ ShortLen \in Nat
    /\ MagicLogicPkt \in Seq(Bytes) /\ MagicBasicPkt \in Seq(Bytes)
    /\ Len(MagicLogicPkt) = Len(MagicBasicPkt) /\ MagicLogicPkt # MagicBasicPkt
    /\ OpBinary \in Bytes /\ OpPing \in Bytes /\ OpBinary # OpPing

\* Lengths fit their fields: no packet is longer than a uint32, no code and no
\* body of a basic packet is beyond a uint16.
ASSUME PacketsAssumption ==
    /\ \A p \in LogicPkts :
          /\ p \in [header : Seq(Bytes), body : Seq(Bytes)]
          /\ Fits(Len(p.header), LongLen) /\ Fits(Len(p.body), LongLen)
    /\ \A p \in BasicPkts :
          /\ p \in [code : Nat, body : Seq(Bytes)]
          /\ Fits(p.code, ShortLen) /\ Fits(Len(p.body), ShortLen)
    /\ \A p \in LogicPkts \cup BasicPkts : Fits(Len(Marshal(p)), LongLen)

DecodeLogic(bytes) ==
    LET header == ReadBytes(bytes, 1) IN
    [header |-> header, body |-> ReadBytes(bytes, LongLen + Len(header) + 1)]

DecodeBasic(bytes) ==
    LET length == Uint(Fixed(bytes, ShortLen + 1, ShortLen)) IN
    [code |-> Uint(Fixed(bytes, 1, ShortLen)), body |-> Fixed(bytes, 2 * ShortLen + 1, length)]

\* The magic tells which packet to decode; any other is an error.
Read(bytes) ==
    LET m == Len(MagicLogicPkt)
        magic == Fixed(bytes, 1, m)
        rest == SubSeq(bytes, m + 1, Len(bytes))
    IN
    CASE magic = MagicLogicPkt -> DecodeLogic(rest)
      [] magic = MagicBasicPkt -> DecodeBasic(rest)
      [] OTHER -> << >>

-----------------------------------------------------------------------------
(* The connection. *)

WriteFrame(code, payload, packet) ==
    /\ Len(packets) < MaxFrames
    /\ packets' = Append(packets, packet)
    /\ wire' = wire \o PutUint(code, 1) \o WriteBytes(payload)
    /\ UNCHANGED <<stage, buf, need, op, frames>>

WriteAny ==
    \/ \E p \in LogicPkts \cup BasicPkts : WriteFrame(OpBinary, Marshal(p), p)
    \/ WriteFrame(OpPing, << >>, << >>)

Expect(what, n) == stage' = what /\ need' = n /\ buf' = << >>

FrameRead(payload) ==
    /\ frames' = Append(frames, [op |-> op, payload |-> payload])
    /\ Expect("op", 1)

\* One byte of those ReadFull waits for.
ReadMore ==
    /\ wire # << >> /\ Len(buf) + 1 < need
    /\ buf' = Append(buf, Head(wire))
    /\ wire' = Tail(wire)
    /\ UNCHANGED <<packets, stage, need, op, frames>>

\* The last one; ReadFull of no bytes waits for nothing.
ReadLast ==
    LET bytes == Append(buf, Head(wire)) IN
    /\ wire # << >> /\ Len(buf) + 1 = need
    /\ wire' = Tail(wire)
    /\ \/ stage = "op" /\ op' = Uint(bytes) /\ Expect("length", LongLen)
          /\ UNCHANGED frames
       \/ stage = "length" /\ Uint(bytes) > 0 /\ Expect("payload", Uint(bytes))
          /\ UNCHANGED <<op, frames>>
       \/ stage = "length" /\ Uint(bytes) = 0 /\ FrameRead(<< >>) /\ UNCHANGED op
       \/ stage = "payload" /\ FrameRead(bytes) /\ UNCHANGED op
    /\ UNCHANGED packets

WireNext == WriteAny \/ ReadMore \/ ReadLast

WireSpec == WireInit /\ [][WireNext]_wireVars

-----------------------------------------------------------------------------
(* Properties. *)

\* However the bytes come in, the frames that were read are those that were
\* written, in order and up to the greatest length there is, with none missing
\* when no byte is on its way, and each payload reads back as the packet that
\* was marshalled, whatever bytes its header and its body hold.
RoundTrip ==
    /\ Len(frames) <= Len(packets)
    /\ wire = << >> /\ stage = "op" => Len(frames) = Len(packets)
    /\ \A i \in 1..Len(frames) :
          LET f == frames[i] IN
          IF packets[i] = << >> THEN f = [op |-> OpPing, payload |-> << >>]
          ELSE f.op = OpBinary /\ Read(f.payload) = packets[i]

\* What the caller of ReadFrame makes of a frame.
Decoded(f) == IF f.op = OpPing THEN << >> ELSE Read(f.payload)

\* To the packets that go over it a connection that holds is an outbox that
\* never breaks: each step of the bytes gives one packet to the other end, the
\* oldest that is on its way, or none.  The modules that have connections as
\* sequences of packets rest on this.
Pipe == INSTANCE Outbox WITH
    Payloads <- LogicPkts \cup BasicPkts \cup {<< >>}, Bound <- MaxFrames,
    queue <- SubSeq(packets, Len(frames) + 1, Len(packets)),
    sent <- [i \in 1..Len(frames) |-> Decoded(frames[i])],
    broken <- FALSE
PipeSpec == Pipe!Spec

=============================================================================
