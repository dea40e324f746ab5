------------------------------- MODULE Framer ------------------------------
(***************************************************************************)
(* The TCP framer: it is fed the byte stream in pieces of any size and     *)
(* hands out one message at a time, skipping magic cookies and, where the  *)
(* length it reads is too large, single bytes.                             *)
(*                                                                         *)
(* A header has two bytes instead of sixteen, an identifier (the service   *)
(* and method) and the length of the payload.  What follows a wrong length *)
(* is read as a header that begins one byte later, as in the code.         *)
(***************************************************************************)
EXTENDS Integers, Sequences

CONSTANTS
  Byte,       \* the values of a byte
  Cookie,     \* the identifier of a magic cookie
  MaxPayload, \* the longest payload of max_tcp_message_size
  MaxFed      \* bound: bytes fed in all

ASSUME FramerAssumption ==
  /\ Byte \subseteq Nat /\ Cookie \in Byte
  /\ MaxPayload \in Nat /\ MaxFed \in Nat

VARIABLES
  buf,      \* framer::buf_
  consumed, \* framer::consumed_
  fed,      \* history: all bytes fed since the last reset
  emitted,  \* history: the messages handed out since then
  drained   \* history: the last call was next_message, and it had none

vars == <<buf, consumed, fed, emitted, drained>>

header_size == 2

(* What the bytes s begin with.                                            *)
HasHeader(s)      == Len(s) >= header_size
payload_length(s) == s[2]
message_size(s)   == header_size + payload_length(s)
IsCookie(s)       == s[1] = Cookie /\ payload_length(s) = 0
TooLarge(s)       == payload_length(s) > MaxPayload
From(s, i)        == SubSeq(s, i, Len(s))

Whole_OffByOne(s) == Len(s) > message_size(s)
Whole(s) == Len(s) >= message_size(s)

(* The rescan loop: what it leaves.  A cookie is skipped with its header,  *)
(* a length that is too large with one byte.                               *)
SkipLarge_Message(s) == From(s, message_size(s) + 1)
SkipLarge(s) == From(s, 2)
rescan[s \in Seq(Byte)] ==
  IF HasHeader(s) /\ IsCookie(s) THEN rescan[From(s, header_size + 1)]
  ELSE IF HasHeader(s) /\ TooLarge(s) THEN rescan[SkipLarge(s)]
  ELSE s
-----------------------------------------------------------------------------
Init ==
  /\ buf = <<>>
  /\ consumed = 0
  /\ fed = <<>>
  /\ emitted = <<>>
  /\ drained = FALSE

feed(piece) ==
  /\ Len(fed) + Len(piece) <= MaxFed
  /\ buf' = buf \o piece
  /\ fed' = fed \o piece
  /\ drained' = FALSE
  /\ UNCHANGED <<consumed, emitted>>

(* The message handed out by the call before is erased first.              *)
Kept == From(buf, consumed + 1)
next_message ==
  LET s == rescan[Kept]
  IN /\ buf' = s
     /\ IF HasHeader(s) /\ Whole(s)
        THEN /\ consumed' = message_size(s)
             /\ emitted' = Append(emitted, SubSeq(s, 1, message_size(s)))
             /\ drained' = FALSE
        ELSE /\ consumed' = 0
             /\ drained' = TRUE
             /\ UNCHANGED emitted
     /\ UNCHANGED fed

reset ==
  /\ buf' = <<>>
  /\ consumed' = 0
  /\ fed' = <<>>
  /\ emitted' = <<>>
  /\ drained' = FALSE
-----------------------------------------------------------------------------
(* The messages of a stream that is there as a whole.                      *)
Messages[s \in Seq(Byte)] ==
  IF ~ HasHeader(s) THEN <<>>
  ELSE IF IsCookie(s) THEN Messages[From(s, header_size + 1)]
  ELSE IF TooLarge(s) THEN Messages[From(s, 2)]
  ELSE IF Len(s) < message_size(s) THEN <<>>
  ELSE <<SubSeq(s, 1, message_size(s))>> \o Messages[From(s, message_size(s) + 1)]

(* How the stream is cut into pieces, and when messages are asked for,     *)
(* makes no difference: what was handed out, followed by what the rest of  *)
(* the buffer holds, is what the whole stream holds.                       *)
PiecesDoNotMatter == emitted \o Messages[Kept] = Messages[fed]

(* When next_message has nothing to hand out, every complete message has   *)
(* been handed out: none waits for bytes it does not need.                 *)
NothingHeldBack == drained => emitted = Messages[fed]
=============================================================================
