----------------------------- MODULE SdOverUdp -----------------------------
(***************************************************************************)
(* Service-discovery messages over UDP: what build_sd_message has written  *)
(* is sent with async_sendto, and async_recvfrom fills a buffer of the     *)
(* receiver, from which deserialize_sd reads.  Datagrams get lost, and one *)
(* that is larger than the buffer is cut without a word.                   *)
(*                                                                         *)
(* The library leaves it to the application to connect these parts.  This  *)
(* one keeps one send and one receive under way.                           *)
(***************************************************************************)
EXTENDS SdMessage, SocketOps

ASSUME UdpAssumption == Ops = {"sendto", "recvfrom"}

VARIABLE place  \* where the datagram is: "sender", "network" or "receiver"

udpVars == <<sdVars, opVars, place>>

(* What an operation in the kernel may do with the caller's memory.        *)
Kind == [sendto |-> sendto_op, recvfrom |-> recvfrom_op]
Reads(o) == "buffer" \in Kind[o].reads
Fills(o) == "buffer" \in Kind[o].fills
-----------------------------------------------------------------------------
UdpInit == SdInit /\ OpsInit /\ place = "sender"

(* The two buffers: the sender writes when the kernel does not read, and   *)
(* the receiver reads when the kernel does not fill.                       *)
Writable == \A o \in Ops : Reads(o) => status[o] = "idle"
Readable == \A o \in Ops : Fills(o) => status[o] = "idle"

build(room) ==
  /\ Writable
  /\ datagram = None    \* bound: one datagram under way
  /\ build_sd_message(room)
  /\ place' = "sender"
  /\ UNCHANGED opVars

sendto ==
  /\ datagram # None /\ place = "sender"
  /\ Start("sendto")
  /\ UNCHANGED <<sdVars, place>>

(* The receiver may have waited since long ago, which makes no difference: *)
(* that it starts only now, and what is lost is lost before, is a bound.   *)
recvfrom ==
  /\ datagram # None /\ place = "network"
  /\ Start("recvfrom")
  /\ UNCHANGED <<sdVars, place>>

kernel_sends ==
  /\ place = "sender"
  /\ Finish("sendto", datagram.size)
  /\ place' = "network"
  /\ UNCHANGED sdVars

kernel_refuses ==
  /\ place = "sender"
  /\ \E res \in Results["sendto"] : Failed(res) /\ Finish("sendto", res)
  /\ datagram' = None
  /\ UNCHANGED <<offers, stops, finds, outbox, received, about, place>>

lose ==
  /\ datagram # None /\ place = "network" /\ status["recvfrom"] = "idle"
  /\ datagram' = None
  /\ UNCHANGED <<offers, stops, finds, outbox, received, about, opVars, place>>

(* The size of the buffer was chosen with the receive; it matters now.     *)
kernel_receives(room) ==
  /\ datagram # None /\ place = "network"
  /\ place' = "receiver"
  /\ \/ /\ room >= datagram.size
        /\ Finish("recvfrom", datagram.size)
        /\ UNCHANGED sdVars
     \/ /\ cut(room)
        /\ Finish("recvfrom", room)

completes(o) ==
  /\ Complete(o)
  /\ UNCHANGED <<sdVars, place>>

deserialize ==
  /\ Readable
  /\ place = "receiver"
  /\ deserialize_sd
  /\ UNCHANGED <<opVars, place>>

(* As in SdMessage, nothing is called while a datagram is under way.       *)
AtRest == datagram = None /\ \A o \in Ops : status[o] = "idle"
Called ==
  \/ \E o \in OffersWith(Types) : start_offer(o)
  \/ \E s \in Services : stop_offer(s)
  \/ \E s \in Services : start_find(s)
  \/ \E due \in DueLists(offers), sought \in DueLists(finds) : tick(due, sought)
  \/ /\ offers = <<>> /\ stops = <<>> /\ finds = <<>>
     /\ \E type \in {"offer", "subscribe", "ack"}, ttl \in {0, OfferTtl},
           those \in UpTo2(OffersWith(PeerTypes)) : peer_message(type, ttl, those)

UdpNext ==
  \/ AtRest /\ outbox = <<>> /\ Called /\ UNCHANGED <<opVars, place>>
  \/ \E room \in 0 .. MaxRoom : build(room)
  \/ sendto \/ recvfrom
  \/ kernel_sends \/ kernel_refuses \/ lose
  \/ \E room \in HeaderSize .. MaxRoom : kernel_receives(room)
  \/ \E o \in Ops : completes(o)
  \/ deserialize

UdpSpec == UdpInit /\ [][UdpNext]_udpVars
=============================================================================
