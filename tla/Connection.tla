----------------------------- MODULE Connection ----------------------------
(***************************************************************************)
(* A SOME/IP connection over TCP, put together from the library's parts:   *)
(* the client encodes values into a pooled buffer and sends it, the kernel *)
(* takes and gives as many bytes as it likes, and the server receives into *)
(* a pooled buffer, feeds the framer and decodes what it hands out.        *)
(*                                                                         *)
(* The library leaves the loop that drives these parts to the application. *)
(* This one keeps a single send and a single receive under way, and a      *)
(* buffer as long as the kernel or the parser may look at it.              *)
(***************************************************************************)
EXTENDS Framer, SocketOps, Codec, FiniteSets

CONSTANTS
  Type,      \* the type of the payload of each message identifier
  Values,    \* the messages bsomeip clients send: [id, value]
  RawPieces, \* what other implementations put into the stream besides
  PoolSize,  \* the number of buffers in the pool
  BufSize,   \* the size of each
  None

(* A message that can be sent: its payload fits into a buffer and is not   *)
(* too long for the framer, and it is not a magic cookie.                  *)
Sendable(m) ==
  LET type == Type[m.id]
  IN /\ m = [id |-> m.id, value |-> m.value] /\ m.id \in Byte
     /\ IsType(type) /\ HasType(m.value, type)
     /\ Fits(type, BufSize - header_size) /\ Size(type) <= MaxPayload
     /\ m.id # Cookie \/ type # <<>>

ASSUME ConnectionAssumption ==
  /\ Byte = 0 .. Base - 1 /\ MaxPayload \in Byte
  /\ \A m \in Values : Sendable(m)
  /\ Ops = {"accept", "connect", "send", "recv", "close", "close_server"}
  /\ RawPieces \subseteq Seq(Byte)
  /\ PoolSize \in Nat /\ BufSize \in Nat /\ None \notin Nat

VARIABLES
  peers,     \* who has a descriptor of the connection, or waits to be accepted
  stream,    \* the bytes the kernel has taken from the client
  free_list, \* buffer_pool::free_list_
  holds,     \* the buffer that each side works with
  memory,    \* the bytes in each buffer that are of use
  sent,      \* history: what the client has encoded since it connected
  broken     \* history: an error has cut off what the client was sending

bufferVars == <<free_list, holds, memory>>
connVars   == <<peers, stream, sent, broken>>
allVars    == <<vars, opVars, bufferVars, connVars>>

Kind == [accept |-> accept_op, connect |-> connect_op, send |-> send_op,
         recv |-> recv_op, close |-> close_op, close_server |-> close_op]
WithBuffer == {o \in Ops : "buffer" \in Kind[o].reads \union Kind[o].fills}

(* serialize_message: the header, the payload, and then its length.        *)
serialize_message(m) == <<m.id, Size(Type[m.id])>> \o Serialized(Type[m.id], m.value)

(* deserialize_payload of a message that the framer has handed out.        *)
deserialize_payload(bytes) ==
  LET type == Type[bytes[1]]
      payload == From(bytes, header_size + 1)
  IN IF Readable(type, Len(payload)) THEN Deserialized(type, payload) ELSE None

(* What is sent: an encoded value or bytes of another implementation.      *)
Encoded(item) == IF "id" \in DOMAIN item THEN serialize_message(item) ELSE item.bytes
Written == FlattenSeq([i \in DOMAIN sent |-> Encoded(sent[i])])
RawItems == [bytes : RawPieces]
-----------------------------------------------------------------------------
ConnectionInit ==
  /\ Init /\ OpsInit
  /\ peers = {}
  /\ stream = <<>>
  /\ free_list = [i \in 1 .. PoolSize |-> PoolSize - i]
  /\ holds = [o \in WithBuffer |-> None]
  /\ memory = [i \in 0 .. PoolSize - 1 |-> <<>>]
  /\ sent = <<>>
  /\ broken = FALSE

(* buffer_pool::acquire, when the pool is not exhausted, and release.      *)
acquire_Shared(o) ==
  /\ free_list # <<>>
  /\ holds' = [holds EXCEPT ![o] = Last(free_list)]
  /\ UNCHANGED free_list
acquire(o) ==
  /\ free_list # <<>>
  /\ holds' = [holds EXCEPT ![o] = Last(free_list)]
  /\ free_list' = Front(free_list)

release(o) ==
  /\ free_list' = Append(free_list, holds[o])
  /\ holds' = [holds EXCEPT ![o] = None]
  /\ memory' = [memory EXCEPT ![holds[o]] = <<>>]

Buffer(o) == memory[holds[o]]
Fill(o, bytes) == memory' = [memory EXCEPT ![holds[o]] = bytes]
-----------------------------------------------------------------------------
(* The application starts an operation when it makes sense.                *)
connect ==
  /\ peers = {}
  /\ Start("connect")
  /\ broken' = FALSE
  /\ UNCHANGED <<vars, bufferVars, peers, stream, sent>>

accept ==
  /\ "server" \notin peers
  /\ Start("accept")
  /\ UNCHANGED <<vars, bufferVars, connVars>>

(* The client encodes a message once the one before has been sent whole.   *)
encode(item) ==
  /\ "client" \in peers /\ status["close"] = "idle" /\ ~ broken
  /\ holds["send"] = None /\ acquire("send")
  /\ Len(Written) + Len(Encoded(item)) <= MaxFed
  /\ memory' = [memory EXCEPT ![holds'["send"]] = Encoded(item)]
  /\ sent' = Append(sent, item)
  /\ UNCHANGED <<vars, opVars, peers, stream, broken>>

send ==
  /\ holds["send"] # None
  /\ Start("send")
  /\ UNCHANGED <<vars, bufferVars, connVars>>

recv ==
  /\ "server" \in peers /\ status["close_server"] = "idle"
  /\ status["recv"] = "idle" /\ holds["recv"] = None
  /\ acquire("recv")
  /\ Start("recv")
  /\ UNCHANGED <<vars, memory, connVars>>

close ==
  /\ "client" \in peers /\ holds["send"] = None
  /\ Start("close")
  /\ UNCHANGED <<vars, bufferVars, connVars>>
-----------------------------------------------------------------------------
(* The kernel's part.  It refuses a connection, takes some of the bytes to *)
(* send and gives some of those that came, or none when the client has     *)
(* closed and all were given.                                              *)
kernel_connects(res) ==
  /\ Finish("connect", res)
  /\ peers' = IF Failed(res) THEN peers ELSE {"client", "backlog"}
  /\ UNCHANGED <<vars, bufferVars, stream, sent, broken>>

kernel_accepts ==
  /\ "backlog" \in peers
  /\ Finish("accept", 0)
  /\ peers' = (peers \ {"backlog"}) \union {"server"}
  /\ UNCHANGED <<vars, bufferVars, stream, sent, broken>>

kernel_sends(n) ==
  /\ status["send"] = "started" /\ n \in 1 .. Len(Buffer("send"))
  /\ Finish("send", n)
  /\ stream' = stream \o SubSeq(Buffer("send"), 1, n)
  /\ UNCHANGED <<vars, bufferVars, peers, sent, broken>>

kernel_receives(n) ==
  /\ n = 0 => "client" \notin peers /\ stream = <<>>
  /\ status["recv"] = "started" /\ n \in 0 .. Len(stream)
  /\ Finish("recv", n)
  /\ Fill("recv", SubSeq(stream, 1, n))
  /\ stream' = From(stream, n + 1)
  /\ UNCHANGED <<vars, free_list, holds, peers, sent, broken>>

kernel_closes(o, who) ==
  /\ Finish(o, 0)
  /\ peers' = peers \ {who}
  /\ UNCHANGED <<vars, bufferVars, stream, sent, broken>>

kernel_fails(o, res) ==
  /\ Failed(res) /\ Finish(o, res)
  /\ UNCHANGED <<vars, bufferVars, connVars>>
-----------------------------------------------------------------------------
(* The operations complete.                                                *)
completed ==
  /\ \E o \in {"connect", "accept", "close", "close_server"} : Complete(o)
  /\ UNCHANGED <<vars, bufferVars, connVars>>

(* A short write: the rest is sent next.                                   *)
sent_bytes ==
  /\ Complete("send") /\ ~ Failed(result["send"])
  /\ LET rest == From(Buffer("send"), result["send"] + 1) IN
       IF rest = <<>> THEN release("send")
                      ELSE Fill("send", rest) /\ UNCHANGED <<free_list, holds>>
  /\ UNCHANGED <<vars, connVars>>

send_failed ==
  /\ Complete("send") /\ Failed(result["send"])
  /\ release("send")
  /\ broken' = TRUE
  /\ UNCHANGED <<vars, peers, stream, sent>>

received ==
  /\ Complete("recv") /\ result["recv"] > 0
  /\ feed(SubSeq(Buffer("recv"), 1, result["recv"]))
  /\ release("recv")
  /\ UNCHANGED connVars

(* The client has closed: the server closes too, and resets the framer for *)
(* the next connection.                                                    *)
disconnected ==
  /\ status["recv"] = "finished" /\ result["recv"] = 0
  /\ drained \/ fed = <<>>
  /\ status' = [status EXCEPT !["recv"] = "idle", !["close_server"] = "started"]
  /\ result' = [result EXCEPT !["recv"] = 0]
  /\ release("recv")
  /\ reset
  /\ sent' = <<>>
  /\ UNCHANGED <<peers, stream, broken>>

take_message == next_message /\ UNCHANGED <<opVars, bufferVars, connVars>>

ConnectionNext ==
  \/ connect \/ accept \/ send \/ recv \/ close
  \/ \E item \in Values \union RawItems : encode(item)
  \/ \E res \in Results["connect"] : kernel_connects(res)
  \/ kernel_accepts
  \/ \E res \in Results["send"] : kernel_sends(res) \/ kernel_fails("send", res)
  \/ \E res \in Results["recv"] : kernel_receives(res)
  \/ kernel_closes("close", "client") \/ kernel_closes("close_server", "server")
  \/ completed \/ sent_bytes \/ send_failed \/ received \/ disconnected
  \/ take_message

ConnectionSpec == ConnectionInit /\ [][ConnectionNext]_allVars
-----------------------------------------------------------------------------
(* What has been taken out of the stream but not fed, and what is still to *)
(* be put into it.                                                         *)
Arrived == IF status["recv"] = "finished" THEN SubSeq(Buffer("recv"), 1, result["recv"]) ELSE <<>>
Unsent ==
  IF holds["send"] = None THEN <<>>
  ELSE IF status["send"] = "finished" /\ ~ Failed(result["send"])
       THEN From(Buffer("send"), result["send"] + 1)
       ELSE Buffer("send")

(* Every byte that was encoded is in one place, in order, however short    *)
(* the writes and reads are and whichever buffers they use: fed to the     *)
(* framer, in the receive buffer, with the kernel or in the send buffer.   *)
BytesInOrder ==
  IF broken THEN IsPrefix(fed \o Arrived \o stream, Written)
            ELSE fed \o Arrived \o stream \o Unsent = Written

(* The server decodes the values the client encoded, all of them, in order *)
(* and equal, between magic cookies and however the stream is cut.         *)
OnlyValues == \A i \in DOMAIN sent : "id" \in DOMAIN sent[i] \/ sent[i].bytes = <<Cookie, 0>>
SentValues == FlattenSeq([i \in DOMAIN sent |->
                            IF "id" \in DOMAIN sent[i] THEN <<sent[i]>> ELSE <<>>])
Decoded    == [i \in DOMAIN emitted |->
                 [id |-> emitted[i][1], value |-> deserialize_payload(emitted[i])]]
DecodedAreSent ==
  OnlyValues =>
    /\ IsPrefix(Decoded, SentValues)
    /\ drained /\ fed = Written => Decoded = SentValues
=============================================================================
