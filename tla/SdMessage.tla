----------------------------- MODULE SdMessage -----------------------------
(***************************************************************************)
(* Service-discovery messages on the wire: discovery::tick puts entries    *)
(* and the options they refer to into messages, build_sd_message writes    *)
(* one into a buffer, the network carries it to a peer, whose receive      *)
(* buffer may be too small, and deserialize_sd reads it.                   *)
(*                                                                         *)
(* An entry refers to a run of the options of its message by the position  *)
(* of the first and their number.  A datagram is the record of its fields, *)
(* each cut to its width, and of the number of bytes that are there.  The  *)
(* peer sends too, and knows types of options that this code does not.     *)
(* Which offers are due when, Discovery tells.                             *)
(***************************************************************************)
EXTENDS Integers, Sequences, SequencesExt

CONSTANTS
  Services,
  Types,       \* the types of option that offers of this side have
  PeerTypes,   \* the types of option that the peer attaches
  OptionSize,  \* the size of an option of each type
  HeaderSize,  \* wire::header_size
  EntrySize,   \* entry_size
  LengthSize,  \* the size of a length field
  FlagsSize,   \* the size of the flags and what is reserved with them
  IndexMod,    \* the values of index_1st: 2^8
  CountMod,    \* the values of num_options_1st on the wire: 2^4
  TtlMod,      \* the values of a time to live on the wire: 2^24
  OfferTtl,    \* sd_config::offer_ttl, and find_ttl
  MaxOffers,   \* bound: length of offers_
  MaxStops,    \* bound: length of pending_stop_offers_
  MaxOptions,  \* bound: options of an offer
  MaxRoom,     \* bound: the size of a buffer
  None

KnownTypes == {"ipv4", "ipv6"}

(* Nothing in the code checks that positions, numbers and times to live    *)
(* fit into their fields.  A number has half the bits of a position.       *)
ASSUME SdMessageAssumption ==
  /\ Types \subseteq KnownTypes
  /\ OptionSize \in [Types \union PeerTypes -> Nat \ {0}]
  /\ {HeaderSize, EntrySize, LengthSize, FlagsSize} \subseteq Nat \ {0}
  /\ {IndexMod, CountMod, TtlMod} \subseteq Nat \ {0}
  /\ {MaxOffers, MaxStops, MaxOptions, MaxRoom} \subseteq Nat
  /\ OfferTtl \in 1 .. TtlMod - 1
  /\ MaxOptions < CountMod /\ CountMod <= IndexMod
  /\ (MaxOffers - 1) * MaxOptions < IndexMod

VARIABLES
  offers,    \* discovery::offers_: the service and the options of each
  stops,     \* discovery::pending_stop_offers_, likewise
  finds,     \* discovery::finds_: the service of each
  outbox,    \* the messages to be built
  datagram,  \* the datagram under way
  received,  \* what deserialize_sd made of the last datagram
  about      \* history: the message it was built from

sdVars == <<offers, stops, finds, outbox, datagram, received, about>>

(* The elements of a list that are in S, in its order.                     *)
Sublist(list, S) ==
  FlattenSeq([i \in DOMAIN list |-> IF list[i] \in S THEN <<list[i]>> ELSE <<>>])

(* An option remembers whose it is, which its bytes do not tell.           *)
OffersWith(types) ==
  UNION {[service : {s},
          options : UNION {[1 .. n -> [type : types, of : {s}]] : n \in 0 .. MaxOptions}]
         : s \in Services}

-----------------------------------------------------------------------------
service_entry(type, s, ttl) ==
  [type |-> type, service |-> s, ttl |-> ttl, index |-> 0, count |-> 0,
   minor |-> 1, group |-> 0]
make_find_service(s)  == service_entry("find", s, OfferTtl)
make_offer_service(s) == service_entry("offer", s, OfferTtl)
make_stop_offer(s)    == service_entry("offer", s, 0)
eventgroup_entry(type, s, ttl) ==
  [type |-> type, service |-> s, ttl |-> ttl, index |-> 0, count |-> 0,
   minor |-> 0, group |-> 1]

SdInit ==
  /\ offers = <<>> /\ stops = <<>> /\ finds = <<>>
  /\ outbox = <<>>
  /\ datagram = None /\ received = None /\ about = None

(* A message under way does not depend on what is called meanwhile: that   *)
(* nothing is, is a bound.  The history ends with the next call.           *)
Quiet ==
  /\ outbox = <<>> /\ datagram = None
  /\ received' = None /\ about' = None
  /\ UNCHANGED datagram

start_offer(o) ==
  /\ Quiet
  /\ Len(offers) < MaxOffers
  /\ offers' = Append(offers, o)
  /\ UNCHANGED <<stops, finds, outbox>>

(* The first offer of the service, if there is one.                        *)
stop_offer(s) ==
  /\ Quiet
  /\ Len(stops) < MaxStops
  /\ \E i \in 1 .. Len(offers) :
       /\ offers[i].service = s
       /\ \A j \in 1 .. i - 1 : offers[j].service # s
       /\ stops' = Append(stops, offers[i])
       /\ offers' = RemoveAt(offers, i)
  /\ UNCHANGED <<finds, outbox>>

start_find(s) ==
  /\ Quiet
  /\ finds = <<>>    \* bound: one find
  /\ finds' = <<s>>
  /\ UNCHANGED <<offers, stops, outbox>>

(* The options of some offers, one after the other, and an entry for the   *)
(* i-th of them: its options begin where those before it end.              *)
OptionsOf(due) == FlattenSeq([i \in 1 .. Len(due) |-> due[i].options])
First_After(due, i) == Len(OptionsOf(SubSeq(due, 1, i)))
First(due, i) == Len(OptionsOf(SubSeq(due, 1, i - 1)))
WithRun(e, due, i) ==
  IF due[i].options = <<>> THEN e
  ELSE [e EXCEPT !.index = First(due, i) % IndexMod,
                 !.count = Len(due[i].options) % IndexMod]

offer_message(due) ==
  [entries |-> [i \in 1 .. Len(stops) |-> make_stop_offer(stops[i].service)]
                 \o [i \in 1 .. Len(due) |->
                        WithRun(make_offer_service(due[i].service), due, i)],
   options |-> OptionsOf(due)]
find_message(due) ==
  [entries |-> [i \in 1 .. Len(due) |-> make_find_service(due[i])], options |-> <<>>]

(* tick, when these offers and these finds are due: at most two messages,  *)
(* none without entries.                                                   *)
tick(due, sought) ==
  /\ Quiet
  /\ stops' = <<>>
  /\ LET unless_empty(m) == IF m.entries = <<>> THEN <<>> ELSE <<m>>
     IN outbox' = unless_empty(offer_message(due)) \o unless_empty(find_message(sought))
  /\ UNCHANGED <<offers, finds>>

(* A message of the peer: an entry for each of these, with its options.    *)
(* It is laid out as build_sd_message lays out those of this side.         *)
(* What this side does has no part in it: that it does nothing is a bound. *)
peer_message(type, ttl, those) ==
  /\ Quiet
  /\ offers = <<>> /\ stops = <<>> /\ finds = <<>>
  /\ LET e(s) == IF type = "offer" THEN service_entry(type, s, ttl)
                                   ELSE eventgroup_entry(type, s, ttl)
     IN outbox' = <<[entries |-> [i \in 1 .. Len(those) |->
                                    WithRun(e(those[i].service), those, i)],
                     options |-> OptionsOf(those)]>>
  /\ UNCHANGED <<offers, stops, finds>>

(* What write_entry makes of an entry: every field cut to its width, and   *)
(* one field that is the minor version or the eventgroup.                  *)
is_service_entry(type) == type \in {"find", "offer"}
write_entry(e) ==
  [type |-> e.type, service |-> e.service, ttl |-> e.ttl % TtlMod,
   index |-> e.index % IndexMod, count |-> e.count % CountMod,
   last |-> IF is_service_entry(e.type) THEN e.minor ELSE e.group]
read_entry(w) ==
  [type |-> w.type, service |-> w.service, ttl |-> w.ttl,
   index |-> w.index, count |-> w.count,
   minor |-> IF is_service_entry(w.type) THEN w.last ELSE 0,
   group |-> IF is_service_entry(w.type) THEN 0 ELSE w.last]

BytesOf(options) ==
  FoldLeft(LAMBDA sum, size : sum + size, 0,
           [i \in DOMAIN options |-> OptionSize[options[i].type]])
MinSize == FlagsSize + 2 * LengthSize
Total(m) == HeaderSize + MinSize + Len(m.entries) * EntrySize + BytesOf(m.options)
HasRoom_Entries(room, m) == room >= HeaderSize + MinSize + Len(m.entries) * EntrySize
HasRoom(room, m) == room >= Total(m)

serialize_sd(m) ==
  [size |-> Total(m),
   entries_len |-> Len(m.entries) * EntrySize,
   entries |-> [i \in 1 .. Len(m.entries) |-> write_entry(m.entries[i])],
   options_len |-> BytesOf(m.options),
   options |-> m.options]

(* build_sd_message into a buffer of this size.  Without room it returns 0 *)
(* and nothing can be sent, but a message without entries it sends as a    *)
(* header that nothing follows.                                            *)
build_sd_message(room) ==
  /\ outbox # <<>>
  /\ about' = Head(outbox)
  /\ outbox' = Tail(outbox)
  /\ received' = None
  /\ LET m == Head(outbox) IN
       \/ HasRoom(room, m) /\ datagram' = serialize_sd(m)
       \/ ~HasRoom(room, m) /\ (m.entries # <<>> \/ room < HeaderSize)
            /\ datagram' = None
       \/ ~HasRoom(room, m) /\ m.entries = <<>> /\ room >= HeaderSize
            /\ datagram' = [serialize_sd(m) EXCEPT !.size = HeaderSize]
  /\ UNCHANGED <<offers, stops, finds>>

(* The receiver's buffer takes only the first size bytes of the datagram.  *)
cut(size) ==
  /\ datagram # None
  /\ size < datagram.size
  /\ datagram' = [datagram EXCEPT !.size = size]
  /\ UNCHANGED <<offers, stops, finds, outbox, received, about>>

(* deserialize_sd: the checks that return an error; then options of types  *)
(* it does not know are skipped.                                           *)
EntriesEnd(d) == HeaderSize + FlagsSize + LengthSize + d.entries_len
Valid_AnyOptions(d) ==
  /\ d.size >= HeaderSize + MinSize
  /\ EntriesEnd(d) + LengthSize <= d.size
  /\ d.entries_len % EntrySize = 0
Valid(d) ==
  /\ d.size >= HeaderSize + MinSize
  /\ EntriesEnd(d) + LengthSize <= d.size
  /\ d.entries_len % EntrySize = 0
  /\ EntriesEnd(d) + LengthSize + d.options_len <= d.size
Parsed(d) ==
  [entries |-> [i \in 1 .. Len(d.entries) |-> read_entry(d.entries[i])],
   options |-> Sublist(d.options, {o \in ToSet(d.options) : o.type \in KnownTypes})]

deserialize_sd ==
  /\ datagram # None
  /\ datagram' = None
  /\ received' = IF Valid(datagram) THEN [size |-> datagram.size, message |-> Parsed(datagram)]
                                    ELSE None
  /\ UNCHANGED <<offers, stops, finds, outbox, about>>

(* What may be due of a list.                                              *)
DueLists(list) == {Sublist(list, due) : due \in SUBSET ToSet(list)}
UpTo2(S) == {<<>>} \union {<<x>> : x \in S} \union (S \X S)

-----------------------------------------------------------------------------
(* What is received is what was sent, whole: entries in order and field by *)
(* field, and the options; a datagram that was cut anywhere is refused.    *)
ReceivedIsSent ==
  received # None =>
    /\ received.size = Total(about)
    /\ received.message.entries = about.entries
    /\ received.message.options = about.options

(* build_sd_message returns "the total message size, or 0 if the buffer is *)
(* too small": what it lets out is the whole message.  A message without   *)
(* entries is the exception.                                               *)
BuiltWhole ==
  [][outbox' # outbox /\ datagram' # None /\ about'.entries # <<>> =>
       \A room \in 0 .. MaxRoom :
         build_sd_message(room) => datagram'.size = Total(about') /\ datagram'.size <= room]_sdVars

(* In the run of options an entry of a received message refers to are none *)
(* but those of its own offer: what belongs to one service is never taken  *)
(* for another's, however many offers a message carries.                   *)
OptionsBelong ==
  received # None =>
    \A i \in 1 .. Len(received.message.entries) :
      LET e == received.message.entries[i]
          options == received.message.options
      IN \A k \in e.index + 1 .. e.index + e.count :
           k <= Len(options) => options[k].of = e.service
=============================================================================
