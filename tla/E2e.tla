-------------------------------- MODULE E2e --------------------------------
(***************************************************************************)
(* End-to-end protection of a stream of messages: protect_sender stamps    *)
(* each with a counter and a CRC, check_sender judges each by its CRC and  *)
(* by how far the counter has moved since the last one that was intact.    *)
(* The profiles 01, 02, 04 and 07 differ in the width of the counter.      *)
(*                                                                         *)
(* The channel keeps the order of the messages; it may lose, corrupt and   *)
(* repeat them, and the receiver may begin to listen at any time.          *)
(***************************************************************************)
EXTENDS Integers, Sequences

CONSTANTS
  Modulus,    \* values of the counter in a message: 2^4, 2^16 or 2^32
  CounterMod, \* values of e2e_state::send_counter: 2^32
  MaxDelta,   \* max_delta_counter of the profile's configuration
  MaxNumber,  \* bound: how many counter values are used
  MaxQueue    \* bound: messages under way

ASSUME E2eAssumption ==
  /\ Modulus \in Nat /\ Modulus > 1
  /\ CounterMod \in Nat /\ CounterMod > 0 /\ CounterMod % Modulus = 0
  /\ MaxDelta \in Nat
  /\ MaxNumber \in Nat /\ MaxQueue \in Nat

VARIABLES
  send_counter, \* e2e_state::send_counter of the sender
  recv_counter, \* e2e_state::recv_counter of the receiver
  channel,      \* the messages under way, in order
  number,       \* history: how many counter values the sender has used
  checked,      \* history: the number of the last message that passed its CRC
  accepted,     \* history: the highest number passed on with set_value
  verdict       \* history: the last judgement and what there was to judge

vars == <<send_counter, recv_counter, channel, number, checked, accepted, verdict>>

(* What a message carries: "bare" is a header alone, "short" a payload too *)
(* short for the profile's header, "damaged" a payload whose CRC is wrong. *)
Bodies  == {"bare", "short", "intact", "damaged"}
Message == [body : Bodies, counter : 0 .. Modulus - 1, number : 0 .. MaxNumber]
Results == {"ok", "wrong_crc", "wrong_sequence", "repeated", "error"}

(* No message has passed the CRC yet.                                      *)
Fresh == -1
-----------------------------------------------------------------------------
Init ==
  /\ send_counter = 1 % CounterMod
  /\ recv_counter = 0
  /\ channel = <<>>
  /\ number = 0
  /\ checked = Fresh
  /\ accepted = 0
  /\ verdict = [result |-> "error", gap |-> Fresh]

(* The counter is cut to the width it has in the message.                  *)
Stamp == send_counter % Modulus

Send(body) ==
  /\ Len(channel) < MaxQueue
  /\ channel' = Append(channel, [body |-> body, counter |-> Stamp, number |-> number'])

(* protect_sender: the counter moves on even if the payload is too short   *)
(* for Profile::protect to write it.                                       *)
protect(body) ==
  /\ number < MaxNumber
  /\ number' = number + 1
  /\ send_counter' = (send_counter + 1) % CounterMod
  /\ Send(body)
  /\ UNCHANGED <<recv_counter, checked, accepted, verdict>>

(* A message without payload is passed on as it is.                        *)
pass_bare ==
  /\ UNCHANGED number
  /\ Send("bare")
  /\ UNCHANGED <<send_counter, recv_counter, checked, accepted, verdict>>

lose ==
  /\ channel # <<>>
  /\ channel' = Tail(channel)
  /\ UNCHANGED <<send_counter, recv_counter, number, checked, accepted, verdict>>

corrupt ==
  /\ channel # <<>>
  /\ Head(channel).body = "intact"
  /\ channel' = [channel EXCEPT ![1].body = "damaged"]
  /\ UNCHANGED <<send_counter, recv_counter, number, checked, accepted, verdict>>

(* Profile::check on an intact message.                                    *)
Delta_Unmasked(counter) == counter - recv_counter
Delta(counter) == (counter - recv_counter) % Modulus
Judge_AcceptsZero(delta) == IF delta <= MaxDelta THEN "ok" ELSE "wrong_sequence"
Judge(delta) ==
  CASE delta = 0 -> "repeated"
    [] delta \in 1 .. MaxDelta -> "ok"
    [] OTHER -> "wrong_sequence"

(* The counter of an intact message becomes the last one whatever the      *)
(* judgement.                                                              *)
Remember(m) == recv_counter' = m.counter

(* check_sender: ok is passed on with set_value, all else with set_error.  *)
(* The channel may keep the message and bring it again.                    *)
check(again) ==
  /\ channel # <<>>
  /\ channel' = IF again THEN channel ELSE Tail(channel)
  /\ LET m == Head(channel)
         gap == IF checked = Fresh THEN Fresh ELSE m.number - checked
     IN \/ /\ m.body = "intact"
           /\ verdict' = [result |-> Judge(Delta(m.counter)), gap |-> gap]
           /\ Remember(m)
           /\ checked' = m.number
           /\ accepted' = IF verdict'.result = "ok" THEN m.number ELSE accepted
        \/ /\ m.body # "intact"
           /\ verdict' = [result |-> IF m.body = "damaged" THEN "wrong_crc" ELSE "error",
                          gap |-> gap]
           /\ UNCHANGED <<recv_counter, checked, accepted>>
  /\ UNCHANGED <<send_counter, number>>

Next ==
  \/ \E body \in {"short", "intact"} : protect(body)
  \/ pass_bare
  \/ lose
  \/ corrupt
  \/ \E again \in BOOLEAN : check(again)

Spec == Init /\ [][Next]_vars
-----------------------------------------------------------------------------
(* Every variable has its type; the counters stay within their widths.     *)
TypeOK ==
  /\ send_counter \in 0 .. CounterMod - 1
  /\ recv_counter \in 0 .. Modulus - 1
  /\ channel \in Seq(Message)
  /\ number \in 0 .. MaxNumber
  /\ checked \in -1 .. MaxNumber
  /\ accepted \in 0 .. MaxNumber
  /\ verdict \in [result : Results, gap : -1 .. MaxNumber]

(* The receiver's judgement tells how many messages it has missed, across  *)
(* losses, damage, repetition, messages too short to be protected and the  *)
(* wrap of both counters: no false alarm, and no unnoticed loss, as long   *)
(* as it misses less than a whole turn of the counter in a row.            *)
VerdictIsRight ==
  /\ verdict.gap \in 0 .. Modulus - 1
  /\ verdict.result \notin {"wrong_crc", "error"}
  => verdict.result = CASE verdict.gap = 0 -> "repeated"
                        [] verdict.gap \in 1 .. MaxDelta -> "ok"
                        [] OTHER -> "wrong_sequence"

(* No message is passed on twice, and none after a later one, however much *)
(* is lost.                                                                *)
AcceptedInOrder ==
  [][\A again \in BOOLEAN :
       check(again) /\ verdict'.result = "ok" => accepted' > accepted]_vars
=============================================================================
