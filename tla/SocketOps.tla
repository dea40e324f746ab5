----------------------------- MODULE SocketOps -----------------------------
(***************************************************************************)
(* The operations of io_uring as the one who starts them sees them, with   *)
(* no rings: an operation is started, the kernel finishes it with a result,*)
(* and the event loop tells its receiver, once.  Uring implements this.    *)
(***************************************************************************)
EXTENDS Integers

CONSTANTS
  Ops,     \* operation states; one may be started again after it completed
  Results  \* what the kernel may answer to each: a negative error or a count

ASSUME SocketOpsAssumption == Results \in [Ops -> SUBSET Int]

VARIABLES
  status, \* of each operation
  result  \* what the kernel answered, until that has been passed on

opVars == <<status, result>>

(* The kinds of operations: what the entry that start() writes lets the    *)
(* kernel read and fill.  An address is in the operation state, a buffer   *)
(* is the caller's.                                                        *)
accept_op   == [reads |-> {}, fills |-> {"address"}]
recv_op     == [reads |-> {}, fills |-> {"buffer"}]
send_op     == [reads |-> {"buffer"}, fills |-> {}]
recvfrom_op == [reads |-> {}, fills |-> {"buffer", "address"}]
sendto_op   == [reads |-> {"buffer", "address"}, fills |-> {}]
connect_op  == [reads |-> {"address"}, fills |-> {}]
close_op    == [reads |-> {}, fills |-> {}]

(* complete(): set_error with the error number, or set_value.              *)
Failed(res) == res < 0
-----------------------------------------------------------------------------
OpsInit ==
  /\ status = [o \in Ops |-> "idle"]
  /\ result = [o \in Ops |-> 0]

(* start(), when there is an entry for it.  When there is none, start()    *)
(* calls set_error(EBUSY) and nothing changes.                             *)
Start(o) ==
  /\ status[o] = "idle"
  /\ status' = [status EXCEPT ![o] = "started"]
  /\ UNCHANGED result

Finish(o, res) ==
  /\ status[o] = "started"
  /\ status' = [status EXCEPT ![o] = "finished"]
  /\ result' = [result EXCEPT ![o] = res]

(* The loop calls complete().                                              *)
Complete(o) ==
  /\ status[o] = "finished"
  /\ status' = [status EXCEPT ![o] = "idle"]
  /\ result' = [result EXCEPT ![o] = 0]

OpsNext ==
  \E o \in Ops : Start(o) \/ Complete(o) \/ \E res \in Results[o] : Finish(o, res)

OpsSpec == OpsInit /\ [][OpsNext]_opVars
=============================================================================
