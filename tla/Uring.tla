------------------------------- MODULE Uring -------------------------------
(***************************************************************************)
(* The io_uring event loop: the two rings that uring_context shares with   *)
(* the kernel, the operations that enqueue themselves in start() and are   *)
(* called back from for_each_cqe, and uring_event_loop::run and run_once.  *)
(*                                                                         *)
(* One thread runs the loop and all the callbacks; stop() may come from    *)
(* any thread.  Ring indices run freely modulo IndexMod and are masked     *)
(* when an array is accessed.                                              *)
(***************************************************************************)
EXTENDS Integers, FiniteSets

CONSTANTS
  Ops,        \* operation states; one is started again after it completed
  SqEntries,  \* sq_entries_
  CqEntries,  \* cq_entries_
  IndexMod,   \* number of values of an index: 2^32
  Results,    \* what the kernel may answer to each
  MaxRefused, \* bound: entries that io_uring_enter leaves in the queue
  None

ASSUME UringAssumption ==
  /\ SqEntries \in Nat \ {0} /\ CqEntries \in Nat \ {0}
  /\ IndexMod \in Nat /\ IndexMod > SqEntries /\ IndexMod > CqEntries
  /\ IndexMod % SqEntries = 0 /\ IndexMod % CqEntries = 0
  /\ MaxRefused \in Nat
  /\ Results \in [Ops -> SUBSET Int]
  /\ None \notin Ops

VARIABLES
  sq_head,       \* *sq_head_, advanced by the kernel
  sq_tail,       \* *sq_tail_, what the kernel may consume
  sq_tail_local, \* sq_tail_local_, what the operations have filled
  sqes,          \* the submission entries: which operation is in each
  kernel,        \* the operations the kernel is working on
  cq_head,       \* *cq_head_, what the kernel may overwrite
  cq_tail,       \* *cq_tail_, advanced by the kernel
  cqes,          \* the completion entries
  pc,            \* where the thread is in run or run_once
  mode,          \* which of the two it is in
  head, tail,    \* the local variables of for_each_cqe
  stop,          \* stop_
  status         \* of each operation

sqVars   == <<sq_head, sq_tail, sq_tail_local, sqes>>
cqVars   == <<cq_head, cq_tail, cqes>>
loopVars == <<pc, mode, head, tail>>
vars     == <<sqVars, kernel, cqVars, loopVars, stop, status>>

(* Unsigned subtraction, and the indices from one up to another.           *)
Distance(from, to) == (to - from) % IndexMod
Plus(i, n)         == (i + n) % IndexMod
Window(from, to)   == {Plus(from, n) : n \in 0 .. Distance(from, to) - 1}
-----------------------------------------------------------------------------
Init ==
  /\ sq_head = 0 /\ sq_tail = 0 /\ sq_tail_local = 0
  /\ sqes = [i \in 0 .. SqEntries - 1 |-> None]
  /\ kernel = {}
  /\ cq_head = 0 /\ cq_tail = 0
  /\ cqes = [i \in 0 .. CqEntries - 1 |-> None]
  /\ pc = "out" /\ mode = "none"
  /\ head = 0 /\ tail = 0
  /\ stop = FALSE
  /\ status = [o \in Ops |-> "idle"]

(* uring_context::get_sqe, and the operation written into the entry.       *)
Room_OffByOne(h) == Distance(h, sq_tail_local) <= SqEntries
Room(h) == Distance(h, sq_tail_local) < SqEntries
Enqueue(o) ==
  /\ sqes' = [sqes EXCEPT ![sq_tail_local % SqEntries] = o]
  /\ sq_tail_local' = Plus(sq_tail_local, 1)
  /\ status' = [status EXCEPT ![o] = "started"]

(* uring_context::submit: the entries since the last submission become     *)
(* visible, and the kernel is told to consume as many, in order.  It may   *)
(* take n only, or none if io_uring_enter fails; those it leaves are not   *)
(* counted the next time.                                                  *)
to_submit_FromHead == Distance(sq_head, sq_tail_local)
to_submit == Distance(sq_tail, sq_tail_local)
Left == Distance(sq_head, sq_tail)
Submit(n) ==
  /\ n \in 0 .. to_submit
  /\ sq_tail' = sq_tail_local
  /\ sq_head' = Plus(sq_head, n)
  /\ Left' <= MaxRefused
  /\ kernel' = kernel \union {sqes[i % SqEntries] : i \in Window(sq_head, sq_head')}

(* User code runs outside the loop or in a callback.                       *)
UserRuns == pc \in {"out", "callback"}

(* start() of an operation: if the queue is full it submits and tries once *)
(* more, and completes with EBUSY if that does not help.                   *)
start(o) ==
  /\ UserRuns
  /\ status[o] = "idle"
  /\ IF Room(sq_head)
     THEN Enqueue(o) /\ UNCHANGED <<sq_head, sq_tail, kernel>>
     ELSE \E n \in 0 .. SqEntries :
          /\ Submit(n)
          /\ IF Room(sq_head') THEN Enqueue(o)
                               ELSE UNCHANGED <<sqes, sq_tail_local, status>>
  /\ UNCHANGED <<cqVars, loopVars, stop>>

(* run() begins by clearing the flag.                                      *)
run ==
  /\ pc = "out"
  /\ stop' = FALSE
  /\ pc' = "check" /\ mode' = "run"
  /\ UNCHANGED <<sqVars, kernel, cqVars, head, tail, status>>

request_stop ==
  /\ stop' = TRUE
  /\ UNCHANGED <<sqVars, kernel, cqVars, loopVars, status>>

leave_run ==
  /\ pc = "check" /\ stop
  /\ pc' = "out" /\ mode' = "none"
  /\ UNCHANGED <<sqVars, kernel, cqVars, head, tail, stop, status>>

(* for_each_cqe reads both ends of the completion queue once.              *)
BeginReaping == head' = cq_head /\ tail' = cq_tail /\ pc' = "reap"

submit_and_wait ==
  /\ pc = "check" /\ ~ stop
  /\ Submit(to_submit)
  /\ pc' = "wait"
  /\ UNCHANGED <<sq_tail_local, sqes, cqVars, mode, head, tail, stop, status>>

(* The kernel does not wait when it has not taken every entry it was told  *)
(* of; if it took none, run() ends with an exception.                      *)
submit_partly(n) ==
  /\ pc = "check" /\ ~ stop
  /\ n > 0 /\ n < to_submit
  /\ Submit(n)
  /\ BeginReaping
  /\ UNCHANGED <<sq_tail_local, sqes, cqVars, mode, stop, status>>

submit_fails ==
  /\ pc = "check" /\ ~ stop
  /\ to_submit > 0
  /\ Submit(0)
  /\ pc' = "out" /\ mode' = "none"
  /\ UNCHANGED <<sq_tail_local, sqes, cqVars, head, tail, stop, status>>

(* submit_and_wait returns with a completion, or is interrupted by a       *)
(* signal, and then there is nothing to reap.                              *)
wait_returns ==
  /\ pc = "wait" /\ cq_head # cq_tail
  /\ BeginReaping
  /\ UNCHANGED <<sqVars, kernel, cqVars, mode, stop, status>>

interrupt ==
  /\ pc = "wait" /\ cq_head = cq_tail
  /\ pc' = "check"
  /\ UNCHANGED <<sqVars, kernel, cqVars, mode, head, tail, stop, status>>

(* run_once submits, does not wait, and reaps what is there.               *)
run_once ==
  /\ pc = "out"
  /\ \E n \in 0 .. SqEntries : Submit(n)
  /\ BeginReaping
  /\ mode' = "once"
  /\ UNCHANGED <<sq_tail_local, sqes, cqVars, stop, status>>

(* The callback of the next completion: the operation's receiver runs.     *)
callback ==
  /\ pc = "reap" /\ head # tail
  /\ status' = [status EXCEPT ![cqes[head % CqEntries].op] = "idle"]
  /\ pc' = "callback"
  /\ UNCHANGED <<sqVars, kernel, cqVars, mode, head, tail, stop>>

callback_returns ==
  /\ pc = "callback"
  /\ head' = Plus(head, 1)
  /\ pc' = "reap"
  /\ UNCHANGED <<sqVars, kernel, cqVars, mode, tail, stop, status>>

(* The consumed entries are given back to the kernel after the loop.       *)
Release_All == cq_head' = cq_tail
Release == cq_head' = head
reaped ==
  /\ pc = "reap" /\ head = tail
  /\ Release
  /\ pc' = IF mode = "run" THEN "check" ELSE "out"
  /\ mode' = IF mode = "run" THEN "run" ELSE "none"
  /\ UNCHANGED <<sqVars, kernel, cq_tail, cqes, head, tail, stop, status>>

(* The kernel finishes an operation and posts its completion when there is *)
(* room for it.                                                            *)
kernel_completes(o, res) ==
  /\ o \in kernel
  /\ Distance(cq_head, cq_tail) < CqEntries
  /\ kernel' = kernel \ {o}
  /\ cqes' = [cqes EXCEPT ![cq_tail % CqEntries] = [op |-> o, res |-> res]]
  /\ cq_tail' = Plus(cq_tail, 1)
  /\ UNCHANGED <<sqVars, cq_head, loopVars, stop, status>>

Loop ==
  \/ leave_run \/ submit_and_wait \/ wait_returns
  \/ callback \/ callback_returns \/ reaped

Next ==
  \/ \E o \in Ops : start(o)
  \/ run \/ run_once \/ request_stop
  \/ leave_run \/ submit_and_wait \/ wait_returns \/ interrupt
  \/ submit_fails
  \/ \E n \in 1 .. SqEntries : submit_partly(n)
  \/ callback \/ callback_returns \/ reaped
  \/ \E o \in Ops : \E res \in Results[o] : kernel_completes(o, res)

(* The thread goes on when it can.  The kernel finishes every operation,   *)
(* and posts what did not fit in the order it finished, as room appears.   *)
Fairness ==
  /\ WF_vars(Loop)
  /\ \A o \in Ops : SF_vars(\E res \in Results[o] : kernel_completes(o, res))

Spec     == Init /\ [][Next]_vars
FairSpec == Spec /\ Fairness
-----------------------------------------------------------------------------
(* The first completion that has not been called back: the loop keeps it   *)
(* in a local variable while it runs.                                      *)
Unseen == CASE pc = "reap" -> head
            [] pc = "callback" -> Plus(head, 1)
            [] OTHER -> cq_head

Queued(o) == {i \in Window(sq_head, sq_tail_local) : sqes[i % SqEntries] = o}
Posted(o) == {i \in Window(Unseen, cq_tail) : cqes[i % CqEntries].op = o}

(* An operation that was started is in exactly one place, the submission   *)
(* queue, the kernel or the completion queue, once; one that is idle is in *)
(* none.  So it is called back once, the entry it was written to was not   *)
(* in use, and no completion refers to an operation that has ended.        *)
InOnePlace ==
  \A o \in Ops :
    Cardinality(Queued(o)) + Cardinality(Posted(o)) + (IF o \in kernel THEN 1 ELSE 0)
      = IF status[o] = "started" THEN 1 ELSE 0

(* An operation that was started, wherever it is queued, is called back,   *)
(* unless the loop ends: its entry is submitted, and its completion finds  *)
(* room and is seen, even when callbacks start others and both rings are   *)
(* smaller than what is under way.  It need not be once the kernel has     *)
(* refused an entry.                                                       *)
CalledBackInTheEnd ==
  \A o \in Ops : status[o] = "started" ~> status[o] = "idle" \/ pc = "out" \/ Left > 0

(* Entries the kernel has refused once are never made up for, by submit or *)
(* by the loop: as many of those started last go on waiting, until others  *)
(* are started behind them.                                                *)
NeverCatchesUp == [][Left' >= Left]_vars

(* The rings implement operations without rings: each is finished with one *)
(* result and completed once with that result, whatever wraps, is refused  *)
(* or has to wait.                                                         *)
StatusOf(o) == IF Posted(o) # {} THEN "finished" ELSE status[o]
Some(S)     == CHOOSE i \in S : TRUE
ResultOf(o) == IF Posted(o) # {} THEN cqes[Some(Posted(o)) % CqEntries].res ELSE 0
Abstract == INSTANCE SocketOps WITH status <- [o \in Ops |-> StatusOf(o)],
                                    result <- [o \in Ops |-> ResultOf(o)]
Operations == Abstract!OpsSpec

(* The loop runs until stop() is called, and then returns.                 *)
StopEndsRun == stop /\ pc # "out" ~> pc = "out"
=============================================================================
