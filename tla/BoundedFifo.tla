----------------------------- MODULE BoundedFifo -----------------------------
(***************************************************************************)
(* What queue.c promises its callers: a first-in first-out queue that      *)
(* never holds more than max_size items when max_size is positive, and is  *)
(* unbounded otherwise.  Put and Get are atomic; a caller that cannot be   *)
(* served is simply not served yet.                                        *)
(***************************************************************************)
EXTENDS Integers, Sequences

CONSTANTS Thread, Value, NULL, MaxSizes

VARIABLES fifo,   \* the queued values, oldest first
          item,   \* per thread: the value it offers, or the one it received
          closed, \* the queue is gone
          max_size

Room == max_size > 0 => Len(fifo) < max_size

Init == /\ fifo = <<>>
        /\ item = [t \in Thread |-> NULL]
        /\ closed = FALSE
        /\ max_size \in MaxSizes

Offer(t) == /\ \E v \in Value : item' = [item EXCEPT ![t] = v]
            /\ UNCHANGED <<fifo, closed>>

Put(t) == /\ Room /\ ~closed
          /\ fifo' = Append(fifo, item[t])
          /\ UNCHANGED <<item, closed>>

Get(t) == /\ fifo # <<>> /\ ~closed
          /\ item' = [item EXCEPT ![t] = Head(fifo)]
          /\ fifo' = Tail(fifo)
          /\ UNCHANGED closed

\* Destroying the queue drops whatever it still holds; nothing follows.
Discard == ~closed /\ closed' = TRUE /\ fifo' = <<>> /\ UNCHANGED item

Next == /\ (\E t \in Thread : Offer(t) \/ Put(t) \/ Get(t)) \/ Discard
        /\ UNCHANGED max_size

Spec == Init /\ [][Next]_<<fifo, item, closed, max_size>>
=============================================================================
