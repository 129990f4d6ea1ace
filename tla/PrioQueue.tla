----------------------------- MODULE PrioQueue -----------------------------
(***************************************************************************)
(* What a message queue promises its users, apart from blocking: a bounded *)
(* queue ordered by priority, first in first out within one priority.      *)
(* my_pxmsg_mmp implements it with a linked list in a mapped file, see     *)
(* MsgQueue.                                                               *)
(***************************************************************************)
EXTENDS Integers, Sequences, FiniteSets

CONSTANTS Messages,   \* records with a field prio
          Capacity,   \* how many messages the queue holds
          NoMsg       \* last_out before anything was received

VARIABLES queue,      \* the messages, the next one to be received first
          last_out    \* the message the last receive returned

vars == <<queue, last_out>>

Init == queue = <<>> /\ last_out = NoMsg

\* How many queued messages stay ahead of m: all of at least its priority.
Ahead(m) == Cardinality({i \in 1..Len(queue) : queue[i].prio >= m.prio})

Send(m) ==
  /\ Len(queue) < Capacity
  /\ queue' = SubSeq(queue, 1, Ahead(m)) \o <<m>>
                \o SubSeq(queue, Ahead(m) + 1, Len(queue))
  /\ UNCHANGED last_out

Receive ==
  /\ queue # <<>>
  /\ queue' = Tail(queue)
  /\ last_out' = Head(queue)

Next == Receive \/ \E m \in Messages : Send(m)

Spec == Init /\ [][Next]_vars
=============================================================================
