----------------------------- MODULE MsgQueue ------------------------------
(***************************************************************************)
(* The Posix message queue of my_pxmsg_mmp: mq_send, mq_receive,           *)
(* mq_notify, mq_setattr, mq_close and the part of mq_open that joins a    *)
(* queue that exists (MqOpen models how it comes to exist).  Its state is  *)
(* a memory-mapped file that the processes share: the header mq_hdr, with  *)
(* one process-shared mutex and one condition variable, and mq_maxmsg      *)
(* slots that are on the message list or on the free list.                 *)
(*                                                                         *)
(* Every function holds mqh_lock from its first to its last access of the  *)
(* header, except inside pthread_cond_wait, so a critical section is one   *)
(* action and a wait splits a call in two: what runs up to the wait and    *)
(* what runs once the thread holds the lock again.                         *)
(***************************************************************************)
EXTENDS Integers, Sequences, FiniteSets

CONSTANTS Procs,       \* the processes, each with one thread and one descriptor
          NoProc,      \* mqh_pid = 0, and nobody holds mqh_lock
          Calls,       \* what each process does, or may suffer
          mq_maxmsg,   \* the number of message slots
          Prios,       \* the priorities the senders use
          Bodies,      \* what the senders put in a message
          NoMsg        \* no message

Ops == {"send", "receive", "notify", "setattr", "close", "die", "spurious"}

ASSUME MaxMsgAssumption == mq_maxmsg \in Nat \ {0}
ASSUME ProcsAssumption == IsFiniteSet(Procs) /\ NoProc \notin Procs
ASSUME CallsAssumption == Calls \in [Procs -> SUBSET Ops]
ASSUME PriosAssumption == Prios \subseteq Nat
ASSUME NoMsgAssumption == NoMsg \notin [prio : Prios, body : Bodies]

Messages == [prio : Prios, body : Bodies]
Events == {"SIGEV_SIGNAL", "SIGEV_NONE"}

\* Slots are numbered; 0 is the null index that ends a list.  mqh_head is
\* msg_next[0]: mq_send itself treats &mqh_head as a msg_hdr (mq_send.c:82).
Slots == 1..mq_maxmsg
Links == 0..mq_maxmsg

VARIABLES
  mq_curmsgs,  \* mqh_attr.mq_curmsgs
  msg_next,    \* the links of both lists, and mqh_head
  mqh_free,    \* first slot of the free list
  msg,         \* slot -> the message last copied into it
  mqh_nwait,   \* the count of threads blocked in mq_receive
  mqh_pid,     \* who is registered for notification
  mqh_event,   \* how it asked to be notified
  mqh_lock,    \* who returned without unlocking, NoProc if nobody did
  mqi_open,    \* process -> its descriptor carries MQI_MAGIC
  mqi_flags,   \* process -> O_NONBLOCK is set in its descriptor
  pc,          \* process -> where its thread is
  arg,         \* process -> the message of the mq_send it is blocked in
  sigpend,     \* the processes with a notification signal queued
  last_out     \* the message the last mq_receive copied to its caller

queueVars == <<mq_curmsgs, msg_next, mqh_free, msg>>
procVars  == <<mqi_open, mqi_flags>>
vars == <<mq_curmsgs, msg_next, mqh_free, msg, mqh_nwait, mqh_pid, mqh_event,
          mqh_lock, mqi_open, mqi_flags, pc, arg, sigpend, last_out>>

\* "..._wait": asleep on mqh_wait; "..._wake": chosen by a signal, or woken
\* spuriously, and about to lock mqh_lock again.
Places == {"ready", "send_wait", "send_wake", "recv_wait", "recv_wake", "dead"}

Asleep == {p \in Procs : pc[p] \in {"send_wait", "recv_wait"}}
Woken  == {p \in Procs : pc[p] \in {"send_wake", "recv_wake"}}
BlockedReceivers == {p \in Procs : pc[p] \in {"recv_wait", "recv_wake"}}

\* The queue as mq_open leaves it, mapped by every process.
Init ==
  /\ mq_curmsgs = 0
  /\ msg_next = [i \in Links |-> IF i = 0 \/ i = mq_maxmsg THEN 0 ELSE i + 1]
  /\ mqh_free = 1
  /\ msg = [i \in Slots |-> NoMsg]
  /\ mqh_nwait = 0
  /\ mqh_pid = NoProc
  /\ mqh_event = "SIGEV_NONE"
  /\ mqh_lock = NoProc
  /\ mqi_open = [p \in Procs |-> TRUE]
  /\ mqi_flags = [p \in Procs |-> FALSE]
  /\ pc = [p \in Procs |-> "ready"]
  /\ arg = [p \in Procs |-> NoMsg]
  /\ sigpend = {}
  /\ last_out = NoMsg

-----------------------------------------------------------------------------
(* The linked lists.                                                       *)

Lists == UNION {[1..n -> Slots] : n \in 0..mq_maxmsg}

\* s lists the slots reached from the index first by following next.
IsList(next, s, first) ==
  /\ first = IF Len(s) = 0 THEN 0 ELSE s[1]
  /\ \A i \in 1..Len(s) : next[s[i]] = IF i = Len(s) THEN 0 ELSE s[i + 1]

MessageList == CHOOSE s \in Lists : IsList(msg_next, s, msg_next[0])

\* Mutation: the loop passes only messages of strictly higher priority.
PlaceBefore(s, prio) ==
  LET k == CHOOSE k \in 0..Len(s) :
             /\ \A i \in 1..k : prio < msg[s[i]].prio
             /\ k < Len(s) => prio >= msg[s[k + 1]].prio
  IN  IF k = 0 THEN 0 ELSE s[k]

\* The slot after which mq_send links a message of priority prio, s being the
\* message list (0: at the head): its loop stops before the first message of
\* lower priority.
PlaceAfter(s, prio) ==
  LET k == CHOOSE k \in 0..Len(s) :
             /\ \A i \in 1..k : prio <= msg[s[i]].prio
             /\ k < Len(s) => prio > msg[s[k + 1]].prio
  IN  IF k = 0 THEN 0 ELSE s[k]

-----------------------------------------------------------------------------
(* The parts the handlers share.                                           *)

\* mqd is an open descriptor of p, and p can lock mqh_lock.
Locked(p) == mqh_lock = NoProc /\ mqi_open[p]

\* pthread_cond_signal on mqh_wait: any one sleeper, sender or receiver, pcs
\* being the places once the caller has moved.
CondSignal(pcs) ==
  LET sleepers == {q \in Procs : pcs[q] \in {"send_wait", "recv_wait"}}
      woken(q) == IF pcs[q] = "send_wait" THEN "send_wake" ELSE "recv_wake"
  IN  IF sleepers = {}
      THEN pc' = pcs
      ELSE \E q \in sleepers : pc' = [pcs EXCEPT ![q] = woken(q)]

\* The slot f is linked in after prev.
LinkAfter_HeadFirst(f, prev) ==    \* mutation: prev is relinked first
  msg_next' = [msg_next EXCEPT ![prev] = f, ![f] = f]
LinkAfter(f, prev) ==
  msg_next' = [msg_next EXCEPT ![f] = msg_next[prev], ![prev] = f]

\* Who is woken when a message arrives, mq_curmsgs being the count before.
SignalArrival_AfterCount(pcs) ==   \* mutation: mq_curmsgs is incremented first
  IF mq_curmsgs + 1 = 0 THEN CondSignal(pcs) ELSE pc' = pcs
SignalArrival(pcs) == IF mq_curmsgs = 0 THEN CondSignal(pcs) ELSE pc' = pcs

\* Who is woken when a message leaves, mq_curmsgs being the count before.
SignalRoom_AfterCount(pcs) ==      \* mutation: mq_curmsgs is decremented first
  IF mq_curmsgs - 1 = mq_maxmsg THEN CondSignal(pcs) ELSE pc' = pcs
SignalRoom(pcs) == IF mq_curmsgs = mq_maxmsg THEN CondSignal(pcs) ELSE pc' = pcs

\* mq_send from line 64: take a free slot, link it, signal if the queue was
\* empty.  With no free slot mq_send returns 0 and leaves mqh_lock locked.
Put(p, m) ==
  LET f == mqh_free
      prev == PlaceAfter(MessageList, m.prio)
      home == [pc EXCEPT ![p] = "ready"]
  IN  IF f = 0
      THEN /\ mqh_lock' = p
           /\ pc' = home
           /\ UNCHANGED queueVars
      ELSE /\ mqh_free' = msg_next[f]
           /\ msg' = [msg EXCEPT ![f] = m]
           /\ LinkAfter(f, prev)
           /\ SignalArrival(home)
           /\ mq_curmsgs' = mq_curmsgs + 1
           /\ UNCHANGED mqh_lock

\* mq_receive from line 57: unlink the first message, free its slot, signal
\* if the queue was full.  With no message it returns with mqh_lock locked.
Take(p) ==
  LET index == msg_next[0]
      home == [pc EXCEPT ![p] = "ready"]
  IN  IF index = 0
      THEN /\ mqh_lock' = p
           /\ pc' = home
           /\ UNCHANGED <<queueVars, last_out>>
      ELSE /\ msg_next' = [msg_next EXCEPT ![0] = msg_next[index],
                                           ![index] = mqh_free]
           /\ mqh_free' = index
           /\ last_out' = msg[index]
           /\ SignalRoom(home)
           /\ mq_curmsgs' = mq_curmsgs - 1
           /\ UNCHANGED <<msg, mqh_lock>>

\* Mutation: notifies although a receiver is blocked.
NotifyRegistered_Always ==
  IF mqh_pid # NoProc
  THEN /\ mqh_pid' = NoProc
       /\ sigpend' = IF mqh_event = "SIGEV_SIGNAL" /\ pc[mqh_pid] # "dead"
                     THEN sigpend \cup {mqh_pid} ELSE sigpend
  ELSE UNCHANGED <<mqh_pid, sigpend>>

\* Mutation: nobody is notified.
NotifyRegistered_Never == UNCHANGED <<mqh_pid, sigpend>>

\* mq_send lines 37-48: a message is about to reach an empty queue, so the
\* registered process is notified, once, unless a receiver is blocked.
NotifyRegistered ==
  IF mqh_pid # NoProc /\ mqh_nwait = 0
  THEN /\ mqh_pid' = NoProc
       /\ sigpend' = IF mqh_event = "SIGEV_SIGNAL" /\ pc[mqh_pid] # "dead"
                     THEN sigpend \cup {mqh_pid} ELSE sigpend
  ELSE UNCHANGED <<mqh_pid, sigpend>>

-----------------------------------------------------------------------------
(* mq_send.                                                                *)

mq_send(p, m) ==
  /\ "send" \in Calls[p] /\ pc[p] = "ready" /\ Locked(p)
  /\ \/ /\ mq_curmsgs = 0
        /\ NotifyRegistered
        /\ Put(p, m)
        /\ UNCHANGED arg
     \/ /\ mq_curmsgs > 0 /\ mq_curmsgs < mq_maxmsg
        /\ Put(p, m)
        /\ UNCHANGED <<arg, mqh_pid, sigpend>>
     \/ /\ mq_curmsgs >= mq_maxmsg /\ mqi_flags[p]      \* EAGAIN
        /\ UNCHANGED <<queueVars, mqh_lock, mqh_pid, pc, arg, sigpend>>
     \/ /\ mq_curmsgs >= mq_maxmsg /\ ~mqi_flags[p]
        /\ pc' = [pc EXCEPT ![p] = "send_wait"]
        /\ arg' = [arg EXCEPT ![p] = m]
        /\ UNCHANGED <<queueVars, mqh_lock, mqh_pid, sigpend>>
  /\ UNCHANGED <<mqh_nwait, mqh_event, procVars, last_out>>

\* Mutation: an if instead of the while around pthread_cond_wait.
mq_send_resume_If(p) ==
  /\ pc[p] = "send_wake" /\ Locked(p)
  /\ Put(p, arg[p])
  /\ arg' = [arg EXCEPT ![p] = NoMsg]
  /\ UNCHANGED <<mqh_nwait, mqh_pid, mqh_event, procVars, sigpend, last_out>>

\* The thread is back from pthread_cond_wait: only the room is re-examined.
mq_send_resume(p) ==
  /\ pc[p] = "send_wake" /\ Locked(p)
  /\ \/ /\ mq_curmsgs >= mq_maxmsg
        /\ pc' = [pc EXCEPT ![p] = "send_wait"]
        /\ UNCHANGED <<queueVars, mqh_lock, arg>>
     \/ /\ mq_curmsgs < mq_maxmsg
        /\ Put(p, arg[p])
        /\ arg' = [arg EXCEPT ![p] = NoMsg]
  /\ UNCHANGED <<mqh_nwait, mqh_pid, mqh_event, procVars, sigpend, last_out>>

-----------------------------------------------------------------------------
(* mq_receive.                                                             *)

mq_receive(p) ==
  /\ "receive" \in Calls[p] /\ pc[p] = "ready" /\ Locked(p)
  /\ \/ /\ mq_curmsgs # 0
        /\ Take(p)
        /\ UNCHANGED mqh_nwait
     \/ /\ mq_curmsgs = 0 /\ mqi_flags[p]               \* EAGAIN
        /\ UNCHANGED <<queueVars, mqh_lock, pc, mqh_nwait, last_out>>
     \/ /\ mq_curmsgs = 0 /\ ~mqi_flags[p]
        /\ mqh_nwait' = mqh_nwait + 1
        /\ pc' = [pc EXCEPT ![p] = "recv_wait"]
        /\ UNCHANGED <<queueVars, mqh_lock, last_out>>
  /\ UNCHANGED <<mqh_pid, mqh_event, procVars, arg, sigpend>>

\* Mutations: mqh_nwait++ respectively mqh_nwait-- inside the while.
mq_receive_resume_Counting(p, n) ==
  /\ pc[p] = "recv_wake" /\ Locked(p)
  /\ \/ /\ mq_curmsgs = 0
        /\ pc' = [pc EXCEPT ![p] = "recv_wait"]
        /\ mqh_nwait' = mqh_nwait + n
        /\ UNCHANGED <<queueVars, mqh_lock, last_out>>
     \/ /\ mq_curmsgs # 0
        /\ mqh_nwait' = mqh_nwait - 1
        /\ Take(p)
  /\ UNCHANGED <<mqh_pid, mqh_event, procVars, arg, sigpend>>
mq_receive_resume_CountsUp(p) == mq_receive_resume_Counting(p, 1)
mq_receive_resume_CountsDown(p) == mq_receive_resume_Counting(p, -1)

mq_receive_resume(p) ==
  /\ pc[p] = "recv_wake" /\ Locked(p)
  /\ \/ /\ mq_curmsgs = 0
        /\ pc' = [pc EXCEPT ![p] = "recv_wait"]
        /\ UNCHANGED <<queueVars, mqh_lock, mqh_nwait, last_out>>
     \/ /\ mq_curmsgs # 0
        /\ mqh_nwait' = mqh_nwait - 1
        /\ Take(p)
  /\ UNCHANGED <<mqh_pid, mqh_event, procVars, arg, sigpend>>

-----------------------------------------------------------------------------
(* The other calls on a descriptor.                                        *)

\* mq_notify with an event: a registration is replaced only if kill says
\* that its process is gone; otherwise EBUSY.
mq_notify(p, event) ==
  /\ "notify" \in Calls[p] /\ pc[p] = "ready" /\ Locked(p)
  /\ IF mqh_pid # NoProc /\ pc[mqh_pid] # "dead"
     THEN UNCHANGED <<mqh_pid, mqh_event>>
     ELSE mqh_pid' = p /\ mqh_event' = event
  /\ UNCHANGED <<queueVars, mqh_nwait, mqh_lock, procVars, pc, arg, sigpend,
                 last_out>>

\* Mutation: whoever calls it ends the registration.
Unregister_Anyone(p) == mqh_pid' = NoProc

\* mq_notify(mqd, NULL), also called by mq_close.
Unregister(p) == mqh_pid' = IF mqh_pid = p THEN NoProc ELSE mqh_pid

mq_notify_null(p) ==
  /\ "notify" \in Calls[p] /\ pc[p] = "ready" /\ Locked(p)
  /\ Unregister(p)
  /\ UNCHANGED <<queueVars, mqh_nwait, mqh_event, mqh_lock, procVars, pc, arg,
                 sigpend, last_out>>

mq_setattr(p) ==
  /\ "setattr" \in Calls[p] /\ pc[p] = "ready" /\ Locked(p)
  /\ \E nonblock \in BOOLEAN : mqi_flags' = [mqi_flags EXCEPT ![p] = nonblock]
  /\ UNCHANGED <<queueVars, mqh_nwait, mqh_pid, mqh_event, mqh_lock, mqi_open,
                 pc, arg, sigpend, last_out>>

mq_close(p) ==
  /\ "close" \in Calls[p] /\ pc[p] = "ready" /\ Locked(p)
  /\ Unregister(p)
  /\ mqi_open' = [mqi_open EXCEPT ![p] = FALSE]
  /\ mqi_flags' = [mqi_flags EXCEPT ![p] = FALSE]
  /\ UNCHANGED <<queueVars, mqh_nwait, mqh_event, mqh_lock, pc, arg, sigpend,
                 last_out>>

\* mq_open on a queue that exists: a new mq_info, no access to the header.
mq_open(p) ==
  /\ pc[p] = "ready" /\ ~mqi_open[p]
  /\ mqi_open' = [mqi_open EXCEPT ![p] = TRUE]
  /\ \E nonblock \in IF "setattr" \in Calls[p] THEN BOOLEAN ELSE {FALSE} :
       mqi_flags' = [mqi_flags EXCEPT ![p] = nonblock]
  /\ UNCHANGED <<queueVars, mqh_nwait, mqh_pid, mqh_event, mqh_lock, pc, arg,
                 sigpend, last_out>>

-----------------------------------------------------------------------------
(* What the code's surroundings do.                                        *)

\* pthread_cond_wait may return without a signal.
SpuriousWake(p) ==
  /\ "spurious" \in Calls[p]
  /\ pc[p] \in {"send_wait", "recv_wait"}
  /\ pc' = [pc EXCEPT ![p] = IF @ = "send_wait" THEN "send_wake" ELSE "recv_wake"]
  /\ UNCHANGED <<queueVars, mqh_nwait, mqh_pid, mqh_event, mqh_lock, procVars,
                 arg, sigpend, last_out>>

\* The queued signal reaches the process.
HandleSignal(p) ==
  /\ p \in sigpend
  /\ sigpend' = sigpend \ {p}
  /\ UNCHANGED <<queueVars, mqh_nwait, mqh_pid, mqh_event, mqh_lock, procVars,
                 pc, arg, last_out>>

\* A process is killed outside a critical section: its mapping and its thread
\* vanish, what it wrote in the shared header stays.
Die(p) ==
  /\ "die" \in Calls[p] /\ pc[p] # "dead" /\ mqh_lock # p
  /\ pc' = [pc EXCEPT ![p] = "dead"]
  /\ arg' = [arg EXCEPT ![p] = NoMsg]
  /\ mqi_open' = [mqi_open EXCEPT ![p] = FALSE]
  /\ mqi_flags' = [mqi_flags EXCEPT ![p] = FALSE]
  /\ sigpend' = sigpend \ {p}
  /\ UNCHANGED <<queueVars, mqh_nwait, mqh_pid, mqh_event, mqh_lock, last_out>>

Resume(p) == mq_send_resume(p) \/ mq_receive_resume(p)

Step(p) ==
  \/ \E m \in Messages : mq_send(p, m)
  \/ mq_receive(p)
  \/ Resume(p)
  \/ \E event \in Events : mq_notify(p, event)
  \/ mq_notify_null(p)
  \/ mq_setattr(p)
  \/ mq_close(p)
  \/ mq_open(p)
  \/ SpuriousWake(p)
  \/ HandleSignal(p)
  \/ Die(p)

Next == \E p \in Procs : Step(p)

Spec == Init /\ [][Next]_vars

\* A thread that the condition variable has woken gets the mutex in the end.
FairSpec == Spec /\ \A p \in Procs : WF_vars(Resume(p))
-----------------------------------------------------------------------------
(* Safety.                                                                 *)

TypeOK ==
  /\ mq_curmsgs \in Links
  /\ msg_next \in [Links -> Links]
  /\ mqh_free \in Links
  /\ msg \in [Slots -> Messages \cup {NoMsg}]
  /\ mqh_nwait \in Nat
  /\ mqh_pid \in Procs \cup {NoProc}
  /\ mqh_event \in Events
  /\ mqh_lock \in Procs \cup {NoProc}
  /\ mqi_open \in [Procs -> BOOLEAN]
  /\ mqi_flags \in [Procs -> BOOLEAN]
  /\ pc \in [Procs -> Places]
  /\ arg \in [Procs -> Messages \cup {NoMsg}]
  /\ sigpend \in SUBSET Procs
  /\ last_out \in Messages \cup {NoMsg}

\* The two lists of the mapped file stay well formed: following the links from
\* mqh_head gives mq_curmsgs slots, from mqh_free the others, and every slot
\* is on exactly one of the lists.
EverySlotOnOneList ==
  \E used \in Lists : /\ IsList(msg_next, used, msg_next[0])
                      /\ Len(used) = mq_curmsgs
                      /\ \E free \in Lists :
                           /\ IsList(msg_next, free, mqh_free)
                           /\ Len(used) + Len(free) = mq_maxmsg
                           /\ \A i \in Slots :
                                \/ \E j \in 1..Len(used) : used[j] = i
                                \/ \E j \in 1..Len(free) : free[j] = i

\* The two returns that keep the mutex (mq_send.c:68, mq_receive.c:60) are
\* never reached: with room there is a free slot, with messages a first one.
LockNeverLeaked == mqh_lock = NoProc

\* mqh_nwait counts the threads blocked in mq_receive, as long as none died;
\* mq_send relies on it to tell whether anyone takes the message it leaves.
NwaitExact ==
  (\A p \in Procs : pc[p] # "dead") => mqh_nwait = Cardinality(BlockedReceivers)

\* Deaths can only make it too large.
NwaitCovers == mqh_nwait >= Cardinality(BlockedReceivers)

NwaitCounts == NwaitExact /\ NwaitCovers

\* With one sender and one receiver nobody sleeps without a reason: the
\* receiver only on an empty queue, the sender only on a full one.
WaitsJustified ==
  \A p \in Procs : /\ pc[p] = "recv_wait" => mq_curmsgs = 0
                   /\ pc[p] = "send_wait" => mq_curmsgs = mq_maxmsg

-----------------------------------------------------------------------------
(* Notification.                                                           *)

\* A live process keeps its registration until it gives it up itself, or until
\* a message reaches the empty queue, and then it has been signalled if it
\* asked for a signal: nobody else takes it over, and it fires once.
RegistrationKept ==
  [][\A p \in Procs :
       mqh_pid = p /\ mqh_pid' # p /\ pc[p] # "dead" =>
         /\ mqh_pid' = NoProc
         /\ \/ mq_notify_null(p) \/ mq_close(p)
            \/ /\ mq_curmsgs = 0 /\ mq_curmsgs' = 1
               /\ mqh_event = "SIGEV_SIGNAL" => p \in sigpend']_vars

\* A sender that slept for room takes the lock again and delivers: it does not
\* look for a registered process (mq_send.c:60), not even if the queue has been
\* emptied meanwhile, against the comment of mq_send.c:36.
LateArrival == \E p \in Procs : pc[p] = "send_wake" /\ pc'[p] = "ready"

\* A signal is queued only to the process registered, and only when a message
\* reaches the empty queue with nobody blocked in mq_receive to take it; and
\* then it is queued, unless the message is a late arrival or a process died
\* in mq_receive and is counted as blocked for ever.
SignalsExact ==
  [][/\ \A p \in sigpend' \ sigpend :
          /\ mqh_pid = p /\ mqh_pid' = NoProc
          /\ mq_curmsgs = 0 /\ mq_curmsgs' = 1
          /\ BlockedReceivers = {}
     /\ /\ mq_curmsgs = 0 /\ mq_curmsgs' = 1 /\ ~LateArrival
        /\ BlockedReceivers = {} /\ \A p \in Procs : pc[p] # "dead"
        => /\ mqh_pid' = NoProc
           /\ mqh_pid # NoProc /\ mqh_event = "SIGEV_SIGNAL" => mqh_pid \in sigpend']_vars

-----------------------------------------------------------------------------
(* What a comment promises of the wake-ups.                                *)

\* mq_send.c:104 "wake up anyone blocked in mq_receive waiting for a message":
\* a receiver is not left asleep beside a message nobody is about to take.
ReceiversWoken ==
  (\E p \in Procs : pc[p] = "recv_wait") /\ Woken = {} => mq_curmsgs = 0

-----------------------------------------------------------------------------
(* Liveness, with one sender and one receiver.                             *)

\* A receiver blocked while there is a message returns with one, and a sender
\* blocked while there is room gets its message in.
BlockedCallsReturn ==
  \A p \in Procs :
    /\ (pc[p] \in {"recv_wait", "recv_wake"} /\ mq_curmsgs > 0) ~> pc[p] = "ready"
    /\ (pc[p] \in {"send_wait", "send_wake"} /\ mq_curmsgs < mq_maxmsg)
         ~> pc[p] = "ready"

-----------------------------------------------------------------------------
(* The queue in the file implements the bounded priority queue.            *)

PQ == INSTANCE PrioQueue WITH
        Capacity <- mq_maxmsg,
        queue <- [i \in 1..Len(MessageList) |-> msg[MessageList[i]]]

ImplementsPrioQueue == PQ!Spec
=============================================================================
