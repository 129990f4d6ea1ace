--------------------------- MODULE NotifyClients ---------------------------
(***************************************************************************)
(* The programs of pxmsg that ask mq_notify to tell them of messages:      *)
(* mqnotifysigl and mqnotifysig2 read one message per notification,        *)
(* mqnotifysig3 to 5 and mqnotifythread1 read without blocking until the   *)
(* queue is empty.  The queue is the system's: a message that arrives on   *)
(* the empty queue while nobody is blocked in mq_receive uses up the       *)
(* registration and raises SIGUSR1 or starts a thread.  SIGUSR1 does not   *)
(* queue.  A behaviour is one run of one program beside a sender (msqsend) *)
(* and a second reader (mqreceive).                                        *)
(***************************************************************************)
EXTENDS Integers

CONSTANTS mq_maxmsg,      \* messages the queue holds
          MaxSent         \* bound: messages sent in a behaviour

ASSUME NotifyAssumption == mq_maxmsg \in Nat \ {0} /\ MaxSent \in Nat

VARIABLES
  prog,                   \* the program; it stays
  queue,                  \* messages in the queue
  sent,                   \* messages sent so far
  registered,             \* the program is registered for notification
  pending,                \* SIGUSR1 is pending
  mqflag, pipefd,         \* set, or number of bytes written, by the handler
  pc,                     \* where main is, or the handler of mqnotifysigl
  notify_thread,          \* threads of mqnotifythread1 that run, by phase
  other,                  \* the second reader: "idle" or "blocked"
  current                 \* the queue was empty at or after registration (history)

vars == <<prog, queue, sent, registered, pending, mqflag, pipefd, pc,
          notify_thread, other, current>>
signals == <<pending, mqflag, pipefd>>
program == <<signals, pc, notify_thread>>

OnePerNotification == {"mqnotifysigl", "mqnotifysig2"}
Draining == {"mqnotifysig3", "mqnotifysig4", "mqnotifysig5", "mqnotifythread1"}

\* The queue may hold messages when the program starts.
Init ==
  /\ prog \in OnePerNotification \cup Draining
  /\ queue \in 0..mq_maxmsg
  /\ sent = 0 /\ registered = FALSE
  /\ pending = FALSE /\ mqflag = FALSE /\ pipefd = 0
  /\ pc = "main" /\ notify_thread = [started |-> 0, reading |-> 0]
  /\ other = "idle" /\ current = FALSE

Goto(from, to) == pc = from /\ pc' = to
-----------------------------------------------------------------------------
(* The system: queue, notification, signals.                               *)

\* The registered process is told: SIGEV_THREAD starts a thread.
Notify ==
  IF prog = "mqnotifythread1"
  THEN /\ notify_thread' = [notify_thread EXCEPT !.started = @ + 1]
       /\ UNCHANGED pending
  ELSE /\ pending' = TRUE
       /\ UNCHANGED notify_thread

\* msqsend.  A blocked reader gets the message, and nobody is told.
mq_send ==
  /\ sent < MaxSent /\ sent' = sent + 1
  /\ \/ /\ queue = 0 /\ Goto("blocked", "read")
        /\ UNCHANGED <<queue, registered, signals, notify_thread, other>>
     \/ /\ queue = 0 /\ other = "blocked" /\ other' = "idle"
        /\ UNCHANGED <<queue, registered, program>>
     \/ /\ pc # "blocked" \/ queue > 0
        /\ other # "blocked" \/ queue > 0
        /\ queue < mq_maxmsg /\ queue' = queue + 1
        /\ IF queue = 0 /\ registered
           THEN registered' = FALSE /\ Notify
           ELSE UNCHANGED <<registered, pending, notify_thread>>
        /\ UNCHANGED <<mqflag, pipefd, pc, other>>
  /\ UNCHANGED <<prog, current>>

Take ==
  /\ queue > 0 /\ queue' = queue - 1
  /\ current' = IF pc # "main" /\ queue = 1 THEN TRUE ELSE current

\* A second reader takes a message or blocks.
mqreceive ==
  /\ other = "idle"
  /\ \/ Take /\ UNCHANGED other
     \/ queue = 0 /\ other' = "blocked" /\ UNCHANGED <<queue, current>>
  /\ UNCHANGED <<prog, sent, registered, program>>

\* mq_notify; EBUSY if the registration still stands.
mq_notify == registered' = TRUE

\* SIGUSR1 is delivered and the handler returns, or, in mqnotifysigl, begins.
Deliver ==
  /\ pending /\ pending' = FALSE
  /\ CASE prog = "mqnotifysigl" -> Goto("wait", "notified") /\ UNCHANGED <<mqflag, pipefd>>
       [] prog \in {"mqnotifysig2", "mqnotifysig3"} ->
            /\ \/ Goto("unblocked", "unblocked")
               \/ Goto("wait", "notified")        \* in sigsuspend
            /\ mqflag' = TRUE /\ UNCHANGED pipefd
       [] prog = "mqnotifysig4" -> Goto("wait", "notified") /\ UNCHANGED <<mqflag, pipefd>>
       [] OTHER -> pipefd' = pipefd + 1 /\ UNCHANGED <<pc, mqflag>>
  /\ UNCHANGED <<prog, queue, sent, registered, notify_thread, other, current>>
-----------------------------------------------------------------------------
(* The programs.                                                           *)

\* main up to its loop: mq_open, the handler or the mask, mq_notify.
Start ==
  /\ Goto("main", IF prog \in {"mqnotifysig2", "mqnotifysig3"} THEN "unblocked" ELSE "wait")
  /\ mq_notify
  /\ current' = (queue = 0)
  /\ UNCHANGED <<prog, queue, sent, signals, notify_thread, other>>

Renotify_Not ==            \* mutation: the program does not register again
  /\ Goto("notified", "reading")
  /\ mqflag' = FALSE
  /\ UNCHANGED <<prog, queue, sent, registered, pending, pipefd, notify_thread, other, current>>

\* The flag is reset, and the program registers again before it reads.
Renotify ==
  /\ Goto("notified", "reading")
  /\ mqflag' = FALSE
  /\ mq_notify
  /\ UNCHANGED <<prog, queue, sent, pending, pipefd, notify_thread, other, current>>

\* mq_receive once; it blocks if the queue is empty.
ReceiveOne ==
  /\ \/ Goto("reading", "read") /\ Take
     \/ queue = 0 /\ Goto("reading", "blocked") /\ UNCHANGED <<queue, current>>
  /\ UNCHANGED <<prog, sent, registered, signals, notify_thread, other>>

\* The message is in buff; the handler returns or the mask is reset.
ReceivedOne(place) ==
  /\ Goto("read", place)
  /\ UNCHANGED <<prog, queue, sent, registered, signals, notify_thread, other, current>>

\* while (mq_receive(...) >= 0); EAGAIN ends it.
ReceiveAll_Once(place) ==   \* mutation: one message, as in mqnotifysig2
  /\ \/ Goto("reading", place) /\ Take
     \/ queue = 0 /\ Goto("reading", place) /\ UNCHANGED <<queue, current>>
  /\ UNCHANGED <<prog, sent, registered, signals, notify_thread, other>>

ReceiveAll(place) ==
  /\ \/ Goto("reading", "reading") /\ Take
     \/ queue = 0 /\ Goto("reading", place) /\ UNCHANGED <<queue, current>>
  /\ UNCHANGED <<prog, sent, registered, signals, notify_thread, other>>

\* SIG_BLOCK, then sigsuspend unless the flag is set already.
Block ==
  /\ Goto("unblocked", IF mqflag THEN "notified" ELSE "wait")
  /\ UNCHANGED <<prog, queue, sent, registered, signals, notify_thread, other, current>>

\* select and read of one byte.
Select ==
  /\ Goto("wait", "notified")
  /\ pipefd > 0 /\ pipefd' = pipefd - 1
  /\ UNCHANGED <<prog, queue, sent, registered, pending, mqflag, notify_thread, other, current>>

mqnotifysigl == prog = "mqnotifysigl" /\ (Renotify \/ ReceiveOne \/ ReceivedOne("wait"))
mqnotifysig2 == prog = "mqnotifysig2" /\ (Block \/ Renotify \/ ReceiveOne \/ ReceivedOne("unblocked"))
mqnotifysig3 == prog = "mqnotifysig3" /\ (Block \/ Renotify \/ ReceiveAll("unblocked"))
mqnotifysig4 == prog = "mqnotifysig4" /\ (Renotify \/ ReceiveAll("wait"))
mqnotifysig5 == prog = "mqnotifysig5" /\ (Select \/ Renotify \/ ReceiveAll("wait"))

\* A thread registers again, reads until EAGAIN and ends.
mqnotifythread1 ==
  /\ prog = "mqnotifythread1"
  /\ \/ /\ notify_thread.started > 0
        /\ mq_notify
        /\ notify_thread' = [started |-> notify_thread.started - 1,
                             reading |-> notify_thread.reading + 1]
        /\ UNCHANGED <<queue, current>>
     \/ /\ notify_thread.reading > 0
        /\ \/ Take /\ UNCHANGED notify_thread
           \/ /\ queue = 0
              /\ notify_thread' = [notify_thread EXCEPT !.reading = @ - 1]
              /\ UNCHANGED <<queue, current>>
        /\ UNCHANGED registered
  /\ UNCHANGED <<prog, sent, signals, pc, other>>

Program ==
  \/ Start \/ Deliver
  \/ mqnotifysigl \/ mqnotifysig2 \/ mqnotifysig3 \/ mqnotifysig4 \/ mqnotifysig5
  \/ mqnotifythread1

Next == mq_send \/ mqreceive \/ Program

Spec == Init /\ [][Next]_vars

\* The program is scheduled and its signals are delivered, if nobody keeps it
\* from running; nobody has to send, and the second reader may stop.
FairSpec == Spec /\ WF_vars(Start) /\ WF_vars(Deliver) /\ WF_vars(Program)
-----------------------------------------------------------------------------

TypeOK ==
  /\ prog \in OnePerNotification \cup Draining
  /\ queue \in 0..mq_maxmsg /\ sent \in Nat
  /\ registered \in BOOLEAN /\ pending \in BOOLEAN /\ mqflag \in BOOLEAN
  /\ pipefd \in Nat
  /\ pc \in {"main", "wait", "unblocked", "notified", "reading", "read", "blocked"}
  /\ notify_thread \in [started : Nat, reading : Nat]
  /\ other \in {"idle", "blocked"} /\ current \in BOOLEAN

\* The program knows, or will know, that it has to look at the queue.
Told ==
  \/ pending \/ mqflag \/ pipefd > 0
  \/ pc \in {"notified", "reading"}
  \/ notify_thread.started > 0 \/ notify_thread.reading > 0

\* A program that drains the queue is never left waiting beside messages,
\* whenever they arrived, once the queue was empty after it had registered.
\* (Messages that were there before it started wake nobody.)
NoneForgotten == prog \in Draining /\ current /\ queue > 0 => Told

\* And it does read them: the queue becomes empty again, with no further
\* message.
Drained == (prog \in Draining /\ current /\ queue > 0) ~> queue = 0
=============================================================================
