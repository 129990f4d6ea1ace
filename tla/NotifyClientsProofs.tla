------------------------ MODULE NotifyClientsProofs ------------------------
(***************************************************************************)
(* Proofs about NotifyClients, for a queue of any length and any number of *)
(* messages.                                                               *)
(***************************************************************************)
EXTENDS NotifyClients, TLAPS

\* Once the program has registered, either the registration stands, or the
\* notification that used it up is under way to where the program registers
\* again: as SIGUSR1, as the flag or byte of the handler, or as a thread.
Expecting ==
  pc # "main" => \/ registered \/ pending \/ mqflag \/ pipefd > 0
                 \/ pc = "notified" \/ notify_thread.started > 0

\* Only the programs that read one message per notification block in
\* mq_receive, and "current" is about the time after registration.
Places ==
  /\ prog \in Draining => pc \notin {"blocked", "read"}
  /\ current => pc # "main"

IInv == TypeOK /\ Expecting /\ Places /\ NoneForgotten

LEMMA InitIInv == Init => IInv
<1> SUFFICES ASSUME Init PROVE IInv  OBVIOUS
<1>1. TypeOK
  BY NotifyAssumption DEF Init, TypeOK
<1>2. Expecting /\ Places /\ NoneForgotten
  BY DEF Init, Expecting, Places, NoneForgotten
<1>3. QED  BY <1>1, <1>2 DEF IInv

LEMMA StutterIInv == ASSUME IInv, UNCHANGED vars PROVE IInv'
  BY DEF IInv, TypeOK, Expecting, Places, NoneForgotten, Told, vars, Draining

\* A message taken leaves the queue empty, or the history as it was.
LEMMA TakeFacts ==
  ASSUME TypeOK, Take
  PROVE  /\ queue' \in 0..mq_maxmsg /\ current' \in BOOLEAN
         /\ queue > 0 /\ (queue' > 0 => current' = current)
         /\ pc = "main" => current' = current
<1>1. queue \in 0..mq_maxmsg /\ current \in BOOLEAN
  BY DEF TypeOK
<1>2. queue' \in 0..mq_maxmsg /\ queue > 0 /\ (queue' > 0 => queue # 1)
  BY <1>1, NotifyAssumption DEF Take
<1>3. current' \in BOOLEAN
  BY <1>1 DEF Take
<1>4. queue # 1 \/ pc = "main" => current' = current
  BY DEF Take
<1>5. QED  BY <1>2, <1>3, <1>4

\* Notify leaves a signal pending or a thread started.
LEMMA NotifyFacts ==
  ASSUME TypeOK, Notify
  PROVE  /\ pending' \in BOOLEAN /\ notify_thread' \in [started : Nat, reading : Nat]
         /\ pending' \/ notify_thread'.started > 0
         /\ notify_thread.reading > 0 => notify_thread'.reading > 0
<1>1. pending \in BOOLEAN /\ notify_thread \in [started : Nat, reading : Nat]
  BY DEF TypeOK
<1>2. notify_thread' \in [started : Nat, reading : Nat]
  BY <1>1 DEF Notify
<1>3. prog = "mqnotifythread1" => notify_thread'.started > 0
  BY <1>1 DEF Notify
<1>4. notify_thread'.reading = notify_thread.reading
  BY <1>1 DEF Notify
<1>5. pending' \in BOOLEAN /\ (prog # "mqnotifythread1" => pending')
  BY <1>1 DEF Notify
<1>6. QED  BY <1>2, <1>3, <1>4, <1>5

\* A message on the empty queue finds the program registered, or already told.
LEMMA SendIInv == ASSUME IInv, mq_send PROVE IInv'
<1> USE DEF mq_send, Goto, signals, program
<1>1. TypeOK'
  <2>1. queue' \in 0..mq_maxmsg /\ sent' \in Nat
    BY NotifyAssumption DEF IInv, TypeOK
  <2>2. pending' \in BOOLEAN /\ notify_thread' \in [started : Nat, reading : Nat]
    BY NotifyFacts DEF IInv, TypeOK
  <2>3. QED  BY <2>1, <2>2 DEF IInv, TypeOK
<1>2. Expecting'
  BY NotifyFacts DEF IInv, TypeOK, Expecting
<1>3. Places'
  BY DEF IInv, Places
<1>4. NoneForgotten'
  <2>1. queue > 0 \/ queue = 0
    BY NotifyAssumption DEF IInv, TypeOK
  <2>2. CASE queue > 0
    BY <2>2, NotifyFacts DEF IInv, NoneForgotten, Told
  <2>3. CASE queue = 0
    <3>1. CASE UNCHANGED queue
      BY <2>3, <3>1 DEF NoneForgotten
    <3>2. CASE ~UNCHANGED queue /\ registered
      <4>1. Notify
        BY <2>3, <3>2
      <4>2. QED  BY <4>1, NotifyFacts DEF IInv, NoneForgotten, Told
    <3>3. CASE ~UNCHANGED queue /\ ~registered
      <4>1. UNCHANGED <<pending, mqflag, pipefd, notify_thread, pc, prog, current>>
        BY <2>3, <3>3
      <4>2. current => pc # "main"
        BY DEF IInv, Places
      <4>3. QED  BY <3>3, <4>1, <4>2 DEF IInv, Expecting, NoneForgotten, Told
    <3>4. QED  BY <3>1, <3>2, <3>3
  <2>4. QED  BY <2>1, <2>2, <2>3
<1>5. QED  BY <1>1, <1>2, <1>3, <1>4 DEF IInv

LEMMA ReceiveIInv == ASSUME IInv, mqreceive PROVE IInv'
<1> USE DEF mqreceive, signals, program
<1>1. TypeOK'
  BY TakeFacts DEF IInv, TypeOK
<1>2. Expecting'
  BY DEF IInv, Expecting
<1>3. Places'
  BY TakeFacts DEF IInv, Places
<1>4. NoneForgotten'
  BY TakeFacts DEF IInv, NoneForgotten, Told
<1>5. QED  BY <1>1, <1>2, <1>3, <1>4 DEF IInv

LEMMA StartIInv == ASSUME IInv, Start PROVE IInv'
  BY DEF Start, Goto, mq_notify, signals,
     IInv, TypeOK, Expecting, Places, NoneForgotten, Told

\* The signal becomes the flag, a byte, or the notified program.
LEMMA DeliverIInv == ASSUME IInv, Deliver PROVE IInv'
<1> USE DEF Deliver, Goto
<1>1. TypeOK'
  <2>1. pipefd' \in Nat
    BY DEF IInv, TypeOK
  <2>2. pending' \in BOOLEAN /\ mqflag' \in BOOLEAN
    BY DEF IInv, TypeOK
  <2>3. pc' \in {"wait", "unblocked", "notified"} \/ UNCHANGED pc
    BY DEF IInv, TypeOK
  <2>4. QED  BY <2>1, <2>2, <2>3 DEF IInv, TypeOK
<1>2. mqflag' \/ pipefd' > 0 \/ pc' = "notified"
  BY DEF IInv, TypeOK
<1>3. Expecting'
  BY <1>2 DEF Expecting
<1>4. Places'
  BY DEF IInv, Places
<1>5. NoneForgotten'
  BY <1>2 DEF NoneForgotten, Told
<1>6. QED  BY <1>1, <1>3, <1>4, <1>5 DEF IInv

LEMMA RenotifyIInv == ASSUME IInv, Renotify PROVE IInv'
  BY DEF Renotify, Goto, mq_notify, IInv, TypeOK, Expecting, Places, NoneForgotten, Told

LEMMA BlockIInv == ASSUME IInv, Block PROVE IInv'
  BY DEF Block, Goto, signals, IInv, TypeOK, Expecting, Places, NoneForgotten, Told

LEMMA SelectIInv == ASSUME IInv, Select PROVE IInv'
  BY DEF Select, Goto, IInv, TypeOK, Expecting, Places, NoneForgotten, Told

LEMMA ReceiveOneIInv == ASSUME IInv, prog \in OnePerNotification, ReceiveOne PROVE IInv'
<1> USE DEF ReceiveOne, Goto, signals, OnePerNotification, Draining
<1>1. TypeOK'
  BY TakeFacts DEF IInv, TypeOK
<1>2. Expecting'
  BY DEF IInv, Expecting
<1>3. Places'
  BY TakeFacts DEF IInv, Places
<1>4. NoneForgotten'
  BY DEF IInv, NoneForgotten
<1>5. QED  BY <1>1, <1>2, <1>3, <1>4 DEF IInv

LEMMA ReceivedOneIInv ==
  ASSUME IInv, prog \in OnePerNotification, NEW place \in {"wait", "unblocked"}, ReceivedOne(place)
  PROVE  IInv'
<1> USE DEF ReceivedOne, Goto, signals, OnePerNotification, Draining
<1>1. TypeOK'
  BY DEF IInv, TypeOK
<1>2. Expecting'
  BY DEF IInv, Expecting
<1>3. Places'
  BY DEF IInv, Places
<1>4. NoneForgotten'
  BY DEF IInv, NoneForgotten
<1>5. QED  BY <1>1, <1>2, <1>3, <1>4 DEF IInv

\* The program stops reading only when the queue is empty.
LEMMA ReceiveAllIInv ==
  ASSUME IInv, NEW place \in {"wait", "unblocked"}, ReceiveAll(place)
  PROVE  IInv'
<1> USE DEF ReceiveAll, Goto, signals
<1>1. TypeOK'
  BY TakeFacts DEF IInv, TypeOK
<1>2. Expecting'
  BY DEF IInv, Expecting
<1>3. Places'
  BY TakeFacts DEF IInv, Places
<1>4. NoneForgotten'
  <2>1. CASE pc' = "reading"
    BY <2>1 DEF NoneForgotten, Told
  <2>2. CASE queue = 0 /\ UNCHANGED queue
    BY <2>2 DEF NoneForgotten
  <2>3. QED  BY <2>1, <2>2
<1>5. QED  BY <1>1, <1>2, <1>3, <1>4 DEF IInv

LEMMA ThreadIInv == ASSUME IInv, mqnotifythread1 PROVE IInv'
<1> USE DEF mqnotifythread1, mq_notify, signals
<1>1. TypeOK'
  <2>1. notify_thread' \in [started : Nat, reading : Nat]
    BY DEF IInv, TypeOK
  <2>2. QED  BY <2>1, TakeFacts DEF IInv, TypeOK
<1>2. Expecting'
  BY DEF IInv, TypeOK, Expecting
<1>3. Places'
  BY TakeFacts DEF IInv, Places
<1>4. NoneForgotten'
  <2>1. CASE notify_thread' = [started |-> notify_thread.started - 1,
                               reading |-> notify_thread.reading + 1]
    <3>1. notify_thread'.reading > 0
      BY <2>1 DEF IInv, TypeOK
    <3>2. QED  BY <3>1 DEF NoneForgotten, Told
  <2>2. CASE Take /\ UNCHANGED notify_thread
    BY <2>2, TakeFacts DEF IInv, NoneForgotten, Told
  <2>3. CASE queue = 0 /\ UNCHANGED queue
    BY <2>3 DEF NoneForgotten
  <2>4. QED  BY <2>1, <2>2, <2>3
<1>5. QED  BY <1>1, <1>2, <1>3, <1>4 DEF IInv

LEMMA NextIInv == ASSUME IInv, [Next]_vars PROVE IInv'
<1>1. CASE UNCHANGED vars  BY <1>1, StutterIInv
<1>2. CASE mq_send  BY <1>2, SendIInv
<1>3. CASE mqreceive  BY <1>3, ReceiveIInv
<1>4. CASE Start  BY <1>4, StartIInv
<1>5. CASE Deliver  BY <1>5, DeliverIInv
<1>6. CASE mqnotifysigl
  BY <1>6, RenotifyIInv, ReceiveOneIInv, ReceivedOneIInv DEF mqnotifysigl, OnePerNotification
<1>7. CASE mqnotifysig2
  BY <1>7, BlockIInv, RenotifyIInv, ReceiveOneIInv, ReceivedOneIInv
     DEF mqnotifysig2, OnePerNotification
<1>8. CASE mqnotifysig3
  BY <1>8, BlockIInv, RenotifyIInv, ReceiveAllIInv DEF mqnotifysig3
<1>9. CASE mqnotifysig4
  BY <1>9, RenotifyIInv, ReceiveAllIInv DEF mqnotifysig4
<1>10. CASE mqnotifysig5
  BY <1>10, SelectIInv, RenotifyIInv, ReceiveAllIInv DEF mqnotifysig5
<1>11. CASE mqnotifythread1  BY <1>11, ThreadIInv
<1>12. QED
  BY <1>1, <1>2, <1>3, <1>4, <1>5, <1>6, <1>7, <1>8, <1>9, <1>10, <1>11 DEF Next, Program

\* The inductive invariant holds in every state of every program.
THEOREM Invariance == Spec => []IInv
  BY InitIInv, NextIInv, PTL DEF Spec

\* The variables keep their types.
THEOREM TypeCorrect == Spec => []TypeOK
<1>1. IInv => TypeOK  BY DEF IInv
<1>2. QED  BY <1>1, Invariance, PTL

\* A program that drains the queue is never left waiting beside messages.
THEOREM NothingForgotten == Spec => []NoneForgotten
<1>1. IInv => NoneForgotten  BY DEF IInv
<1>2. QED  BY <1>1, Invariance, PTL
=============================================================================
