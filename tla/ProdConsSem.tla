---------------------------- MODULE ProdConsSem ----------------------------
(***************************************************************************)
(* The producer-consumer programs of pxsem: prodcons1 to prodcons4 and     *)
(* mycat2, threads around a circular buffer with the semaphores mutex,     *)
(* nempty and nstored; and the message log of pxshm, where the producers   *)
(* are processes client2 that count what finds no room, and the consumer   *)
(* is server2.  sem_wait and sem_post are atomic.  A behaviour is one run  *)
(* of one program: Init picks the program, its arguments and its threads.  *)
(***************************************************************************)
EXTENDS Integers, Sequences, FiniteSets

CONSTANTS Producers, Consumers,  \* the threads main may create
          NBUFF,                 \* the slots of the buffer
          MaxItems,              \* bound: nitems, or the blocks of the file
          MaxErrors              \* bound: read fails no more often

ASSUME ProdConsAssumption ==
  /\ IsFiniteSet(Producers) /\ IsFiniteSet(Consumers)
  /\ Producers \cap Consumers = {}
  /\ NBUFF \in Nat \ {0} /\ MaxItems \in Nat /\ MaxErrors \in Nat

VARIABLES prog, nitems,          \* the program and its argument; they stay
          sem,                   \* mutex, nempty and nstored
          buff,
          nput, nputval,         \* next place and next value to store
          nget,                  \* next place to fetch from
          pc,
          count,                 \* thread -> items it has moved
          errors,                \* failed reads so far
          noverflow,             \* messages that found the log full
          local,                 \* process -> its offset, or the noverflow it read
          out                    \* what the consumers printed or wrote

args == <<prog, nitems>>
puts == <<buff, nput, nputval, errors>>
gets == <<nget, out>>
logs == <<noverflow, local>>
vars == <<args, sem, puts, gets, logs, pc, count>>

Threads == Producers \cup Consumers
EndOfFile == -1                  \* a slot of mycat2 whose n is 0
ReadFailed == -2                 \* and one whose n is -1

Programs == {"prodcons1", "prodcons2", "prodcons3", "prodcons4", "mycat2", "client2"}
\* Producers find the end under the mutex; the others count on their own.
ManyProducers == prog \in {"prodcons3", "prodcons4"}
ManyConsumers == prog = "prodcons4"
\* Each client2 sends nitems messages; a message is named by its place.
MessageLog == prog = "client2"

FullSems_OneSlotMore ==     \* mutation
  [mutex |-> 1, nempty |-> NBUFF + 1, nstored |-> 0, noverflowmutex |-> 1]
FullSems == [mutex |-> 1, nempty |-> NBUFF, nstored |-> 0, noverflowmutex |-> 1]

\* main: the semaphores and the threads; a thread not created is "done".
Init ==
  /\ prog \in Programs /\ nitems \in 0..MaxItems
  /\ sem = FullSems
  /\ buff = [b \in 0..NBUFF-1 |-> 0]
  /\ nput = 0 /\ nputval = 0 /\ nget = 0 /\ errors = 0 /\ out = <<>>
  /\ noverflow = 0 /\ local = [t \in Threads |-> 0]
  /\ count = [t \in Threads |-> 0]
  /\ \E P \in (SUBSET Producers) \ {{}}, C \in (SUBSET Consumers) \ {{}} :
       /\ ManyProducers \/ MessageLog \/ Cardinality(P) = 1
       /\ MessageLog => nitems * Cardinality(P) <= MaxItems
       /\ ManyConsumers \/ Cardinality(C) = 1
       /\ pc = [t \in Threads |-> IF t \in P THEN "produce"
                                  ELSE IF t \in C THEN "consume" ELSE "done"]

Goto(t, from, to) == pc[t] = from /\ pc' = [pc EXCEPT ![t] = to]

sem_wait(s) == sem[s] > 0 /\ sem' = [sem EXCEPT ![s] = @ - 1]
sem_posts(S) == sem' = [s \in DOMAIN sem |-> IF s \in S THEN sem[s] + 1 ELSE sem[s]]

\* prodcons3 and client2 count for their producers, prodcons4 for all threads.
Counted(t) ==
  count' = IF ManyConsumers \/ ((ManyProducers \/ MessageLog) /\ t \in Producers)
           THEN [count EXCEPT ![t] = @ + 1] ELSE count

\* for (i=0; i<nitems; i++) has come to its end.
LoopOver(t) ==
  \/ prog \in {"prodcons1", "prodcons2"} /\ nput >= nitems
  \/ MessageLog /\ count[t] >= nitems

\* In client2 it is sem_trywait that succeeds.
produce_wait(t) ==
  /\ Goto(t, "produce", "p_lock")
  /\ ~LoopOver(t)
  /\ sem_wait("nempty")
  /\ UNCHANGED <<puts, gets, count>>

produce_return(t) ==
  /\ Goto(t, "produce", "done")
  /\ LoopOver(t)
  /\ UNCHANGED <<sem, puts, gets, count>>

produce_lock_Not(t) ==           \* mutation: the mutex is forgotten
  /\ Goto(t, "p_lock", "p_store")
  /\ UNCHANGED <<sem, puts, gets, count>>

produce_lock(t) ==
  /\ Goto(t, "p_lock", "p_store")
  /\ sem_wait("mutex")
  /\ UNCHANGED <<puts, gets, count>>

\* All done: what the producer gives back before it returns.
GivenBack_Prodcons3 == {"nempty", "mutex"}   \* mutation: consumers are left waiting
GivenBack == {"nempty", "mutex"} \cup (IF ManyConsumers THEN {"nstored"} ELSE {})

AllPut_OffByOne == ManyProducers /\ nput > nitems      \* mutation
AllPut == ManyProducers /\ nput >= nitems

produce_all_done(t) ==
  /\ Goto(t, "p_store", "done")
  /\ AllPut
  /\ sem_posts(GivenBack)
  /\ UNCHANGED <<puts, gets, count>>

produce_store(t) ==
  /\ Goto(t, "p_store", "p_count")
  /\ prog # "mycat2" /\ ~MessageLog /\ ~AllPut
  /\ buff' = [buff EXCEPT ![nput % NBUFF] = nputval]
  /\ UNCHANGED <<sem, nput, nputval, errors, gets, count>>

produce_count(t) ==
  /\ Goto(t, "p_count", "p_post")
  /\ nput' = nput + 1 /\ nputval' = nputval + 1
  /\ sem_posts({"mutex"})
  /\ UNCHANGED <<buff, errors, gets, count>>

produce_post(t) ==
  /\ Goto(t, IF MessageLog THEN "p_copied" ELSE "p_post", "produce")
  /\ sem_posts({"nstored"})
  /\ Counted(t)
  /\ UNCHANGED <<puts, gets>>
-----------------------------------------------------------------------------
\* client2: the slot is taken under the mutex, the message copied after it.

client_slot(t) ==
  /\ Goto(t, "p_store", "p_count")
  /\ MessageLog
  /\ local' = [local EXCEPT ![t] = nput]
  /\ UNCHANGED <<sem, puts, gets, count, noverflow>>

client_copy(t) ==
  /\ Goto(t, "p_post", "p_copied")
  /\ MessageLog
  /\ buff' = [buff EXCEPT ![local[t] % NBUFF] = local[t]]
  /\ UNCHANGED <<sem, nput, nputval, errors, gets, count, logs>>

\* EAGAIN: the message is counted and dropped.
client_full(t) ==
  /\ Goto(t, "produce", "p_full")
  /\ MessageLog /\ ~LoopOver(t) /\ sem.nempty = 0
  /\ UNCHANGED <<sem, puts, gets, count, logs>>

client_overflow_Unlocked(t) ==     \* mutation: no noverflowmutex
  /\ Goto(t, "p_full", "p_over")
  /\ local' = [local EXCEPT ![t] = noverflow]
  /\ UNCHANGED <<sem, puts, gets, count, noverflow>>

client_overflow(t) ==
  /\ Goto(t, "p_full", "p_over")
  /\ sem_wait("noverflowmutex")
  /\ local' = [local EXCEPT ![t] = noverflow]
  /\ UNCHANGED <<puts, gets, count, noverflow>>

client_counted(t) ==
  /\ Goto(t, "p_over", "produce")
  /\ noverflow' = local[t] + 1
  /\ sem_posts({"noverflowmutex"})
  /\ Counted(t)
  /\ UNCHANGED <<puts, gets, local>>
-----------------------------------------------------------------------------
\* mycat2's producer: the critical region is empty, read comes after it.

cat_unlock(t) ==
  /\ Goto(t, "p_store", "p_read")
  /\ prog = "mycat2"
  /\ sem_posts({"mutex"})
  /\ UNCHANGED <<puts, gets, count>>

cat_read(t) ==
  /\ Goto(t, "p_read", "p_next")
  /\ \E n \in {nputval, EndOfFile, ReadFailed} :
       /\ n = nputval => nputval < nitems
       /\ n = EndOfFile => nputval = nitems
       /\ n = ReadFailed => errors < MaxErrors
       /\ buff' = [buff EXCEPT ![nput % NBUFF] = n]
       /\ nputval' = IF n = nputval THEN nputval + 1 ELSE nputval
       /\ errors' = IF n = ReadFailed THEN errors + 1 ELSE errors
  /\ UNCHANGED <<sem, nput, gets, count>>

\* End of file: the consumer is told, and the producer returns.
cat_eof(t) ==
  /\ Goto(t, "p_next", "done")
  /\ buff[nput % NBUFF] = EndOfFile
  /\ sem_posts({"nstored"})
  /\ UNCHANGED <<puts, gets, count>>

cat_next(t) ==
  /\ Goto(t, "p_next", "produce")
  /\ buff[nput % NBUFF] # EndOfFile
  /\ nput' = nput + 1
  /\ sem_posts({"nstored"})
  /\ UNCHANGED <<buff, nputval, errors, gets, count>>
-----------------------------------------------------------------------------

consume_wait(t) ==
  /\ Goto(t, "consume", "c_lock")
  /\ prog \in {"prodcons1", "prodcons2", "prodcons3"} => nget < nitems
  /\ sem_wait("nstored")
  /\ UNCHANGED <<puts, gets, count>>

consume_return(t) ==
  /\ Goto(t, "consume", "done")
  /\ prog \in {"prodcons1", "prodcons2", "prodcons3"} /\ nget >= nitems
  /\ UNCHANGED <<sem, puts, gets, count>>

consume_lock(t) ==
  /\ Goto(t, "c_lock", "c_fetch")
  /\ sem_wait("mutex")
  /\ UNCHANGED <<puts, gets, count>>

\* The next consumer is let through to find out for itself.
PassedOn_Slot == {"nempty", "mutex"}         \* mutation: the wrong semaphore
PassedOn == {"nstored", "mutex"}

consume_all_done(t) ==
  /\ Goto(t, "c_fetch", "done")
  /\ ManyConsumers /\ nget >= nitems
  /\ sem_posts(PassedOn)
  /\ UNCHANGED <<puts, gets, count>>

consume_fetch(t) ==
  /\ Goto(t, "c_fetch", "c_count")
  /\ prog # "mycat2" /\ ~(ManyConsumers /\ nget >= nitems)
  /\ out' = Append(out, buff[nget % NBUFF])
  /\ UNCHANGED <<sem, puts, nget, count>>

consume_count(t) ==
  /\ Goto(t, "c_count", "c_post")
  /\ nget' = nget + 1
  /\ sem_posts({"mutex"})
  /\ UNCHANGED <<puts, out, count>>

consume_post(t) ==
  /\ Goto(t, "c_post", IF MessageLog THEN "c_over" ELSE "consume")
  /\ sem_posts({"nempty"})
  /\ Counted(t)
  /\ UNCHANGED <<puts, gets>>

cat_consume_unlock(t) ==
  /\ Goto(t, "c_fetch", "c_write")
  /\ prog = "mycat2"
  /\ sem_posts({"mutex"})
  /\ UNCHANGED <<puts, gets, count>>

cat_stop(t) ==
  /\ Goto(t, "c_write", "done")
  /\ buff[nget % NBUFF] = EndOfFile
  /\ UNCHANGED <<sem, puts, gets, count>>

\* write of -1 bytes fails and writes nothing.
cat_write(t) ==
  /\ Goto(t, "c_write", "c_post")
  /\ buff[nget % NBUFF] # EndOfFile
  /\ out' = IF buff[nget % NBUFF] = ReadFailed THEN out
            ELSE Append(out, buff[nget % NBUFF])
  /\ nget' = nget + 1
  /\ UNCHANGED <<sem, puts, count>>

\* server2 looks at noverflow; what it prints of it is left out.
server_overflow(t) ==
  /\ Goto(t, "c_over", "c_temp")
  /\ sem_wait("noverflowmutex")
  /\ local' = [local EXCEPT ![t] = noverflow]
  /\ UNCHANGED <<puts, gets, count, noverflow>>

server_unlock(t) ==
  /\ Goto(t, "c_temp", "consume")
  /\ sem_posts({"noverflowmutex"})
  /\ UNCHANGED <<puts, gets, count, logs>>

LogStep(t) == UNCHANGED args /\
 (\/ client_slot(t) \/ client_copy(t) \/ client_full(t) \/ client_overflow(t)
  \/ client_counted(t) \/ server_overflow(t) \/ server_unlock(t))

BufferStep(t) == UNCHANGED <<args, logs>> /\
 (\/ produce_wait(t) \/ produce_return(t) \/ produce_lock(t) \/ produce_all_done(t)
  \/ produce_store(t) \/ produce_count(t) \/ produce_post(t)
  \/ cat_unlock(t) \/ cat_read(t) \/ cat_eof(t) \/ cat_next(t)
  \/ consume_wait(t) \/ consume_return(t) \/ consume_lock(t) \/ consume_all_done(t)
  \/ consume_fetch(t) \/ consume_count(t) \/ consume_post(t)
  \/ cat_consume_unlock(t) \/ cat_stop(t) \/ cat_write(t))

Step(t) == BufferStep(t) \/ LogStep(t)

Next == \E t \in Threads : Step(t)

Spec == Init /\ [][Next]_vars

\* A thread that can take its next step takes it in the end.
FairSpec == Spec /\ \A t \in Threads : WF_vars(Step(t))
-----------------------------------------------------------------------------

\* server2 does not return; it waits for messages.
Done == \A t \in Threads :
  pc[t] = "done" \/ (MessageLog /\ pc[t] = "consume" /\ sem.nstored = 0)

TypeOK ==
  /\ prog \in Programs /\ nitems \in 0..MaxItems
  /\ sem \in [mutex : 0..1, noverflowmutex : 0..1, nempty : 0..NBUFF,
              nstored : 0 .. (MaxItems + MaxErrors + Cardinality(Threads))]
  /\ buff \in [0..NBUFF-1 -> -2..MaxItems]
  /\ nput \in 0 .. (MaxItems + MaxErrors) /\ nputval \in 0..MaxItems
  /\ nget \in 0 .. (MaxItems + MaxErrors)
  /\ noverflow \in 0..MaxItems /\ local \in [Threads -> 0..MaxItems]
  /\ pc \in [Threads -> {"produce", "p_lock", "p_store", "p_count", "p_post", "p_read",
                         "p_next", "p_copied", "p_full", "p_over", "consume", "c_lock",
                         "c_fetch", "c_count", "c_post", "c_write", "c_over", "c_temp",
                         "done"}]
  /\ count \in [Threads -> 0..MaxItems] /\ errors \in 0..MaxErrors

\* Two clients of the log may pass one another between the slot and the copy:
\* then nstored of the one lets the server print the slot that the other has
\* not filled, and the late copy may fall on a newer message.
Clients == {t \in Producers : count[t] > 0 \/ pc[t] # "done"}
MayOvertake == MessageLog /\ Cardinality(Clients) > 1

\* Places taken by client2 into which its message is not yet copied.
Uncopied == {local[t] : t \in {q \in Producers : MessageLog /\ pc[q] = "p_post"}}

\* No store overwrites an item that is stored and not yet fetched, whatever
\* the number of producers and consumers (of clients of the log: one).
UnreadKept ==
  [][~MayOvertake =>
       \A i \in (nget .. nput - 1) \ Uncopied : buff'[i % NBUFF] = buff[i % NBUFF]]_vars

\* The consumers print every value once, in the order of the items; mycat2
\* writes the blocks of the file in order and nothing else; server2 prints
\* the messages of one client in order.
InOrder == ~MayOvertake => \A i \in DOMAIN out : out[i] = i - 1

\* The sum of the counts of some threads, as the number of the items counted.
Total(S) == Cardinality(UNION {{t} \X (1..count[t]) : t \in S})

\* When every thread has returned, all items have been printed, and the
\* counts that main prints add up to the number of items.  The server of the
\* log has then printed as many messages as the clients sent and did not
\* count as overflow, whichever they were.
AllMoved ==
  Done => /\ Len(out) + noverflow = IF MessageLog THEN nitems * Cardinality(Clients) ELSE nitems
          /\ ManyProducers => Total(Producers) = nitems
          /\ ManyConsumers => Total(Consumers) = nitems

\* Every thread returns: main's pthread_joins come to an end.  The clients of
\* the log return, and the server has nothing left to read.
AllReturn == <>Done
=============================================================================
