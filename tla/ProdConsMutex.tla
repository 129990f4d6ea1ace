--------------------------- MODULE ProdConsMutex ---------------------------
(***************************************************************************)
(* The producer-consumer programs of mutex: several producers fill an      *)
(* array under a mutex, and one consumer checks it afterwards (prodcons2), *)
(* while they run, polling nput (prodcons3), or while they run, waiting on *)
(* a condition variable for nready (prodcons6).  A behaviour is one run of *)
(* one program: Init picks the program, nitems and how many producers.     *)
(***************************************************************************)
EXTENDS Integers, FiniteSets, FiniteSetsExt

CONSTANTS Producers,       \* the producers main may create
          Consumer,        \* its consumer
          MaxItems         \* bound: nitems

Nobody == "nobody"       \* in the place of a thread: the mutex is free

ASSUME ProdConsAssumption ==
  /\ IsFiniteSet(Producers) /\ Consumer \notin Producers /\ Nobody \notin Producers
  /\ MaxItems \in Nat

VARIABLES prog, nitems,    \* the program and its argument; they stay
          holder,          \* who holds the mutex that protects nput and nval
          buff, nput, nval,
          nready,          \* prodcons6: items announced to the consumer
          i,               \* the consumer's loop variable
          wrong,           \* did the consumer print a complaint
          pc, count

args == <<prog, nitems>>
puts == <<holder, buff, nput, nval>>
vars == <<args, puts, nready, i, wrong, pc, count>>

Threads == Producers \cup {Consumer}

\* main: prodcons2 creates its consumer only when the producers are joined.
Init ==
  /\ prog \in {"prodcons2", "prodcons3", "prodcons6"} /\ nitems \in 0..MaxItems
  /\ holder = Nobody
  /\ buff = [n \in 0..MaxItems-1 |-> 0] /\ nput = 0 /\ nval = 0
  /\ nready = 0 /\ i = 0 /\ wrong = FALSE
  /\ count = [t \in Producers |-> 0]
  /\ \E P \in (SUBSET Producers) \ {{}} :
       pc = [t \in Threads |-> CASE t \in P -> "produce"
                                 [] t = Consumer -> "consume"
                                 [] OTHER -> "done"]

Goto(t, from, to) == pc[t] = from /\ pc' = [pc EXCEPT ![t] = to]

produce_lock_Not(t) ==               \* mutation: the mutex is forgotten
  /\ Goto(t, "produce", "store")
  /\ UNCHANGED <<puts, nready, i, wrong, count>>

produce_lock(t) ==
  /\ Goto(t, "produce", "store")
  /\ holder = Nobody /\ holder' = t
  /\ UNCHANGED <<buff, nput, nval, nready, i, wrong, count>>

\* The array is full.
produce_return(t) ==
  /\ Goto(t, "store", "done")
  /\ nput >= nitems
  /\ holder' = Nobody
  /\ UNCHANGED <<buff, nput, nval, nready, i, wrong, count>>

produce_store(t) ==
  /\ Goto(t, "store", "count")
  /\ nput < nitems
  /\ buff' = [buff EXCEPT ![nput] = nval]
  /\ UNCHANGED <<holder, nput, nval, nready, i, wrong, count>>

produce_count(t) ==
  /\ Goto(t, "count", IF prog = "prodcons6" THEN "announce" ELSE "tally")
  /\ nput' = nput + 1 /\ nval' = nval + 1
  /\ holder' = Nobody
  /\ UNCHANGED <<buff, nready, i, wrong, count>>

\* The producer's next pc, and the consumer's, which is woken if asleep.
Announced(t, wake) ==
  pc' = [pc EXCEPT ![t] = "tally",
                   ![Consumer] = IF wake /\ @ = "asleep" THEN "woken" ELSE @]

produce_announce_CountFirst(t) ==    \* mutation: nready is raised first
  /\ pc[t] = "announce"
  /\ Announced(t, nready + 1 = 0)
  /\ nready' = nready + 1
  /\ UNCHANGED <<puts, i, wrong, count>>

\* prodcons6, under nready.mutex: signal if nready is 0, and count.
produce_announce(t) ==
  /\ pc[t] = "announce"
  /\ Announced(t, nready = 0)
  /\ nready' = nready + 1
  /\ UNCHANGED <<puts, i, wrong, count>>

produce_tally(t) ==
  /\ Goto(t, "tally", "produce")
  /\ count' = [count EXCEPT ![t] = @ + 1]
  /\ UNCHANGED <<puts, nready, i, wrong>>
-----------------------------------------------------------------------------

Consume(from, to) == i < nitems /\ Goto(Consumer, from, to)

\* prodcons2: pthread_join for every producer comes first.
consume_start ==
  /\ prog = "prodcons2" /\ Consume("consume", "check")
  /\ \A t \in Producers : pc[t] = "done"
  /\ UNCHANGED <<puts, nready, i, wrong, count>>

IsReady_Inclusive == i <= nput       \* mutation
IsReady == i < nput

\* prodcons3: lock, look at nput, unlock, and again until item i is ready.
consume_wait ==
  /\ prog = "prodcons3" /\ holder = Nobody
  /\ Consume("consume", IF IsReady THEN "check" ELSE "consume")
  /\ UNCHANGED <<puts, nready, i, wrong, count>>

\* prodcons6: nready counts down, or the consumer sleeps.
TakeReady ==
  /\ \/ nready = 0 /\ pc' = [pc EXCEPT ![Consumer] = "asleep"] /\ UNCHANGED nready
     \/ nready # 0 /\ pc' = [pc EXCEPT ![Consumer] = "check"] /\ nready' = nready - 1
  /\ UNCHANGED <<puts, i, wrong, count>>

consume_ready ==
  prog = "prodcons6" /\ pc[Consumer] = "consume" /\ i < nitems /\ TakeReady

consume_resume_If ==                 \* mutation: an if instead of the while
  /\ Goto(Consumer, "woken", "check")
  /\ nready' = nready - 1
  /\ UNCHANGED <<puts, i, wrong, count>>

\* Back from pthread_cond_wait, with nready.mutex locked again.
consume_resume == pc[Consumer] = "woken" /\ TakeReady

\* Back from pthread_cond_wait without a signal.
SpuriousWake ==
  Goto(Consumer, "asleep", "woken") /\ UNCHANGED <<puts, nready, i, wrong, count>>

\* Without any lock: is buff[i] the value i?
consume_check ==
  /\ Goto(Consumer, "check", "consume")
  /\ wrong' = (wrong \/ buff[i] # i)
  /\ i' = i + 1
  /\ UNCHANGED <<puts, nready, count>>

consume_return ==
  /\ Goto(Consumer, "consume", "done")
  /\ i >= nitems
  /\ prog = "prodcons2" => \A t \in Producers : pc[t] = "done"
  /\ UNCHANGED <<puts, nready, i, wrong, count>>

produce(t) ==
  \/ produce_lock(t) \/ produce_return(t) \/ produce_store(t) \/ produce_count(t)
  \/ produce_announce(t) \/ produce_tally(t)

consume == consume_start \/ consume_wait \/ consume_ready \/ consume_resume
           \/ consume_check \/ consume_return

Next == UNCHANGED args /\ ((\E t \in Producers : produce(t)) \/ consume \/ SpuriousWake)

Spec == Init /\ [][Next]_vars

\* A thread that can take its next step takes it in the end.
FairSpec ==
  /\ Spec
  /\ \A t \in Producers : WF_vars(UNCHANGED args /\ produce(t))
  /\ WF_vars(UNCHANGED args /\ consume)
-----------------------------------------------------------------------------

TypeOK ==
  /\ prog \in {"prodcons2", "prodcons3", "prodcons6"} /\ nitems \in 0..MaxItems
  /\ holder \in Producers \cup {Nobody}
  /\ buff \in [0..MaxItems-1 -> 0..MaxItems]
  /\ nput \in 0..MaxItems /\ nval \in 0..MaxItems /\ nready \in 0..MaxItems
  /\ i \in 0..MaxItems /\ wrong \in BOOLEAN
  /\ pc \in [Threads -> {"produce", "store", "count", "announce", "tally", "consume",
                         "asleep", "woken", "check", "done"}]
  /\ count \in [Producers -> 0..MaxItems]

\* The consumer, which reads buff without a lock, only reads items that have
\* been stored and counted.
ReadsStored == pc[Consumer] = "check" => i < nput

\* The consumer never sleeps beside an announced item.
SleepsOnlyAtZero == pc[Consumer] = "asleep" => nready = 0

\* Every thread returns, the consumer has found every value in its place,
\* and the counts that main prints add up to the number of items.
AllMoved ==
  <>[](/\ \A t \in Threads : pc[t] = "done"
       /\ ~wrong
       /\ MapThenSumSet(LAMBDA t : count[t], Producers) = nitems)
=============================================================================
