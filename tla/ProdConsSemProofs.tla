------------------------- MODULE ProdConsSemProofs --------------------------
(***************************************************************************)
(* Proofs about ProdConsSem, for any producers, consumers, slots and       *)
(* items, in each of the six programs: no place of the buffer is filled    *)
(* before it has been fetched, what the consumers print is what was put,   *)
(* once and in order, and at the end they have printed all of it.          *)
(***************************************************************************)
EXTENDS ProdConsSem, FiniteSetTheorems, SequenceTheorems, TLAPS

\* How many of the threads T are at one of the places W.
At(T, W) == Cardinality({t \in T : pc[t] \in W})

\* The producers that have taken a place and not yet moved nput, or have moved
\* it and not yet posted nstored; the consumers that have taken an item and
\* not yet moved nget, or have moved it and not yet posted nempty.
Filling  == At(Producers, {"p_lock", "p_store", "p_count", "p_read", "p_next"})
Posting  == At(Producers, {"p_post", "p_copied"})
Fetching == At(Consumers, {"c_lock", "c_fetch", "c_count", "c_write"})
Freeing  == At(Consumers, {"c_post"})

\* Where the threads can be, and which programs have several of a kind.
ProducerPlaces == {"produce", "p_lock", "p_store", "p_count", "p_post", "p_read",
                   "p_next", "p_copied", "p_full", "p_over", "done"}
ConsumerPlaces == {"consume", "c_lock", "c_fetch", "c_count", "c_post", "c_write",
                   "c_over", "c_temp", "done"}
PlaceInv ==
  /\ \A t \in Producers : pc[t] \in ProducerPlaces
  /\ \A t \in Consumers : pc[t] \in ConsumerPlaces
  /\ \A t \in Threads :
       /\ pc[t] \in {"p_read", "p_next", "c_write"} => prog = "mycat2"
       /\ pc[t] \in {"p_count", "p_post", "c_count"} => prog # "mycat2"
       /\ pc[t] \in {"p_copied", "p_full", "p_over", "c_over", "c_temp"} => MessageLog
SoloInv ==
  /\ ~ManyProducers /\ ~MessageLog =>
       \A t, u \in Producers : pc[t] # "done" /\ pc[u] # "done" => t = u
  /\ ~ManyConsumers =>
       \A t, u \in Consumers : pc[t] # "done" /\ pc[u] # "done" => t = u

\* Each of the two mutexes has the threads that are between its operations.
OnlyOne(s, W) ==
  IF sem[s] = 1 THEN \A t \in Threads : pc[t] \notin W
  ELSE sem[s] = 0 /\ \E t \in Threads : \A u \in Threads : pc[u] \in W <=> u = t
MutexInv ==
  /\ OnlyOne("mutex", {"p_store", "p_count", "c_fetch", "c_count"})
  /\ OnlyOne("noverflowmutex", {"p_over", "c_temp"})

\* A place is empty, being filled, filled, or being given back; the one with
\* the end of mycat2's file is never given back.
PlacesInv ==
  nget <= nput /\ sem["nempty"] + Filling + (nput - nget) + Freeing <= NBUFF

\* mycat2's producer has told of the end of the file.
Ended == prog = "mycat2" /\ \A t \in Producers : pc[t] = "done"

\* An item is to be posted, is posted, is being fetched, or has been: but for
\* the posts that only tell the consumers to return.
TokensInv ==
  LET items == nget + sem["nstored"] + Fetching + Posting
  IN  /\ items <= nput + (IF ManyConsumers THEN At(Producers, {"done"})
                          ELSE IF Ended THEN 1 ELSE 0)
      /\ ManyConsumers /\ nput < nitems => items <= nput
      /\ ManyConsumers /\ (\E t \in Consumers : pc[t] = "c_count") => nget < nitems

\* The number of items is not exceeded.
NputInv ==
  /\ prog # "mycat2" => nputval = nput /\ errors = 0
  /\ prog \in {"prodcons1", "prodcons2", "prodcons3", "prodcons4"} => nput <= nitems
  /\ prog \in {"prodcons1", "prodcons2"} =>
       \A t \in Producers : pc[t] \in {"p_lock", "p_store", "p_count"} => nput < nitems
  /\ ManyProducers => \A t \in Producers : pc[t] = "p_count" => nput < nitems

\* A thread has counted only what it has moved.
CountInv ==
  /\ \A t \in Producers :
       ManyProducers => count[t] + (IF pc[t] = "p_post" THEN 1 ELSE 0) <= nput
  /\ \A t \in Consumers :
       ManyConsumers => count[t] + (IF pc[t] = "c_post" THEN 1 ELSE 0) <= nget
  /\ MessageLog => \A t \in Producers :
       /\ count[t] <= nitems
       /\ pc[t] \notin {"produce", "done"} => count[t] < nitems
       /\ pc[t] = "done" => count[t] \in {0, nitems}

\* The messages that have a place in the log, or overflowed, as pairs.
Begun ==
  {m \in Producers \X (0..nitems-1) :
     \/ m[2] < count[m[1]]
     \/ m[2] = count[m[1]] /\ pc[m[1]] \in {"p_post", "p_copied"}}

LogInv ==
  IF MessageLog
  THEN /\ nitems * Cardinality(Clients) <= MaxItems
       /\ nput + noverflow = Cardinality(Begun)
       /\ \A t \in Producers :
            /\ pc[t] = "p_count" => local[t] = nput
            /\ pc[t] = "p_over" => local[t] = noverflow
            /\ pc[t] = "p_post" => local[t] < nput
            /\ pc[t] = "p_post" /\ ~MayOvertake => local[t] = nput - 1
  ELSE noverflow = 0

\* The items not yet fetched are in their places, and out has the others.
ItemsInv ==
  prog # "mycat2" =>
    /\ Len(out) = nget + (IF \E t \in Consumers : pc[t] = "c_count" THEN 1 ELSE 0)
    /\ ~MayOvertake =>
         \A i \in (nget..nput-1) \ Uncopied : buff[i % NBUFF] = i
    /\ ~MessageLog =>
         \A t \in Producers : pc[t] = "p_count" => buff[nput % NBUFF] = nput

\* mycat2: the place nput is read into but not yet stored, and has a block.
Slot == buff[nput % NBUFF]
AtNext == \E t \in Producers : pc[t] = "p_next"
ReadInv ==
  prog = "mycat2" =>
    /\ nputval <= nitems
    /\ nput + (IF AtNext /\ Slot # EndOfFile THEN 1 ELSE 0) = nputval + errors
    /\ AtNext => Slot \in {EndOfFile, ReadFailed} \/ (Slot = nputval - 1 /\ nputval > 0)
    /\ Ended => Slot = EndOfFile

\* The places that are stored have the next blocks of the file, in order, and
\* failed reads between them: at i, f[i] blocks have gone before.
BlocksInv ==
  prog = "mycat2" =>
    \E f \in [nget..nput -> 0..MaxItems] :
      /\ f[nget] = Len(out)
      /\ \A i \in nget..nput-1 :
           \/ buff[i % NBUFF] = ReadFailed /\ f[i + 1] = f[i]
           \/ buff[i % NBUFF] = f[i] /\ f[i + 1] = f[i] + 1
      /\ nputval = f[nput] + (IF AtNext /\ Slot >= 0 THEN 1 ELSE 0)

IInv == /\ TypeOK /\ out \in Seq(-2..MaxItems)
        /\ PlaceInv /\ SoloInv /\ MutexInv /\ PlacesInv /\ TokensInv /\ NputInv
        /\ CountInv /\ LogInv /\ ItemsInv /\ ReadInv /\ BlocksInv /\ InOrder
-----------------------------------------------------------------------------
(* The buffer is circular.                                                 *)

\* A place is in the slot of the buffer that the code computes with %.
LEMMA ModType == \A i \in Nat : i % NBUFF \in 0..NBUFF-1
  BY ProdConsAssumption

\* Places less than NBUFF apart do not share a slot.
LEMMA ModApart ==
  ASSUME NEW i \in Nat, NEW j \in Nat, i < j, j < i + NBUFF
  PROVE  i % NBUFF # j % NBUFF
<1> DEFINE a == i \div NBUFF
           b == j \div NBUFF
<1>1. i = NBUFF * a + (i % NBUFF) /\ j = NBUFF * b + (j % NBUFF) /\ a \in Int /\ b \in Int
  BY ProdConsAssumption
<1>2. NBUFF \in Nat \ {0}
  BY ProdConsAssumption
<1> HIDE DEF a, b
<1>3. CASE b >= a + 1
  <2> DEFINE k == b - a - 1
  <2>1. k \in Nat /\ b = a + 1 + k
    BY <1>1, <1>3
  <2> HIDE DEF k
  <2>2. NBUFF * k \in Nat
    BY <1>2, <2>1
  <2>3. NBUFF * b = NBUFF * a + NBUFF + NBUFF * k
    BY <1>1, <1>2, <2>1
  <2> QED BY <1>1, <1>2, <2>2, <2>3
<1>4. CASE b <= a
  <2> DEFINE k == a - b
  <2>1. k \in Nat /\ a = b + k
    BY <1>1, <1>4
  <2> HIDE DEF k
  <2>2. NBUFF * k \in Nat
    BY <1>2, <2>1
  <2>3. NBUFF * a = NBUFF * b + NBUFF * k
    BY <1>1, <1>2, <2>1
  <2> QED BY <1>1, <1>2, <2>2, <2>3
<1> QED BY <1>1, <1>3, <1>4

Delta(a, b, W) == (IF b \in W THEN 1 ELSE 0) - (IF a \in W THEN 1 ELSE 0)

\* Counting the threads at some places while one thread moves.
LEMMA AtMoves ==
  ASSUME TypeOK, NEW T \in SUBSET Threads, NEW W, NEW t \in Threads, NEW a, NEW b,
         Goto(t, a, b)
  PROVE  /\ At(T, W) \in Nat /\ At(T, W)' \in Nat
         /\ At(T, W)' = At(T, W) + (IF t \in T THEN Delta(a, b, W) ELSE 0)
<1> DEFINE A == {u \in T : pc[u] \in W}
           B == {u \in T : pc'[u] \in W}
<1>1. At(T, W) = Cardinality(A) /\ At(T, W)' = Cardinality(B)
  BY DEF At
<1>2. IsFiniteSet(T)
  BY ProdConsAssumption, FS_Subset, FS_Union DEF Threads
<1>3. IsFiniteSet(A) /\ IsFiniteSet(B)
  BY <1>2, FS_Subset
<1>4. Cardinality(A) \in Nat /\ Cardinality(B) \in Nat
  BY <1>3, FS_CardinalityType
<1>5. /\ pc[t] = a /\ pc'[t] = b
      /\ \A u \in Threads \ {t} : pc'[u] = pc[u]
  BY DEF TypeOK, Goto
<1>6. CASE t \in T /\ a \in W /\ b \notin W
  <2>1. t \in A /\ B = A \ {t}
    BY <1>5, <1>6
  <2> HIDE DEF A, B
  <2> QED BY <1>1, <1>3, <1>4, <1>6, <2>1, FS_RemoveElement DEF Delta
<1>7. CASE t \in T /\ a \notin W /\ b \in W
  <2>1. t \notin A /\ B = A \cup {t}
    BY <1>5, <1>7
  <2> HIDE DEF A, B
  <2> QED BY <1>1, <1>3, <1>4, <1>7, <2>1, FS_AddElement DEF Delta
<1>8. CASE t \notin T \/ (a \in W <=> b \in W)
  <2>1. B = A
    BY <1>5, <1>8
  <2> HIDE DEF A, B
  <2> QED BY <1>1, <1>4, <1>8, <2>1 DEF Delta
<1> QED BY <1>6, <1>7, <1>8

\* A thread at one of the places is counted.
LEMMA AtSome ==
  ASSUME NEW T \in SUBSET Threads, NEW W
  PROVE  /\ At(T, W) \in Nat
         /\ \A t \in T : pc[t] \in W => At(T, W) >= 1
         /\ At(T, W) <= Cardinality(Threads)
<1> DEFINE A == {u \in T : pc[u] \in W}
<1>1. IsFiniteSet(Threads) /\ IsFiniteSet(A) /\ A \subseteq Threads
  BY ProdConsAssumption, FS_Subset, FS_Union DEF Threads
<1>2. Cardinality(A) \in Nat /\ (Cardinality(A) = 0 <=> A = {})
  BY <1>1, FS_CardinalityType, FS_EmptySet
<1>3. Cardinality(A) <= Cardinality(Threads)
  BY <1>1, FS_Subset
<1> QED BY <1>2, <1>3 DEF At

\* How a step of one thread moves the counts.
LEMMA ProducerFlow ==
  ASSUME TypeOK, NEW t \in Producers, NEW a, NEW b, Goto(t, a, b)
  PROVE  /\ Filling \in Nat /\ Posting \in Nat /\ Fetching \in Nat /\ Freeing \in Nat
         /\ At(Producers, {"done"}) \in Nat
         /\ Filling' = Filling
              + Delta(a, b, {"p_lock", "p_store", "p_count", "p_read", "p_next"})
         /\ Posting' = Posting + Delta(a, b, {"p_post", "p_copied"})
         /\ At(Producers, {"done"})' = At(Producers, {"done"}) + Delta(a, b, {"done"})
         /\ Fetching' = Fetching /\ Freeing' = Freeing
<1>1. t \in Threads /\ t \notin Consumers /\ Producers \in SUBSET Threads
      /\ Consumers \in SUBSET Threads
  BY ProdConsAssumption DEF Threads
<1> QED BY <1>1, AtMoves DEF Filling, Posting, Fetching, Freeing

\* And of a consumer.
LEMMA ConsumerFlow ==
  ASSUME TypeOK, NEW t \in Consumers, NEW a, NEW b, Goto(t, a, b)
  PROVE  /\ Filling \in Nat /\ Posting \in Nat /\ Fetching \in Nat /\ Freeing \in Nat
         /\ At(Producers, {"done"}) \in Nat
         /\ Filling' = Filling /\ Posting' = Posting
         /\ At(Producers, {"done"})' = At(Producers, {"done"})
         /\ Fetching' = Fetching
              + Delta(a, b, {"c_lock", "c_fetch", "c_count", "c_write"})
         /\ Freeing' = Freeing + Delta(a, b, {"c_post"})
<1>1. t \in Threads /\ t \notin Producers /\ Producers \in SUBSET Threads
      /\ Consumers \in SUBSET Threads
  BY ProdConsAssumption DEF Threads
<1>2. ASSUME NEW W PROVE At(Producers, W) \in Nat /\ At(Producers, W)' = At(Producers, W)
  <2>1. /\ At(Producers, W) \in Nat
        /\ At(Producers, W)' =
             At(Producers, W) + (IF t \in Producers THEN Delta(a, b, W) ELSE 0)
    BY <1>1, AtMoves, Zenon
  <2> QED BY <1>1, <2>1
<1>3. Filling \in Nat /\ Filling' = Filling /\ Posting \in Nat /\ Posting' = Posting
  BY <1>2 DEF Filling, Posting
<1>4. /\ At(Producers, {"done"}) \in Nat
      /\ At(Producers, {"done"})' = At(Producers, {"done"})
  BY <1>2
<1>5. Fetching \in Nat
      /\ Fetching' = Fetching + Delta(a, b, {"c_lock", "c_fetch", "c_count", "c_write"})
  BY <1>1, AtMoves DEF Fetching
<1>6. Freeing \in Nat /\ Freeing' = Freeing + Delta(a, b, {"c_post"})
  BY <1>1, AtMoves DEF Freeing
<1> QED BY <1>3, <1>4, <1>5, <1>6

-----------------------------------------------------------------------------
(* The semaphores.                                                         *)

SemNames == {"mutex", "nempty", "nstored", "noverflowmutex"}

\* The semaphores are natural numbers.
LEMMA SemIs == TypeOK => sem \in [SemNames -> Nat]
  BY ProdConsAssumption, AtSome DEF TypeOK, SemNames

\* sem_wait takes one from one semaphore, which was not zero.
LEMMA WaitIs ==
  ASSUME TypeOK, NEW s \in SemNames, sem_wait(s)
  PROVE  /\ sem' \in [SemNames -> Nat] /\ sem[s] > 0
         /\ \A r \in SemNames : sem'[r] = IF r = s THEN sem[r] - 1 ELSE sem[r]
  BY SemIs DEF sem_wait

\* sem_post of several semaphores adds one to each.
LEMMA PostsIs ==
  ASSUME TypeOK, NEW S \in SUBSET SemNames, sem_posts(S)
  PROVE  /\ sem' \in [SemNames -> Nat]
         /\ \A r \in SemNames : sem'[r] = IF r \in S THEN sem[r] + 1 ELSE sem[r]
<1>1. DOMAIN sem = SemNames /\ sem \in [SemNames -> Nat]
  BY SemIs
<1> QED BY <1>1 DEF sem_posts
-----------------------------------------------------------------------------
(* One step at a time.                                                     *)

Places == ProducerPlaces \cup ConsumerPlaces

\* A step moves one thread.
LEMMA StepMoves ==
  ASSUME NEW t \in Threads, Step(t)
  PROVE  /\ UNCHANGED args
         /\ \E a, b \in Places : Goto(t, a, b) /\ a # "done"
<1> USE DEF Places, ProducerPlaces, ConsumerPlaces
<1>1. CASE \/ produce_wait(t) \/ produce_return(t) \/ produce_lock(t)
           \/ produce_all_done(t) \/ produce_store(t) \/ produce_count(t)
           \/ produce_post(t)
  BY <1>1 DEF produce_wait, produce_return, produce_lock, produce_all_done,
              produce_store, produce_count, produce_post, Step, BufferStep, LogStep
<1>2. CASE \/ cat_unlock(t) \/ cat_read(t) \/ cat_eof(t) \/ cat_next(t)
           \/ cat_consume_unlock(t) \/ cat_stop(t) \/ cat_write(t)
  BY <1>2 DEF cat_unlock, cat_read, cat_eof, cat_next, cat_consume_unlock, cat_stop,
              cat_write, Step, BufferStep, LogStep
<1>3. CASE \/ consume_wait(t) \/ consume_return(t) \/ consume_lock(t)
           \/ consume_all_done(t) \/ consume_fetch(t) \/ consume_count(t)
           \/ consume_post(t)
  BY <1>3 DEF consume_wait, consume_return, consume_lock, consume_all_done,
              consume_fetch, consume_count, consume_post, Step, BufferStep, LogStep
<1>4. CASE LogStep(t)
  BY <1>4 DEF client_slot, client_copy, client_full, client_overflow, client_counted,
              server_overflow, server_unlock, LogStep
<1> QED BY <1>1, <1>2, <1>3, <1>4 DEF Step, BufferStep

\* What a step of each thread does to its place: the ones that change it to
\* a place of its own kind, in a program that has it.
LEMMA PlaceKept ==
  ASSUME TypeOK, PlaceInv, NEW t \in Threads, Step(t)
  PROVE  PlaceInv'
<1> USE DEF ProducerPlaces, ConsumerPlaces
<1>0. /\ Producers \cap Consumers = {} /\ Threads = Producers \cup Consumers
      /\ pc \in [Threads -> Places] /\ prog' = prog
  BY ProdConsAssumption, StepMoves DEF TypeOK, Threads, Places, args
<1> DEFINE Fits(b) == /\ t \in Producers => b \in ProducerPlaces
                      /\ t \in Consumers => b \in ConsumerPlaces
                      /\ b \in {"p_read", "p_next", "c_write"} => prog = "mycat2"
                      /\ b \in {"p_count", "p_post", "c_count"} => prog # "mycat2"
                      /\ b \in {"p_copied", "p_full", "p_over", "c_over", "c_temp"}
                           => MessageLog
<1>1. ASSUME NEW a, NEW b, Goto(t, a, b), Fits(b) PROVE PlaceInv'
  BY <1>0, <1>1 DEF PlaceInv, Goto, MessageLog
<1> HIDE DEF Fits
<1>2. CASE \/ produce_wait(t) \/ produce_return(t) \/ produce_lock(t)
           \/ produce_all_done(t) \/ produce_count(t)
  <2>1. PICK b \in {"p_lock", "done", "p_store", "p_post"} :
          \E a \in {"produce", "p_lock", "p_store", "p_count"} :
            Goto(t, a, b) /\ (b = "p_post" => a = "p_count")
    BY <1>2 DEF produce_wait, produce_return, produce_lock, produce_all_done,
                produce_count
  <2>2. PICK a \in {"produce", "p_lock", "p_store", "p_count"} :
          Goto(t, a, b) /\ (b = "p_post" => a = "p_count")
    BY <2>1
  <2>3. pc[t] = a /\ t \in Threads
    BY <2>2 DEF Goto
  <2>4. t \notin Consumers /\ (b = "p_post" => prog # "mycat2")
    BY <1>0, <2>2, <2>3 DEF PlaceInv
  <2>5. Fits(b)
    BY <2>1, <2>4 DEF Fits
  <2> QED BY <1>1, <2>2, <2>5
<1>3. CASE produce_store(t) \/ produce_post(t)
  BY <1>0, <1>1, <1>3 DEF Fits, PlaceInv, Goto, produce_store, produce_post
<1>4. CASE cat_unlock(t) \/ cat_read(t) \/ cat_eof(t) \/ cat_next(t)
  <2>1. PICK b \in {"p_read", "p_next", "done", "produce"},
             a \in {"p_store", "p_read", "p_next"} : Goto(t, a, b) /\ prog = "mycat2"
    BY <1>0, <1>4 DEF PlaceInv, Goto, cat_unlock, cat_read, cat_eof, cat_next
  <2>2. t \notin Consumers
    BY <1>0, <2>1 DEF PlaceInv, Goto
  <2>3. Fits(b)
    BY <2>1, <2>2 DEF Fits
  <2> QED BY <1>1, <2>1, <2>3
<1>5. CASE cat_consume_unlock(t) \/ cat_stop(t) \/ cat_write(t)
  BY <1>0, <1>1, <1>5 DEF Fits, PlaceInv, Goto, cat_consume_unlock, cat_stop, cat_write
<1>6. CASE \/ consume_wait(t) \/ consume_return(t) \/ consume_lock(t)
           \/ consume_all_done(t)
  BY <1>0, <1>1, <1>6 DEF Fits, PlaceInv, Goto, consume_wait, consume_return,
                          consume_lock, consume_all_done
<1>7. CASE consume_fetch(t) \/ consume_count(t) \/ consume_post(t)
  BY <1>0, <1>1, <1>7 DEF Fits, PlaceInv, Goto, consume_fetch, consume_count, consume_post
<1>8. CASE \/ client_slot(t) \/ client_copy(t) \/ client_full(t)
           \/ client_overflow(t) \/ client_counted(t)
  BY <1>0, <1>1, <1>8 DEF Fits, PlaceInv, Goto, client_slot, client_copy, client_full,
                          client_overflow, client_counted, MessageLog
<1>9. CASE server_overflow(t) \/ server_unlock(t)
  BY <1>0, <1>1, <1>9 DEF Fits, PlaceInv, Goto, server_overflow, server_unlock
<1> QED BY <1>2, <1>3, <1>4, <1>5, <1>6, <1>7, <1>8, <1>9 DEF Step, BufferStep, LogStep

\* No thread starts again.
LEMMA SoloKept ==
  ASSUME TypeOK, SoloInv, NEW t \in Threads, Step(t)
  PROVE  SoloInv'
<1>1. PICK a \in Places, b \in Places : Goto(t, a, b) /\ a # "done"
  BY StepMoves
<1>2. \A u \in Threads : pc'[u] # "done" => pc[u] # "done"
  BY <1>1 DEF TypeOK, Goto
<1>3. prog' = prog /\ Producers \subseteq Threads /\ Consumers \subseteq Threads
  BY StepMoves DEF args, Threads
<1> QED BY <1>2, <1>3 DEF SoloInv, ManyProducers, ManyConsumers, MessageLog

\* A thread enters or leaves the critical region with the mutex, or neither.
LEMMA OnlyOneKept ==
  ASSUME TypeOK, NEW s \in SemNames, NEW W, OnlyOne(s, W),
         NEW t \in Threads, NEW a, NEW b, Goto(t, a, b),
         sem' \in [SemNames -> Nat],
         \/ (a \in W <=> b \in W) /\ sem'[s] = sem[s]
         \/ a \notin W /\ b \in W /\ sem[s] > 0 /\ sem'[s] = sem[s] - 1
         \/ a \in W /\ b \notin W /\ sem'[s] = sem[s] + 1
  PROVE  OnlyOne(s, W)'
<1>1. sem[s] \in Nat /\ pc[t] = a /\ pc'[t] = b
      /\ \A u \in Threads \ {t} : pc'[u] = pc[u]
  BY SemIs DEF TypeOK, Goto
<1>2. CASE (a \in W <=> b \in W) /\ sem'[s] = sem[s]
  BY <1>1, <1>2 DEF OnlyOne
<1>3. CASE a \notin W /\ b \in W /\ sem[s] > 0 /\ sem'[s] = sem[s] - 1
  <2>1. sem'[s] = 0 /\ \A u \in Threads : pc[u] \notin W
    BY <1>1, <1>3 DEF OnlyOne
  <2>2. \A u \in Threads : pc'[u] \in W <=> u = t
    BY <1>1, <1>3, <2>1
  <2> QED BY <2>1, <2>2 DEF OnlyOne
<1>4. CASE a \in W /\ b \notin W /\ sem'[s] = sem[s] + 1
  <2>1. sem[s] = 0 /\ \E v \in Threads : \A u \in Threads : pc[u] \in W <=> u = v
    BY <1>1, <1>4 DEF OnlyOne
  <2>2. \A u \in Threads : pc[u] \in W <=> u = t
    BY <1>1, <1>4, <2>1
  <2> QED BY <1>1, <1>4, <2>1, <2>2 DEF OnlyOne
<1> QED BY <1>2, <1>3, <1>4

\* The mutexes are respected.
LEMMA MutexKept ==
  ASSUME TypeOK, PlaceInv, MutexInv, NEW t \in Threads, Step(t)
  PROVE  MutexInv'
<1> DEFINE M == {"p_store", "p_count", "c_fetch", "c_count"}
           O == {"p_over", "c_temp"}
           Kept(s, W, a, b) ==
             \/ (a \in W <=> b \in W) /\ sem'[s] = sem[s]
             \/ a \notin W /\ b \in W /\ sem[s] > 0 /\ sem'[s] = sem[s] - 1
             \/ a \in W /\ b \notin W /\ sem'[s] = sem[s] + 1
           Both(a, b) == Kept("mutex", M, a, b) /\ Kept("noverflowmutex", O, a, b)
                         /\ sem' \in [SemNames -> Nat]
<1>0. {"mutex", "nempty", "nstored", "noverflowmutex"} = SemNames
  BY DEF SemNames
<1>1. ASSUME NEW a, NEW b, Goto(t, a, b), Both(a, b) PROVE MutexInv'
  <2>1. OnlyOne("mutex", M)' /\ OnlyOne("noverflowmutex", O)'
    BY <1>0, <1>1, OnlyOneKept DEF MutexInv
  <2> QED BY <2>1 DEF MutexInv
<1>2. CASE UNCHANGED sem /\ \E a, b : Goto(t, a, b) /\ (a \in M <=> b \in M)
                                                    /\ (a \in O <=> b \in O)
  BY <1>1, <1>2, SemIs
<1>3. ASSUME NEW s \in SemNames, sem_wait(s), NEW a, NEW b, Goto(t, a, b),
             IF s = "mutex" THEN a \notin M /\ b \in M ELSE (a \in M <=> b \in M),
             IF s = "noverflowmutex" THEN a \notin O /\ b \in O ELSE (a \in O <=> b \in O)
      PROVE  MutexInv'
  <2>1. /\ sem' \in [SemNames -> Nat] /\ sem[s] > 0
        /\ \A r \in SemNames : sem'[r] = IF r = s THEN sem[r] - 1 ELSE sem[r]
    BY <1>3, WaitIs
  <2> HIDE DEF M, O
  <2>2. Both(a, b)
    BY <1>0, <1>3, <2>1
  <2> QED BY <1>1, <1>3, <2>2
<1>4. ASSUME NEW S \in SUBSET SemNames, sem_posts(S), NEW a, NEW b, Goto(t, a, b),
             IF "mutex" \in S THEN a \in M /\ b \notin M ELSE (a \in M <=> b \in M),
             IF "noverflowmutex" \in S THEN a \in O /\ b \notin O ELSE (a \in O <=> b \in O)
      PROVE  MutexInv'
  <2>1. /\ sem' \in [SemNames -> Nat]
        /\ \A r \in SemNames : sem'[r] = IF r \in S THEN sem[r] + 1 ELSE sem[r]
    BY <1>4, PostsIs
  <2> HIDE DEF M, O
  <2>2. Both(a, b)
    BY <1>0, <1>4, <2>1
  <2> QED BY <1>1, <1>4, <2>2
<1>5. CASE produce_wait(t)
  BY <1>0, <1>3, <1>5 DEF produce_wait
<1>6. CASE produce_lock(t)
  BY <1>0, <1>3, <1>6 DEF produce_lock
<1>7. CASE consume_wait(t)
  BY <1>0, <1>3, <1>7 DEF consume_wait
<1>8. CASE consume_lock(t)
  BY <1>0, <1>3, <1>8 DEF consume_lock
<1>9. CASE client_overflow(t)
  BY <1>0, <1>3, <1>9 DEF client_overflow
<1>10. CASE server_overflow(t)
  BY <1>0, <1>3, <1>10 DEF server_overflow
<1>11. CASE produce_all_done(t)
  <2>1. GivenBack \in SUBSET SemNames /\ "mutex" \in GivenBack
        /\ "noverflowmutex" \notin GivenBack
    BY DEF GivenBack, SemNames
  <2> QED BY <1>4, <1>11, <2>1 DEF produce_all_done
<1>12. CASE produce_count(t)
  BY <1>0, <1>4, <1>12 DEF produce_count
<1>13. CASE produce_post(t)
  BY <1>0, <1>4, <1>13 DEF produce_post
<1>14. CASE client_counted(t)
  BY <1>0, <1>4, <1>14 DEF client_counted
<1>15. CASE cat_unlock(t)
  BY <1>0, <1>4, <1>15 DEF cat_unlock
<1>16. CASE cat_eof(t)
  BY <1>0, <1>4, <1>16 DEF cat_eof
<1>17. CASE cat_next(t)
  BY <1>0, <1>4, <1>17 DEF cat_next
<1>18. CASE consume_all_done(t)
  BY <1>0, <1>4, <1>18 DEF consume_all_done, PassedOn
<1>19. CASE consume_count(t)
  BY <1>0, <1>4, <1>19 DEF consume_count
<1>20. CASE consume_post(t)
  BY <1>0, <1>4, <1>20 DEF consume_post
<1>21. CASE cat_consume_unlock(t)
  BY <1>0, <1>4, <1>21 DEF cat_consume_unlock
<1>22. CASE server_unlock(t)
  BY <1>0, <1>4, <1>22 DEF server_unlock
<1>23. CASE produce_return(t) \/ produce_store(t) \/ client_slot(t) \/ client_copy(t)
  BY <1>2, <1>23 DEF produce_return, produce_store, client_slot, client_copy
<1>24. CASE client_full(t) \/ cat_read(t) \/ consume_return(t) \/ consume_fetch(t)
  BY <1>2, <1>24 DEF client_full, cat_read, consume_return, consume_fetch
<1>25. CASE cat_stop(t) \/ cat_write(t)
  BY <1>2, <1>25 DEF cat_stop, cat_write
<1> QED BY <1>5, <1>6, <1>7, <1>8, <1>9, <1>10, <1>11, <1>12, <1>13, <1>14, <1>15, <1>16,
           <1>17, <1>18, <1>19, <1>20, <1>21, <1>22, <1>23, <1>24, <1>25
        DEF Step, BufferStep, LogStep

\* Producers and consumers have places of their own.
LEMMA KindIs ==
  ASSUME PlaceInv, NEW t \in Threads, NEW a, NEW b, Goto(t, a, b)
  PROVE  /\ a \in ProducerPlaces \ {"done"} => t \in Producers
         /\ a \in ConsumerPlaces \ {"done"} => t \in Consumers
  BY DEF PlaceInv, Threads, ProducerPlaces, ConsumerPlaces, Goto

\* By how much a step changes the counts, for each kind of step.
Flow(fill, post, done, fetch, free) ==
  /\ Filling' = Filling + fill /\ Posting' = Posting + post
  /\ At(Producers, {"done"})' = At(Producers, {"done"}) + done
  /\ Fetching' = Fetching + fetch /\ Freeing' = Freeing + free

\* The counts are natural numbers.
LEMMA FlowTypes ==
  /\ Filling \in Nat /\ Posting \in Nat /\ Fetching \in Nat /\ Freeing \in Nat
  /\ At(Producers, {"done"}) \in 0..Cardinality(Threads)
<1>1. \A W : /\ At(Producers, W) \in Nat /\ At(Consumers, W) \in Nat
             /\ At(Producers, W) <= Cardinality(Threads)
  <2> SUFFICES ASSUME NEW W
               PROVE  /\ At(Producers, W) \in Nat /\ At(Consumers, W) \in Nat
                      /\ At(Producers, W) <= Cardinality(Threads)
    OBVIOUS
  <2>1. Producers \in SUBSET Threads /\ Consumers \in SUBSET Threads
    BY DEF Threads
  <2> QED BY <2>1, AtSome, Zenon
<1>2. Cardinality(Threads) \in Nat
  BY ProdConsAssumption, FS_Union, FS_CardinalityType DEF Threads
<1> QED BY <1>1, <1>2 DEF Filling, Posting, Fetching, Freeing

\* What each operation of a producer does to the counts.
LEMMA ProducerFlows ==
  ASSUME TypeOK, PlaceInv, NEW t \in Threads
  PROVE
    /\ produce_wait(t) => t \in Producers /\ Flow(1, 0, 0, 0, 0)
    /\ produce_return(t) => t \in Producers /\ Flow(0, 0, 1, 0, 0)
    /\ produce_lock(t) => t \in Producers /\ Flow(0, 0, 0, 0, 0)
    /\ produce_all_done(t) => t \in Producers /\ Flow(-1, 0, 1, 0, 0)
    /\ produce_store(t) => t \in Producers /\ Flow(0, 0, 0, 0, 0)
    /\ produce_count(t) => t \in Producers /\ Flow(-1, 1, 0, 0, 0)
    /\ produce_post(t) => t \in Producers /\ Flow(0, -1, 0, 0, 0)
    /\ client_slot(t) => t \in Producers /\ Flow(0, 0, 0, 0, 0)
    /\ client_copy(t) => t \in Producers /\ Flow(0, 0, 0, 0, 0)
    /\ client_full(t) => t \in Producers /\ Flow(0, 0, 0, 0, 0)
    /\ client_overflow(t) => t \in Producers /\ Flow(0, 0, 0, 0, 0)
    /\ client_counted(t) => t \in Producers /\ Flow(0, 0, 0, 0, 0)
    /\ cat_unlock(t) => t \in Producers /\ Flow(0, 0, 0, 0, 0)
    /\ cat_read(t) => t \in Producers /\ Flow(0, 0, 0, 0, 0)
    /\ cat_eof(t) => t \in Producers /\ Flow(-1, 0, 1, 0, 0)
    /\ cat_next(t) => t \in Producers /\ Flow(-1, 0, 0, 0, 0)
<1> USE DEF Delta, Flow, ProducerPlaces, ConsumerPlaces
<1>1. produce_wait(t) => t \in Producers /\ Flow(1, 0, 0, 0, 0)
  BY KindIs, FlowTypes, ProducerFlow DEF produce_wait
<1>2. produce_return(t) => t \in Producers /\ Flow(0, 0, 1, 0, 0)
  BY KindIs, FlowTypes, ProducerFlow DEF produce_return
<1>3. produce_lock(t) => t \in Producers /\ Flow(0, 0, 0, 0, 0)
  BY KindIs, FlowTypes, ProducerFlow DEF produce_lock
<1>4. produce_all_done(t) => t \in Producers /\ Flow(-1, 0, 1, 0, 0)
  BY KindIs, FlowTypes, ProducerFlow DEF produce_all_done
<1>5. produce_store(t) => t \in Producers /\ Flow(0, 0, 0, 0, 0)
  BY KindIs, FlowTypes, ProducerFlow DEF produce_store
<1>6. produce_count(t) => t \in Producers /\ Flow(-1, 1, 0, 0, 0)
  BY KindIs, FlowTypes, ProducerFlow DEF produce_count
<1>7. produce_post(t) => t \in Producers /\ Flow(0, -1, 0, 0, 0)
  BY KindIs, FlowTypes, ProducerFlow DEF produce_post
<1>8. client_slot(t) => t \in Producers /\ Flow(0, 0, 0, 0, 0)
  BY KindIs, FlowTypes, ProducerFlow DEF client_slot
<1>9. client_copy(t) => t \in Producers /\ Flow(0, 0, 0, 0, 0)
  BY KindIs, FlowTypes, ProducerFlow DEF client_copy
<1>10. client_full(t) => t \in Producers /\ Flow(0, 0, 0, 0, 0)
  BY KindIs, FlowTypes, ProducerFlow DEF client_full
<1>11. client_overflow(t) => t \in Producers /\ Flow(0, 0, 0, 0, 0)
  BY KindIs, FlowTypes, ProducerFlow DEF client_overflow
<1>12. client_counted(t) => t \in Producers /\ Flow(0, 0, 0, 0, 0)
  BY KindIs, FlowTypes, ProducerFlow DEF client_counted
<1>13. cat_unlock(t) => t \in Producers /\ Flow(0, 0, 0, 0, 0)
  BY KindIs, FlowTypes, ProducerFlow DEF cat_unlock
<1>14. cat_read(t) => t \in Producers /\ Flow(0, 0, 0, 0, 0)
  BY KindIs, FlowTypes, ProducerFlow DEF cat_read
<1>15. cat_eof(t) => t \in Producers /\ Flow(-1, 0, 1, 0, 0)
  BY KindIs, FlowTypes, ProducerFlow DEF cat_eof
<1>16. cat_next(t) => t \in Producers /\ Flow(-1, 0, 0, 0, 0)
  BY KindIs, FlowTypes, ProducerFlow DEF cat_next
<1> QED BY <1>1, <1>2, <1>3, <1>4, <1>5, <1>6, <1>7, <1>8, <1>9, <1>10, <1>11, <1>12,
           <1>13, <1>14, <1>15, <1>16

\* What each operation of a consumer does to the counts.
LEMMA ConsumerFlows ==
  ASSUME TypeOK, PlaceInv, NEW t \in Threads
  PROVE
    /\ consume_wait(t) => t \in Consumers /\ Flow(0, 0, 0, 1, 0)
    /\ consume_return(t) => t \in Consumers /\ Flow(0, 0, 0, 0, 0)
    /\ consume_lock(t) => t \in Consumers /\ Flow(0, 0, 0, 0, 0)
    /\ consume_all_done(t) => t \in Consumers /\ Flow(0, 0, 0, -1, 0)
    /\ consume_fetch(t) => t \in Consumers /\ Flow(0, 0, 0, 0, 0)
    /\ consume_count(t) => t \in Consumers /\ Flow(0, 0, 0, -1, 1)
    /\ consume_post(t) => t \in Consumers /\ Flow(0, 0, 0, 0, -1)
    /\ cat_consume_unlock(t) => t \in Consumers /\ Flow(0, 0, 0, 0, 0)
    /\ cat_stop(t) => t \in Consumers /\ Flow(0, 0, 0, -1, 0)
    /\ cat_write(t) => t \in Consumers /\ Flow(0, 0, 0, -1, 1)
    /\ server_overflow(t) => t \in Consumers /\ Flow(0, 0, 0, 0, 0)
    /\ server_unlock(t) => t \in Consumers /\ Flow(0, 0, 0, 0, 0)
<1> USE DEF Delta, Flow, ProducerPlaces, ConsumerPlaces
<1>1. consume_wait(t) => t \in Consumers /\ Flow(0, 0, 0, 1, 0)
  BY KindIs, FlowTypes, ConsumerFlow DEF consume_wait
<1>2. consume_return(t) => t \in Consumers /\ Flow(0, 0, 0, 0, 0)
  BY KindIs, FlowTypes, ConsumerFlow DEF consume_return
<1>3. consume_lock(t) => t \in Consumers /\ Flow(0, 0, 0, 0, 0)
  BY KindIs, FlowTypes, ConsumerFlow DEF consume_lock
<1>4. consume_all_done(t) => t \in Consumers /\ Flow(0, 0, 0, -1, 0)
  BY KindIs, FlowTypes, ConsumerFlow DEF consume_all_done
<1>5. consume_fetch(t) => t \in Consumers /\ Flow(0, 0, 0, 0, 0)
  BY KindIs, FlowTypes, ConsumerFlow DEF consume_fetch
<1>6. consume_count(t) => t \in Consumers /\ Flow(0, 0, 0, -1, 1)
  BY KindIs, FlowTypes, ConsumerFlow DEF consume_count
<1>7. consume_post(t) => t \in Consumers /\ Flow(0, 0, 0, 0, -1)
  BY KindIs, FlowTypes, ConsumerFlow DEF consume_post
<1>8. cat_consume_unlock(t) => t \in Consumers /\ Flow(0, 0, 0, 0, 0)
  BY KindIs, FlowTypes, ConsumerFlow DEF cat_consume_unlock
<1>9. cat_stop(t) => t \in Consumers /\ Flow(0, 0, 0, -1, 0)
  BY KindIs, FlowTypes, ConsumerFlow DEF cat_stop
<1>10. cat_write(t) => t \in Consumers /\ Flow(0, 0, 0, -1, 1)
  BY KindIs, FlowTypes, ConsumerFlow DEF cat_write
<1>11. server_overflow(t) => t \in Consumers /\ Flow(0, 0, 0, 0, 0)
  BY KindIs, FlowTypes, ConsumerFlow DEF server_overflow
<1>12. server_unlock(t) => t \in Consumers /\ Flow(0, 0, 0, 0, 0)
  BY KindIs, FlowTypes, ConsumerFlow DEF server_unlock
<1> QED BY <1>1, <1>2, <1>3, <1>4, <1>5, <1>6, <1>7, <1>8, <1>9, <1>10, <1>11, <1>12

\* What each operation does to the semaphores.
SemFlow(empty, stored) ==
  /\ sem' \in [SemNames -> Nat]
  /\ sem'["nempty"] = sem["nempty"] + empty
  /\ sem'["nstored"] = sem["nstored"] + stored

\* The semaphores that each operation waits for or posts.
LEMMA SemFlows ==
  ASSUME TypeOK, NEW t
  PROVE
    /\ produce_wait(t) => SemFlow(-1, 0)
    /\ produce_lock(t) => SemFlow(0, 0)
    /\ consume_wait(t) => SemFlow(0, -1)
    /\ consume_lock(t) => SemFlow(0, 0)
    /\ client_overflow(t) => SemFlow(0, 0)
    /\ server_overflow(t) => SemFlow(0, 0)
    /\ produce_all_done(t) => SemFlow(1, IF ManyConsumers THEN 1 ELSE 0)
    /\ produce_count(t) => SemFlow(0, 0)
    /\ produce_post(t) => SemFlow(0, 1)
    /\ client_counted(t) => SemFlow(0, 0)
    /\ cat_unlock(t) => SemFlow(0, 0)
    /\ cat_eof(t) => SemFlow(0, 1)
    /\ cat_next(t) => SemFlow(0, 1)
    /\ consume_all_done(t) => SemFlow(0, 1)
    /\ consume_count(t) => SemFlow(0, 0)
    /\ consume_post(t) => SemFlow(1, 0)
    /\ cat_consume_unlock(t) => SemFlow(0, 0)
    /\ server_unlock(t) => SemFlow(0, 0)
    /\ produce_return(t) => SemFlow(0, 0)
    /\ produce_store(t) => SemFlow(0, 0)
    /\ client_slot(t) => SemFlow(0, 0)
    /\ client_copy(t) => SemFlow(0, 0)
    /\ client_full(t) => SemFlow(0, 0)
    /\ cat_read(t) => SemFlow(0, 0)
    /\ consume_return(t) => SemFlow(0, 0)
    /\ consume_fetch(t) => SemFlow(0, 0)
    /\ cat_stop(t) => SemFlow(0, 0)
    /\ cat_write(t) => SemFlow(0, 0)
<1>0. sem \in [SemNames -> Nat]
      /\ {"mutex", "nempty", "nstored", "noverflowmutex"} = SemNames
  BY SemIs DEF SemNames
<1>1. produce_wait(t) => SemFlow(-1, 0)
  BY <1>0, WaitIs DEF SemFlow, produce_wait
<1>2. produce_lock(t) => SemFlow(0, 0)
  BY <1>0, WaitIs DEF SemFlow, produce_lock
<1>3. consume_wait(t) => SemFlow(0, -1)
  BY <1>0, WaitIs DEF SemFlow, consume_wait
<1>4. consume_lock(t) => SemFlow(0, 0)
  BY <1>0, WaitIs DEF SemFlow, consume_lock
<1>5. client_overflow(t) => SemFlow(0, 0)
  BY <1>0, WaitIs DEF SemFlow, client_overflow
<1>6. server_overflow(t) => SemFlow(0, 0)
  BY <1>0, WaitIs DEF SemFlow, server_overflow
<1>7. produce_all_done(t) => SemFlow(1, IF ManyConsumers THEN 1 ELSE 0)
  BY <1>0, PostsIs DEF SemFlow, produce_all_done, GivenBack
<1>8. produce_count(t) => SemFlow(0, 0)
  BY <1>0, PostsIs DEF SemFlow, produce_count
<1>9. produce_post(t) => SemFlow(0, 1)
  BY <1>0, PostsIs DEF SemFlow, produce_post
<1>10. client_counted(t) => SemFlow(0, 0)
  BY <1>0, PostsIs DEF SemFlow, client_counted
<1>11. cat_unlock(t) => SemFlow(0, 0)
  BY <1>0, PostsIs DEF SemFlow, cat_unlock
<1>12. cat_eof(t) => SemFlow(0, 1)
  BY <1>0, PostsIs DEF SemFlow, cat_eof
<1>13. cat_next(t) => SemFlow(0, 1)
  BY <1>0, PostsIs DEF SemFlow, cat_next
<1>14. consume_all_done(t) => SemFlow(0, 1)
  BY <1>0, PostsIs DEF SemFlow, consume_all_done, PassedOn
<1>15. consume_count(t) => SemFlow(0, 0)
  BY <1>0, PostsIs DEF SemFlow, consume_count
<1>16. consume_post(t) => SemFlow(1, 0)
  BY <1>0, PostsIs DEF SemFlow, consume_post
<1>17. cat_consume_unlock(t) => SemFlow(0, 0)
  BY <1>0, PostsIs DEF SemFlow, cat_consume_unlock
<1>18. server_unlock(t) => SemFlow(0, 0)
  BY <1>0, PostsIs DEF SemFlow, server_unlock
<1>19. produce_return(t) => SemFlow(0, 0)
  BY <1>0 DEF SemFlow, produce_return
<1>20. produce_store(t) => SemFlow(0, 0)
  BY <1>0 DEF SemFlow, produce_store
<1>21. client_slot(t) => SemFlow(0, 0)
  BY <1>0 DEF SemFlow, client_slot
<1>22. client_copy(t) => SemFlow(0, 0)
  BY <1>0 DEF SemFlow, client_copy
<1>23. client_full(t) => SemFlow(0, 0)
  BY <1>0 DEF SemFlow, client_full
<1>24. cat_read(t) => SemFlow(0, 0)
  BY <1>0 DEF SemFlow, cat_read
<1>25. consume_return(t) => SemFlow(0, 0)
  BY <1>0 DEF SemFlow, consume_return
<1>26. consume_fetch(t) => SemFlow(0, 0)
  BY <1>0 DEF SemFlow, consume_fetch
<1>27. cat_stop(t) => SemFlow(0, 0)
  BY <1>0 DEF SemFlow, cat_stop
<1>28. cat_write(t) => SemFlow(0, 0)
  BY <1>0 DEF SemFlow, cat_write
<1> QED BY <1>1, <1>2, <1>3, <1>4, <1>5, <1>6, <1>7, <1>8, <1>9, <1>10, <1>11, <1>12,
           <1>13, <1>14, <1>15, <1>16, <1>17, <1>18, <1>19, <1>20, <1>21, <1>22, <1>23,
           <1>24, <1>25, <1>26, <1>27, <1>28

\* A consumer fetches only what has been put.
LEMMA CanFetch ==
  ASSUME IInv, NEW t \in Consumers,
         \/ pc[t] = "c_count"
         \/ pc[t] = "c_fetch" /\ prog # "mycat2" /\ ~(ManyConsumers /\ nget >= nitems)
         \/ pc[t] = "c_write" /\ buff[nget % NBUFF] # EndOfFile
  PROVE  nget < nput
<1>1. /\ nget \in Nat /\ nput \in Nat /\ sem["nstored"] \in Nat /\ nget <= nput
      /\ nitems \in Nat
  BY SemIs, ProdConsAssumption DEF IInv, TypeOK, SemNames, PlacesInv
<1>2. Fetching \in Nat /\ Fetching >= 1 /\ Posting \in Nat
  <2>1. Consumers \in SUBSET Threads
    BY DEF Threads
  <2>2. pc[t] \in {"c_lock", "c_fetch", "c_count", "c_write"}
    OBVIOUS
  <2> QED BY <2>1, <2>2, AtSome, FlowTypes DEF Fetching
<1> DEFINE items == nget + sem["nstored"] + Fetching + Posting
<1>3. items >= nget + 1 /\ items \in Nat
  BY <1>1, <1>2
<1> HIDE DEF items
<1>4. CASE ManyConsumers
  <2>1. nget < nitems
    <3>1. pc[t] = "c_write" => prog = "mycat2"
      BY DEF IInv, PlaceInv, Threads
    <3> QED BY <1>1, <1>4, <3>1 DEF IInv, TokensInv, ManyConsumers
  <2>2. CASE nput < nitems
    <3>1. items <= nput
      BY <1>4, <2>2 DEF IInv, TokensInv, items
    <3> QED BY <1>1, <1>3, <3>1
  <2> QED BY <1>1, <2>1, <2>2
<1>5. CASE ~ManyConsumers
  <2>1. items <= nput + (IF Ended THEN 1 ELSE 0)
    BY <1>5 DEF IInv, TokensInv, items
  <2>2. CASE Ended
    <3>1. buff[nput % NBUFF] = EndOfFile /\ pc[t] = "c_write"
      BY <2>2 DEF IInv, ReadInv, Slot, Ended, PlaceInv, Threads
    <3>2. nget # nput
      BY <3>1
    <3> QED BY <1>1, <3>2
  <2> QED BY <1>1, <1>3, <2>1, <2>2
<1> QED BY <1>4, <1>5

\* How nget and nput move, for each kind of step.
Moves(get, put) == nget' = nget + get /\ nput' = nput + put

\* The operations that move neither.
LEMMA StaysPut ==
  ASSUME TypeOK, NEW t, Step(t),
         ~produce_count(t), ~cat_next(t), ~consume_count(t), ~cat_write(t)
  PROVE  Moves(0, 0)
<1>0. nget \in Nat /\ nput \in Nat
  BY ProdConsAssumption DEF TypeOK
<1> USE DEF Moves, puts, gets
<1>1. CASE \/ produce_wait(t) \/ produce_return(t) \/ produce_lock(t)
           \/ produce_all_done(t) \/ produce_store(t) \/ produce_post(t)
  BY <1>0, <1>1 DEF produce_wait, produce_return, produce_lock, produce_all_done,
                    produce_store, produce_post
<1>2. CASE cat_unlock(t) \/ cat_read(t) \/ cat_eof(t) \/ cat_consume_unlock(t) \/ cat_stop(t)
  BY <1>0, <1>2 DEF cat_unlock, cat_read, cat_eof, cat_consume_unlock, cat_stop
<1>3. CASE \/ consume_wait(t) \/ consume_return(t) \/ consume_lock(t)
           \/ consume_all_done(t) \/ consume_fetch(t) \/ consume_post(t)
  BY <1>0, <1>3 DEF consume_wait, consume_return, consume_lock, consume_all_done,
                    consume_fetch, consume_post
<1>4. CASE LogStep(t)
  BY <1>0, <1>4 DEF LogStep, client_slot, client_copy, client_full, client_overflow,
                    client_counted, server_overflow, server_unlock
<1> QED BY <1>1, <1>2, <1>3, <1>4 DEF Step, BufferStep

\* The places of the buffer.
LEMMA PlacesKept ==
  ASSUME IInv, NEW t \in Threads, Step(t)
  PROVE  PlacesInv'
<1>0. TypeOK /\ PlaceInv /\ sem \in [SemNames -> Nat]
      /\ "nempty" \in SemNames /\ "nstored" \in SemNames
  BY SemIs DEF IInv, SemNames
<1>1. /\ nget \in Nat /\ nput \in Nat /\ NBUFF \in Nat
      /\ nget <= nput /\ sem["nempty"] + Filling + (nput - nget) + Freeing <= NBUFF
      /\ sem["nempty"] \in Nat
  BY <1>0, ProdConsAssumption DEF IInv, TypeOK, PlacesInv
<1>2. ASSUME NEW fill \in Int, NEW free \in Int, NEW post, NEW done, NEW fetch,
             NEW empty \in Int, NEW stored, NEW get \in Int, NEW put \in Int,
             Flow(fill, post, done, fetch, free), SemFlow(empty, stored), Moves(get, put),
             empty + fill + put - get + free <= 0, nget' <= nput'
      PROVE  PlacesInv'
  <2>1. sem'["nempty"] + Filling' + (nput' - nget') + Freeing' <= NBUFF
    BY <1>1, <1>2, FlowTypes DEF Flow, SemFlow, Moves
  <2> QED BY <1>2, <2>1 DEF PlacesInv
<1>3. CASE produce_count(t) \/ cat_next(t)
  <2>1. Moves(0, 1)
    BY <1>1, <1>3 DEF Moves, produce_count, cat_next, gets
  <2>2. nget' <= nput'
    BY <1>1, <2>1 DEF Moves
  <2>3. CASE produce_count(t)
    BY <1>0, <1>2, <2>1, <2>2, <2>3, ProducerFlows, SemFlows
  <2>4. CASE cat_next(t)
    BY <1>0, <1>2, <2>1, <2>2, <2>4, ProducerFlows, SemFlows
  <2> QED BY <1>3, <2>3, <2>4
<1>4. CASE consume_count(t) \/ cat_write(t)
  <2>1. Moves(1, 0)
    BY <1>1, <1>4 DEF Moves, consume_count, cat_write, puts
  <2>2. t \in Consumers
    BY <1>0, <1>4, ConsumerFlows
  <2>3. nget' <= nput'
    BY <1>1, <1>4, <2>1, <2>2, CanFetch DEF Moves, consume_count, cat_write, Goto
  <2>4. CASE consume_count(t)
    BY <1>0, <1>2, <2>1, <2>3, <2>4, ConsumerFlows, SemFlows
  <2>5. CASE cat_write(t)
    BY <1>0, <1>2, <2>1, <2>3, <2>5, ConsumerFlows, SemFlows
  <2> QED BY <1>4, <2>4, <2>5
<1>5. CASE ~produce_count(t) /\ ~cat_next(t) /\ ~consume_count(t) /\ ~cat_write(t)
  <2>1. Moves(0, 0)
    BY <1>0, <1>5, StaysPut
  <2>2. nget' <= nput'
    BY <1>1, <2>1 DEF Moves
  <2>3. CASE produce_wait(t) \/ produce_return(t) \/ produce_lock(t)
    BY <1>0, <1>2, <2>1, <2>2, <2>3, ProducerFlows, SemFlows
  <2>4. CASE produce_all_done(t)
    BY <1>0, <1>2, <2>1, <2>2, <2>4, ProducerFlows, SemFlows
  <2>5. CASE produce_store(t) \/ produce_post(t) \/ cat_unlock(t) \/ cat_read(t) \/ cat_eof(t)
    BY <1>0, <1>2, <2>1, <2>2, <2>5, ProducerFlows, SemFlows
  <2>6. CASE \/ client_slot(t) \/ client_copy(t) \/ client_full(t)
             \/ client_overflow(t) \/ client_counted(t)
    BY <1>0, <1>2, <2>1, <2>2, <2>6, ProducerFlows, SemFlows
  <2>7. CASE \/ consume_wait(t) \/ consume_return(t) \/ consume_lock(t)
             \/ consume_all_done(t) \/ consume_fetch(t) \/ consume_post(t)
    BY <1>0, <1>2, <2>1, <2>2, <2>7, ConsumerFlows, SemFlows
  <2>8. CASE \/ cat_consume_unlock(t) \/ cat_stop(t) \/ server_overflow(t)
             \/ server_unlock(t)
    BY <1>0, <1>2, <2>1, <2>2, <2>8, ConsumerFlows, SemFlows
  <2> QED BY <1>5, <2>3, <2>4, <2>5, <2>6, <2>7, <2>8 DEF Step, BufferStep, LogStep
<1> QED BY <1>3, <1>4, <1>5

\* Once all producers have returned, they have.
LEMMA DoneStays ==
  ASSUME TypeOK, NEW t \in Threads, Step(t)
  PROVE  /\ \A u \in Threads : pc[u] = "done" => pc'[u] = "done"
         /\ Ended => Ended'
<1>1. PICK a \in Places, b \in Places : Goto(t, a, b) /\ a # "done"
  BY StepMoves
<1>2. prog' = prog
  BY StepMoves DEF args
<1> QED BY <1>1, <1>2 DEF Ended, Goto, TypeOK, Threads

\* The items on their way.
LEMMA TokensKept ==
  ASSUME IInv, NEW t \in Threads, Step(t)
  PROVE  TokensInv'
<1>0. TypeOK /\ PlaceInv /\ sem \in [SemNames -> Nat]
      /\ "nempty" \in SemNames /\ "nstored" \in SemNames
      /\ prog' = prog /\ nitems' = nitems
  BY SemIs, StepMoves DEF IInv, SemNames, args
<1> DEFINE items == nget + sem["nstored"] + Fetching + Posting
           D == At(Producers, {"done"})
           Late == \E u \in Consumers : pc[u] = "c_count"
<1>1. /\ nget \in Nat /\ nput \in Nat /\ nitems \in Nat /\ items \in Nat
      /\ items <= nput + (IF ManyConsumers THEN D ELSE IF Ended THEN 1 ELSE 0)
      /\ ManyConsumers /\ nput < nitems => items <= nput
      /\ ManyConsumers /\ Late => nget < nitems
      /\ D \in Nat /\ sem["nstored"] \in Nat
  BY <1>0, ProdConsAssumption, FlowTypes, SMTT(20) DEF IInv, TypeOK, TokensInv
<1>2. ManyConsumers' = ManyConsumers /\ (Ended => Ended')
  BY <1>0, DoneStays DEF ManyConsumers
<1>3. ASSUME NEW fill, NEW free, NEW post \in Int, NEW done \in Int, NEW fetch \in Int,
             NEW empty, NEW stored \in Int, NEW get \in Int, NEW put \in Int,
             Flow(fill, post, done, fetch, free), SemFlow(empty, stored), Moves(get, put),
             get + stored + fetch + post <= put, done >= 0, put >= 0,
             Late' => Late, get = 0 \/ ~Late' \/ ~ManyConsumers
      PROVE  TokensInv'
  <2>1. /\ items' = items + (get + stored + fetch + post)
        /\ D' = D + done /\ nput' = nput + put /\ nget' = nget + get
    BY <1>1, <1>3, FlowTypes DEF Flow, SemFlow, Moves
  <2>2. nput' < nitems => nput < nitems
    BY <1>1, <1>3, <2>1
  <2> HIDE DEF items, D, Late
  <2>3. items' <= nput' + (IF ManyConsumers THEN D' ELSE IF Ended' THEN 1 ELSE 0)
    BY <1>1, <1>2, <1>3, <2>1
  <2>4. ManyConsumers /\ nput' < nitems => items' <= nput'
    BY <1>1, <1>3, <2>1, <2>2
  <2>5. ManyConsumers /\ Late' => nget' < nitems
    BY <1>1, <1>3, <2>1
  <2> USE DEF items, D, Late
  <2> QED BY <1>0, <1>2, <2>3, <2>4, <2>5 DEF TokensInv
<1> HIDE DEF items, D
<1>4. ASSUME NEW a, NEW b, Goto(t, a, b), b # "c_count" PROVE Late' => Late
  BY <1>0, <1>4 DEF Goto, TypeOK, Threads
<1> HIDE DEF Late
<1>5. CASE produce_count(t) \/ cat_next(t)
  <2>1. Moves(0, 1)
    BY <1>1, <1>5 DEF Moves, produce_count, cat_next, gets
  <2>2. Late' => Late
    BY <1>4, <1>5 DEF produce_count, cat_next
  <2>3. CASE produce_count(t)
    BY <1>0, <1>3, <2>1, <2>2, <2>3, ProducerFlows, SemFlows
  <2>4. CASE cat_next(t)
    BY <1>0, <1>3, <2>1, <2>2, <2>4, ProducerFlows, SemFlows
  <2> QED BY <1>5, <2>3, <2>4
<1>6. CASE consume_count(t) \/ cat_write(t)
  <2>1. Moves(1, 0)
    BY <1>1, <1>6 DEF Moves, consume_count, cat_write, puts
  <2>2. Late' => Late
    BY <1>4, <1>6 DEF consume_count, cat_write
  <2>3. ~Late' \/ ~ManyConsumers
    <3>1. CASE consume_count(t)
      <4>1. \A u \in Threads : pc[u] = "c_count" => u = t
        <5>1. pc[t] = "c_count"
          BY <3>1 DEF consume_count, Goto
        <5> QED BY <5>1 DEF IInv, MutexInv, OnlyOne
      <4>2. pc'[t] # "c_count" /\ \A u \in Threads \ {t} : pc'[u] = pc[u]
        BY <1>0, <3>1 DEF consume_count, Goto, TypeOK
      <4> QED BY <4>1, <4>2 DEF Late, Threads
    <3>2. CASE cat_write(t)
      BY <1>0, <3>2 DEF cat_write, Goto, PlaceInv, ManyConsumers
    <3> QED BY <1>6, <3>1, <3>2
  <2>4. CASE consume_count(t)
    BY <1>0, <1>3, <2>1, <2>2, <2>3, <2>4, ConsumerFlows, SemFlows
  <2>5. CASE cat_write(t)
    BY <1>0, <1>3, <2>1, <2>2, <2>3, <2>5, ConsumerFlows, SemFlows
  <2> QED BY <1>6, <2>4, <2>5
<1>7. CASE ~produce_count(t) /\ ~cat_next(t) /\ ~consume_count(t) /\ ~cat_write(t)
  <2>1. Moves(0, 0)
    BY <1>0, <1>7, StaysPut
  <2>2. CASE produce_all_done(t)
    <3>1. /\ nput >= nitems /\ prog # "mycat2" /\ UNCHANGED <<nget, nput>>
      BY <1>4, <2>2 DEF produce_all_done, AllPut, ManyProducers, puts, gets
    <3>2. Late' => Late
      BY <1>4, <2>2 DEF produce_all_done
    <3>3. SemFlow(1, IF ManyConsumers THEN 1 ELSE 0) /\ Flow(-1, 0, 1, 0, 0)
      BY <1>0, <2>2, SemFlows, ProducerFlows
    <3>4. /\ items' = items + (IF ManyConsumers THEN 1 ELSE 0)
          /\ D' = D + 1
      BY <1>1, <3>1, <3>3, FlowTypes DEF SemFlow, Flow, items, D
    <3>5. items' <= nput' + (IF ManyConsumers THEN D' ELSE IF Ended' THEN 1 ELSE 0)
      BY <1>1, <1>2, <3>1, <3>4
    <3>6. ~(nput' < nitems) /\ (ManyConsumers /\ Late' => nget' < nitems)
      BY <1>1, <2>2, <3>1, <3>2 DEF produce_all_done, AllPut
    <3> QED BY <1>0, <1>2, <3>5, <3>6 DEF TokensInv, items, D, Late
  <2>3. CASE cat_eof(t)
    <3>1. Late' => Late
      BY <1>4, <2>3 DEF cat_eof
    <3>2. /\ SemFlow(0, 1) /\ Flow(-1, 0, 1, 0, 0) /\ t \in Producers
          /\ UNCHANGED <<nget, nput>> /\ pc[t] = "p_next" /\ pc'[t] = "done"
      BY <1>0, <2>3, SemFlows, ProducerFlows DEF cat_eof, puts, gets, Goto, TypeOK
    <3>3. prog = "mycat2" /\ ~Ended
      BY <3>2 DEF IInv, PlaceInv, Ended
    <3>4. Ended'
      <4>1. \A u \in Producers \ {t} : pc[u] = "done"
        BY <3>2, <3>3 DEF IInv, SoloInv, ManyProducers, MessageLog
      <4> QED BY <1>0, <3>2, <3>3, <4>1, DoneStays DEF Ended, Threads
    <3>5. items' = items + 1
      BY <1>1, <3>2, FlowTypes DEF SemFlow, Flow, items
    <3>6. ~ManyConsumers
      BY <3>3 DEF ManyConsumers
    <3> QED BY <1>0, <1>1, <1>2, <3>2, <3>3, <3>4, <3>5, <3>6 DEF TokensInv, items, D, Late
  <2>4. CASE consume_fetch(t)
    <3>1. Flow(0, 0, 0, 0, 0) /\ SemFlow(0, 0) /\ UNCHANGED <<nget, nput>>
      BY <1>0, <2>4, ConsumerFlows, SemFlows DEF consume_fetch, puts
    <3>2. items' = items /\ D' = D
      BY <1>1, <3>1, FlowTypes DEF SemFlow, Flow, items, D
    <3>3. ManyConsumers => nget < nitems
      BY <1>1, <2>4 DEF consume_fetch
    <3> QED BY <1>0, <1>1, <1>2, <3>1, <3>2, <3>3 DEF TokensInv, items, D, Late
  <2>5. CASE produce_wait(t) \/ produce_return(t) \/ produce_lock(t)
    <3>1. Late' => Late
      BY <1>4, <2>5 DEF produce_wait, produce_return, produce_lock
    <3>2. CASE produce_wait(t)
      BY <1>0, <1>3, <2>1, <3>1, <3>2, ProducerFlows, SemFlows
    <3>3. CASE produce_return(t)
      BY <1>0, <1>3, <2>1, <3>1, <3>3, ProducerFlows, SemFlows
    <3>4. CASE produce_lock(t)
      BY <1>0, <1>3, <2>1, <3>1, <3>4, ProducerFlows, SemFlows
    <3> QED BY <2>5, <3>2, <3>3, <3>4
  <2>6. CASE produce_store(t) \/ produce_post(t) \/ cat_unlock(t) \/ cat_read(t)
    <3>1. Late' => Late
      BY <1>4, <2>6 DEF produce_store, produce_post, cat_unlock, cat_read
    <3>2. CASE produce_store(t)
      BY <1>0, <1>3, <2>1, <3>1, <3>2, ProducerFlows, SemFlows
    <3>3. CASE produce_post(t)
      BY <1>0, <1>3, <2>1, <3>1, <3>3, ProducerFlows, SemFlows
    <3>4. CASE cat_unlock(t)
      BY <1>0, <1>3, <2>1, <3>1, <3>4, ProducerFlows, SemFlows
    <3>5. CASE cat_read(t)
      BY <1>0, <1>3, <2>1, <3>1, <3>5, ProducerFlows, SemFlows
    <3> QED BY <2>6, <3>2, <3>3, <3>4, <3>5
  <2>7. CASE \/ client_slot(t) \/ client_copy(t) \/ client_full(t)
             \/ client_overflow(t) \/ client_counted(t)
    <3>1. Late' => Late
      BY <1>4, <2>7 DEF client_slot, client_copy, client_full, client_overflow,
                        client_counted
    <3> QED BY <1>0, <1>3, <2>1, <2>7, <3>1, ProducerFlows, SemFlows
  <2>8. CASE \/ consume_wait(t) \/ consume_return(t) \/ consume_lock(t)
             \/ consume_all_done(t) \/ consume_post(t)
    <3>1. Late' => Late
      BY <1>4, <2>8 DEF consume_wait, consume_return, consume_lock, consume_all_done,
                        consume_post
    <3> QED BY <1>0, <1>3, <2>1, <2>8, <3>1, ConsumerFlows, SemFlows
  <2>9. CASE \/ cat_consume_unlock(t) \/ cat_stop(t) \/ server_overflow(t)
             \/ server_unlock(t)
    <3>1. Late' => Late
      BY <1>4, <2>9 DEF cat_consume_unlock, cat_stop, server_overflow, server_unlock
    <3>2. CASE cat_consume_unlock(t)
      BY <1>0, <1>3, <2>1, <3>1, <3>2, ConsumerFlows, SemFlows
    <3>3. CASE cat_stop(t)
      BY <1>0, <1>3, <2>1, <3>1, <3>3, ConsumerFlows, SemFlows
    <3>4. CASE server_overflow(t)
      BY <1>0, <1>3, <2>1, <3>1, <3>4, ConsumerFlows, SemFlows
    <3>5. CASE server_unlock(t)
      BY <1>0, <1>3, <2>1, <3>1, <3>5, ConsumerFlows, SemFlows
    <3> QED BY <2>9, <3>2, <3>3, <3>4, <3>5
  <2> QED BY <1>7, <2>2, <2>3, <2>4, <2>5, <2>6, <2>7, <2>8, <2>9
          DEF Step, BufferStep, LogStep
<1> QED BY <1>5, <1>6, <1>7

\* While one thread counts an item put or fetched, no other does.
LEMMA OnlyOneInside ==
  ASSUME MutexInv, NEW t \in Threads, NEW u \in Threads,
         pc[t] \in {"p_store", "p_count", "c_fetch", "c_count"},
         pc[u] \in {"p_store", "p_count", "c_fetch", "c_count"}
  PROVE  u = t
  BY DEF MutexInv, OnlyOne

\* The items put.
LEMMA NputKept ==
  ASSUME IInv, NEW t \in Threads, Step(t)
  PROVE  NputInv'
<1>0. /\ TypeOK /\ PlaceInv /\ SoloInv /\ MutexInv /\ NputInv
      /\ prog' = prog /\ nitems' = nitems /\ prog \in Programs
      /\ nput \in Nat /\ nputval \in Nat /\ nitems \in Nat
      /\ Producers \subseteq Threads
  BY StepMoves, ProdConsAssumption DEF IInv, TypeOK, args, Threads
<1>1. PICK a, b \in Places : Goto(t, a, b)
  BY StepMoves
<1>2. \A u \in Producers : pc'[u] = IF u = t THEN b ELSE pc[u]
  BY <1>0, <1>1 DEF Goto, TypeOK
<1>3. CASE produce_count(t)
  <2>1. /\ t \in Producers /\ pc[t] = "p_count" /\ pc'[t] = "p_post"
        /\ nput' = nput + 1 /\ nputval' = nputval + 1 /\ errors' = errors
    BY <1>0, <1>3, ProducerFlows DEF produce_count, Goto, TypeOK
  <2>2. prog # "mycat2"
    BY <1>0, <2>1 DEF PlaceInv
  <2>3. prog \in {"prodcons1", "prodcons2", "prodcons3", "prodcons4"} => nput < nitems
    BY <1>0, <2>1 DEF NputInv, ManyProducers
  <2>4. ManyProducers => \A u \in Producers : pc'[u] # "p_count"
    BY <1>0, <1>1, <1>2, <2>1, OnlyOneInside
  <2>5. prog \in {"prodcons1", "prodcons2"} =>
          \A u \in Producers : pc'[u] \notin {"p_lock", "p_store", "p_count"}
    BY <1>0, <1>2, <2>1 DEF SoloInv, ManyProducers, MessageLog
  <2> QED BY <1>0, <2>1, <2>2, <2>3, <2>4, <2>5 DEF NputInv, ManyProducers
<1>4. CASE cat_next(t) \/ cat_read(t)
  <2>1. prog = "mycat2"
    BY <1>0, <1>4 DEF cat_next, cat_read, Goto, PlaceInv
  <2> QED BY <1>0, <2>1 DEF NputInv, ManyProducers
<1>5. ASSUME UNCHANGED <<nput, nputval, errors>>,
             b \in {"p_lock", "p_store", "p_count"} =>
               \/ pc[t] \in {"p_lock", "p_store", "p_count"} \/ nput < nitems
               \/ prog \notin {"prodcons1", "prodcons2"},
             b = "p_count" => ~ManyProducers \/ nput < nitems
      PROVE  NputInv'
  BY <1>0, <1>2, <1>5 DEF NputInv, ManyProducers
<1> USE DEF puts, Goto
<1>6. CASE produce_wait(t)
  BY <1>0, <1>1, <1>5, <1>6 DEF produce_wait, LoopOver, TypeOK
<1>7. CASE produce_store(t)
  BY <1>0, <1>1, <1>5, <1>7 DEF produce_store, AllPut, TypeOK
<1>8. CASE client_slot(t)
  BY <1>0, <1>1, <1>5, <1>8 DEF client_slot, MessageLog, ManyProducers, TypeOK
<1>9. CASE produce_lock(t) \/ produce_return(t) \/ produce_all_done(t) \/ produce_post(t)
  BY <1>0, <1>1, <1>5, <1>9 DEF produce_lock, produce_return, produce_all_done,
                                produce_post, TypeOK
<1>10. CASE client_copy(t) \/ client_full(t) \/ client_overflow(t) \/ client_counted(t)
  BY <1>0, <1>1, <1>5, <1>10 DEF client_copy, client_full, client_overflow,
                                 client_counted, TypeOK
<1>11. CASE cat_unlock(t) \/ cat_eof(t) \/ cat_consume_unlock(t) \/ cat_stop(t) \/ cat_write(t)
  BY <1>0, <1>1, <1>5, <1>11 DEF cat_unlock, cat_eof, cat_consume_unlock, cat_stop,
                                 cat_write, TypeOK
<1>12. CASE \/ consume_wait(t) \/ consume_return(t) \/ consume_lock(t)
            \/ consume_all_done(t)
  BY <1>0, <1>1, <1>5, <1>12 DEF consume_wait, consume_return, consume_lock,
                                 consume_all_done, TypeOK
<1>13. CASE \/ consume_fetch(t) \/ consume_count(t) \/ consume_post(t)
            \/ server_overflow(t) \/ server_unlock(t)
  BY <1>0, <1>1, <1>5, <1>13 DEF consume_fetch, consume_count, consume_post,
                                 server_overflow, server_unlock, TypeOK
<1> QED BY <1>3, <1>4, <1>6, <1>7, <1>8, <1>9, <1>10, <1>11, <1>12, <1>13
        DEF Step, BufferStep, LogStep

\* The counts of the threads.
LEMMA CountKept ==
  ASSUME IInv, NEW t \in Threads, Step(t)
  PROVE  CountInv'
<1>0. /\ TypeOK /\ PlaceInv /\ CountInv
      /\ prog' = prog /\ nitems' = nitems /\ prog \in Programs
      /\ nput \in Nat /\ nget \in Nat /\ nitems \in Nat
      /\ Producers \subseteq Threads /\ Consumers \subseteq Threads
      /\ count \in [Threads -> Nat]
  <2>1. prog' = prog /\ nitems' = nitems
    BY StepMoves DEF args
  <2>2. /\ TypeOK /\ PlaceInv /\ CountInv /\ nput \in Nat /\ nget \in Nat
        /\ prog \in Programs /\ count \in [Threads -> Nat]
    BY DEF IInv, TypeOK
  <2>3. nitems \in Nat
    BY ProdConsAssumption DEF IInv, TypeOK
  <2> QED BY <2>1, <2>2, <2>3 DEF Threads
<1>1. PICK a, b \in Places : Goto(t, a, b) /\ a # "done"
  BY StepMoves
<1>2. \A u \in Threads : pc'[u] = IF u = t THEN b ELSE pc[u]
  BY <1>0, <1>1 DEF Goto, TypeOK
<1>3. /\ pc[t] = a /\ pc'[t] = b
      /\ (ManyProducers <=> ManyProducers') /\ (ManyConsumers <=> ManyConsumers')
      /\ (MessageLog <=> MessageLog') /\ ~(ManyProducers /\ MessageLog)
      /\ (ManyConsumers => ManyProducers)
  BY <1>0, <1>1, <1>2 DEF ManyProducers, ManyConsumers, MessageLog, Goto
<1>4. ASSUME nput' >= nput, nget' >= nget, nput' \in Nat, nget' \in Nat,
             \A u \in Threads \ {t} : count'[u] = count[u],
             ManyProducers /\ t \in Producers =>
               count'[t] + (IF b = "p_post" THEN 1 ELSE 0) <= nput',
             ManyConsumers /\ t \in Consumers =>
               count'[t] + (IF b = "c_post" THEN 1 ELSE 0) <= nget',
             MessageLog /\ t \in Producers =>
               /\ count'[t] <= nitems
               /\ b \notin {"produce", "done"} => count'[t] < nitems
               /\ b = "done" => count'[t] \in {0, nitems}
      PROVE  CountInv'
  <2>1. ManyProducers => \A u \in Producers :
          count'[u] + (IF pc'[u] = "p_post" THEN 1 ELSE 0) <= nput'
    BY <1>0, <1>2, <1>4 DEF CountInv
  <2>2. ManyConsumers => \A u \in Consumers :
          count'[u] + (IF pc'[u] = "c_post" THEN 1 ELSE 0) <= nget'
    BY <1>0, <1>2, <1>4 DEF CountInv
  <2>3. MessageLog => \A u \in Producers :
          /\ count'[u] <= nitems
          /\ pc'[u] \notin {"produce", "done"} => count'[u] < nitems
          /\ pc'[u] = "done" => count'[u] \in {0, nitems}
    BY <1>0, <1>2, <1>4 DEF CountInv
  <2> QED BY <1>0, <1>3, <2>1, <2>2, <2>3 DEF CountInv
<1>5. ASSUME NEW x, NEW y, Goto(t, x, y) PROVE a = x /\ b = y
  BY <1>0, <1>1, <1>3, <1>5 DEF Goto, TypeOK
<1>6. Producers \cap Consumers = {}
  BY ProdConsAssumption
<1> USE DEF puts, gets
<1>7. CASE produce_count(t)
  <2>1. a = "p_count" /\ b = "p_post" /\ t \in Producers
    BY <1>0, <1>5, <1>7, ProducerFlows DEF produce_count
  <2>2. UNCHANGED <<nget, count>> /\ nput' = nput + 1
    BY <1>7 DEF produce_count
  <2> QED BY <1>0, <1>3, <1>4, <1>6, <2>1, <2>2 DEF CountInv
<1>8. CASE consume_count(t)
  <2>1. a = "c_count" /\ b = "c_post" /\ t \in Consumers
    BY <1>0, <1>5, <1>8, ConsumerFlows DEF consume_count
  <2>2. UNCHANGED <<nput, count>> /\ nget' = nget + 1
    BY <1>8 DEF consume_count
  <2> QED BY <1>0, <1>3, <1>4, <1>6, <2>1, <2>2 DEF CountInv
<1>9. CASE produce_post(t)
  <2>1. t \in Producers /\ b = "produce" /\ a = IF MessageLog THEN "p_copied" ELSE "p_post"
    BY <1>0, <1>5, <1>9, ProducerFlows DEF produce_post
  <2>2. /\ \A u \in Threads \ {t} : count'[u] = count[u]
        /\ count'[t] = IF ManyProducers \/ MessageLog THEN count[t] + 1 ELSE count[t]
        /\ UNCHANGED <<nput, nget>>
    BY <1>0, <1>3, <1>9, <2>1 DEF produce_post, Counted
  <2> QED BY <1>0, <1>3, <1>4, <1>6, <2>1, <2>2 DEF CountInv
<1>10. CASE consume_post(t)
  <2>1. t \in Consumers /\ a = "c_post" /\ b = IF MessageLog THEN "c_over" ELSE "consume"
    BY <1>0, <1>5, <1>10, ConsumerFlows DEF consume_post
  <2>2. /\ \A u \in Threads \ {t} : count'[u] = count[u]
        /\ count'[t] = IF ManyConsumers THEN count[t] + 1 ELSE count[t]
        /\ UNCHANGED <<nput, nget>>
    BY <1>0, <1>3, <1>6, <1>10, <2>1 DEF consume_post, Counted
  <2> QED BY <1>0, <1>3, <1>4, <1>6, <2>1, <2>2 DEF CountInv
<1>11. CASE client_counted(t)
  <2>1. t \in Producers /\ a = "p_over" /\ b = "produce"
    BY <1>0, <1>5, <1>11, ProducerFlows DEF client_counted
  <2>2. MessageLog
    BY <1>0, <1>3, <2>1 DEF PlaceInv
  <2>3. /\ \A u \in Threads \ {t} : count'[u] = count[u]
        /\ count'[t] = count[t] + 1
        /\ UNCHANGED <<nput, nget>>
    BY <1>0, <1>3, <1>11, <2>1, <2>2 DEF client_counted, Counted
  <2> QED BY <1>0, <1>3, <1>4, <1>6, <2>1, <2>2, <2>3 DEF CountInv
<1>12. CASE produce_return(t)
  <2>1. t \in Producers /\ b = "done" /\ a = "produce"
    BY <1>0, <1>5, <1>12, ProducerFlows DEF produce_return
  <2>2. UNCHANGED <<nput, nget, count>> /\ (MessageLog => count[t] = nitems)
    BY <1>0, <1>12, <2>1 DEF produce_return, LoopOver, CountInv, MessageLog
  <2> QED BY <1>0, <1>3, <1>4, <1>6, <2>1, <2>2 DEF CountInv
<1>13. CASE produce_wait(t) \/ client_full(t)
  <2>1. t \in Producers /\ b \in {"p_lock", "p_full"} /\ a = "produce"
    BY <1>0, <1>5, <1>13, ProducerFlows DEF produce_wait, client_full
  <2>2. UNCHANGED <<nput, nget, count>> /\ (MessageLog => count[t] < nitems)
    BY <1>0, <1>13, <2>1 DEF produce_wait, client_full, LoopOver, CountInv
  <2> QED BY <1>0, <1>3, <1>4, <1>6, <2>1, <2>2 DEF CountInv
<1>14. ASSUME UNCHANGED <<nput, nget, count>>,
              t \in Producers => b # "p_post",
              t \in Producers /\ MessageLog => a # "produce" /\ b \notin {"produce", "done"},
              t \in Consumers => b # "c_post"
       PROVE  CountInv'
  BY <1>0, <1>1, <1>3, <1>4, <1>14 DEF CountInv
<1>15. CASE produce_lock(t) \/ produce_all_done(t) \/ produce_store(t)
  <2>1. /\ t \in Producers /\ a \in {"p_lock", "p_store"}
        /\ b \in {"p_store", "p_count"} \/ (b = "done" /\ ManyProducers)
    BY <1>0, <1>5, <1>15, ProducerFlows
       DEF produce_lock, produce_all_done, produce_store, AllPut
  <2>2. UNCHANGED <<nput, nget, count>>
    BY <1>15 DEF produce_lock, produce_all_done, produce_store
  <2> QED BY <1>3, <1>6, <1>14, <2>1, <2>2
<1>16. CASE client_slot(t) \/ client_copy(t) \/ client_overflow(t)
  <2>1. t \in Producers /\ a # "produce" /\ b \in {"p_count", "p_copied", "p_over"}
    BY <1>0, <1>5, <1>16, ProducerFlows DEF client_slot, client_copy, client_overflow
  <2>2. UNCHANGED <<nput, nget, count>>
    BY <1>16 DEF client_slot, client_copy, client_overflow
  <2> QED BY <1>6, <1>14, <2>1, <2>2
<1>17. CASE \/ consume_wait(t) \/ consume_return(t) \/ consume_lock(t)
            \/ consume_all_done(t) \/ consume_fetch(t)
  <2>1. t \in Consumers /\ b \in {"c_lock", "done", "c_fetch", "c_count"}
    BY <1>0, <1>5, <1>17, ConsumerFlows
       DEF consume_wait, consume_return, consume_lock, consume_all_done, consume_fetch
  <2>2. UNCHANGED <<nput, nget, count>>
    BY <1>17
       DEF consume_wait, consume_return, consume_lock, consume_all_done, consume_fetch
  <2> QED BY <1>6, <1>14, <2>1, <2>2
<1>18. CASE server_overflow(t) \/ server_unlock(t)
  <2>1. t \in Consumers /\ b \in {"c_temp", "consume"}
    BY <1>0, <1>5, <1>18, ConsumerFlows DEF server_overflow, server_unlock
  <2>2. UNCHANGED <<nput, nget, count>>
    BY <1>18 DEF server_overflow, server_unlock
  <2> QED BY <1>6, <1>14, <2>1, <2>2
<1>19. CASE \/ cat_unlock(t) \/ cat_read(t) \/ cat_eof(t) \/ cat_next(t)
            \/ cat_consume_unlock(t) \/ cat_stop(t) \/ cat_write(t)
  <2>1. prog = "mycat2"
    BY <1>0, <1>19 DEF PlaceInv, Goto, cat_unlock, cat_read, cat_eof, cat_next,
                       cat_consume_unlock, cat_stop, cat_write
  <2> QED BY <1>0, <2>1 DEF CountInv, ManyProducers, ManyConsumers, MessageLog
<1> QED BY <1>7, <1>8, <1>9, <1>10, <1>11, <1>12, <1>13, <1>15, <1>16, <1>17, <1>18, <1>19
        DEF Step, BufferStep, LogStep
-----------------------------------------------------------------------------
(* The other programs.                                                     *)

\* A producer that has a place for an item finds no other item in its slot.
LEMMA FreeSlot ==
  ASSUME IInv, NEW t \in Producers,
         pc[t] \in {"p_lock", "p_store", "p_count", "p_read", "p_next"}
  PROVE  /\ nput % NBUFF \in 0..NBUFF-1
         /\ \A i \in nget..nput-1 : i % NBUFF \in 0..NBUFF-1 /\ i % NBUFF # nput % NBUFF
<1>1. nget \in Nat /\ nput \in Nat /\ NBUFF \in Nat
  BY ProdConsAssumption DEF IInv, TypeOK
<1>2. Filling >= 1 /\ Filling \in Nat /\ Freeing \in Nat
  <2>1. Producers \in SUBSET Threads
    BY DEF Threads
  <2> QED BY <2>1, AtSome, FlowTypes DEF Filling
<1>3. sem["nempty"] + Filling + (nput - nget) + Freeing <= NBUFF /\ sem["nempty"] \in Nat
  BY SemIs DEF IInv, PlacesInv, SemNames
<1>4. \A i \in nget..nput-1 : i \in Nat /\ i < nput /\ nput < i + NBUFF
  BY <1>1, <1>2, <1>3
<1> QED BY <1>1, <1>4, ModApart, ModType

\* The operations of those programs that leave the buffer, and what is printed,
\* as they are.
ItemIdle(t) ==
  /\ UNCHANGED <<buff, nput, nget, out>>
  /\ \A u \in Producers : MessageLog /\ pc[u] = "p_post" => local'[u] = local[u]
  /\ \E a, b \in Places :
       /\ Goto(t, a, b) /\ a # "done" /\ a # "c_count" /\ b # "c_count" /\ b # "p_post"
       /\ MessageLog => a # "p_post"
       /\ b = "p_count" => MessageLog

\* What they do.
LEMMA PlainStep ==
  ASSUME TypeOK, PlaceInv, prog # "mycat2", NEW t \in Threads, Step(t)
  PROVE  \/ t \in Producers /\ (produce_store(t) \/ produce_count(t) \/ client_copy(t))
         \/ t \in Consumers /\ (consume_fetch(t) \/ consume_count(t))
         \/ ItemIdle(t)
<1>0. /\ pc[t] \notin {"p_read", "p_next", "c_write"}
      /\ local \in [Threads -> 0..MaxItems] /\ Producers \subseteq Threads
  BY DEF PlaceInv, TypeOK, Threads
<1>1. produce_store(t) \/ produce_count(t) \/ client_copy(t) => t \in Producers
  BY ProducerFlows
<1>2. consume_fetch(t) \/ consume_count(t) => t \in Consumers
  BY ConsumerFlows
<1>3. ~cat_unlock(t) /\ ~cat_read(t) /\ ~cat_eof(t) /\ ~cat_next(t)
      /\ ~cat_consume_unlock(t) /\ ~cat_stop(t) /\ ~cat_write(t)
  BY <1>0 DEF cat_unlock, cat_read, cat_eof, cat_next, cat_consume_unlock, cat_stop,
              cat_write, Goto
<1> USE DEF Places, ProducerPlaces, ConsumerPlaces, puts, gets
<1>4. \A u \in Producers : pc[u] = "p_post" => local'[u] = local[u]
  <2>1. BufferStep(t) => UNCHANGED local
    BY DEF BufferStep, logs
  <2>2. LogStep(t) => \A u \in Producers : pc[u] = "p_post" => local'[u] = local[u]
    BY <1>0 DEF LogStep, client_slot, client_copy, client_full, client_overflow,
                client_counted, server_overflow, server_unlock, logs, Goto
  <2> QED BY <2>1, <2>2 DEF Step
<1> DEFINE Move == \E a, b \in Places :
                     /\ Goto(t, a, b) /\ a # "done" /\ a # "c_count" /\ b # "c_count"
                     /\ b # "p_post" /\ (MessageLog => a # "p_post")
                     /\ (b = "p_count" => MessageLog)
<1>5. ASSUME UNCHANGED <<buff, nput, nget, out>>, Move PROVE ItemIdle(t)
  BY <1>4, <1>5 DEF ItemIdle
<1>6. CASE produce_wait(t) \/ produce_return(t) \/ produce_lock(t) \/ produce_all_done(t)
  <2>1. UNCHANGED <<buff, nput, nget, out>>
    BY <1>6 DEF produce_wait, produce_return, produce_lock, produce_all_done
  <2>2. Move
    BY <1>6 DEF produce_wait, produce_return, produce_lock, produce_all_done
  <2> QED BY <1>5, <2>1, <2>2
<1>7. CASE produce_post(t)
  BY <1>5, <1>7 DEF produce_post
<1>8. CASE \/ consume_wait(t) \/ consume_return(t) \/ consume_lock(t)
           \/ consume_all_done(t) \/ consume_post(t)
  <2>1. UNCHANGED <<buff, nput, nget, out>>
    BY <1>8 DEF consume_wait, consume_return, consume_lock, consume_all_done, consume_post
  <2>2. Move
    BY <1>8 DEF consume_wait, consume_return, consume_lock, consume_all_done, consume_post
  <2> QED BY <1>5, <2>1, <2>2
<1>9. CASE \/ client_slot(t) \/ client_full(t) \/ client_overflow(t) \/ client_counted(t)
           \/ server_overflow(t) \/ server_unlock(t)
  <2>1. UNCHANGED <<buff, nput, nget, out>>
    BY <1>9 DEF client_slot, client_full, client_overflow, client_counted,
                server_overflow, server_unlock
  <2>2. Move
    BY <1>9 DEF client_slot, client_full, client_overflow, client_counted,
                server_overflow, server_unlock
  <2> QED BY <1>5, <2>1, <2>2
<1> QED BY <1>1, <1>2, <1>3, <1>6, <1>7, <1>8, <1>9 DEF Step, BufferStep, LogStep


\* A thread counts what it moves, and nothing else.
LEMMA CountMoves ==
  ASSUME TypeOK, NEW t \in Threads, Step(t)
  PROVE  /\ \A u \in Threads : count[u] \in Nat
         /\ \A u \in Threads \ {t} : count'[u] = count[u]
         /\ count'[t] \in {count[t], count[t] + 1} /\ count' \in [Threads -> Nat]
         /\ ~produce_post(t) /\ ~client_counted(t) /\ ~consume_post(t) => count' = count
         /\ ~ManyConsumers /\ ~((ManyProducers \/ MessageLog) /\ t \in Producers) =>
              count' = count
<1>0. count \in [Threads -> Nat]
  BY ProdConsAssumption DEF TypeOK
<1>1. CASE produce_post(t) \/ client_counted(t) \/ consume_post(t)
  <2>1. Counted(t)
    BY <1>1 DEF produce_post, client_counted, consume_post
  <2>2. count' = count \/ count' = [count EXCEPT ![t] = @ + 1]
    BY <2>1 DEF Counted
  <2>3. ~ManyConsumers /\ ~((ManyProducers \/ MessageLog) /\ t \in Producers) => count' = count
    BY <2>1 DEF Counted
  <2> QED BY <1>0, <1>1, <2>2, <2>3
<1>2. CASE ~(produce_post(t) \/ client_counted(t) \/ consume_post(t))
  <2>1. count' = count
    <3>1. LogStep(t) => count' = count
      BY <1>2 DEF LogStep, client_slot, client_copy, client_full, client_overflow,
                  server_overflow, server_unlock
    <3>2. BufferStep(t) => count' = count
      BY <1>2 DEF BufferStep, produce_wait, produce_return, produce_lock,
                  produce_all_done, produce_store, produce_count, cat_unlock, cat_read,
                  cat_eof, cat_next, consume_wait, consume_return, consume_lock,
                  consume_all_done, consume_fetch, consume_count, cat_consume_unlock,
                  cat_stop, cat_write
    <3> QED BY <3>1, <3>2 DEF Step
  <2> QED BY <1>0, <2>1
<1> QED BY <1>1, <1>2

\* The set of the clients is finite.
LEMMA ClientsFinite == IsFiniteSet(Clients) /\ Cardinality(Clients) \in Nat
  BY ProdConsAssumption, FS_Subset, FS_CardinalityType DEF Clients

\* A client leaves the set of the clients only by returning without having sent
\* anything, which it does when there is nothing to send.
LEMMA ClientsStay ==
  ASSUME IInv, MessageLog, NEW t \in Threads, Step(t)
  PROVE  /\ Clients' \subseteq Clients
         /\ Clients \subseteq Clients' \/ (nitems = 0 /\ produce_return(t))
<1>0. TypeOK /\ PlaceInv /\ Producers \subseteq Threads /\ nitems \in Nat
  BY ProdConsAssumption DEF IInv, Threads, TypeOK
<1>1. PICK a, b \in Places : Goto(t, a, b) /\ a # "done"
  BY StepMoves
<1>2. pc[t] = a /\ \A u \in Threads : pc'[u] = IF u = t THEN b ELSE pc[u]
  BY <1>0, <1>1 DEF Goto, TypeOK
<1>3. Clients' \subseteq Clients
  BY <1>0, <1>1, <1>2, CountMoves DEF Clients
<1>4. ASSUME NEW u \in Clients, u \notin Clients' PROVE nitems = 0 /\ produce_return(t)
  <2>1. u \in Producers /\ u \in Threads /\ pc'[u] = "done" /\ ~(count'[u] > 0)
    BY <1>0, <1>4 DEF Clients
  <2>2. u = t
    BY <1>0, <1>2, <1>4, <2>1, CountMoves DEF Clients
  <2>3. count[t] = 0 /\ b = "done" /\ t \in Producers /\ pc'[t] = "done"
    BY <1>0, <1>2, <2>1, <2>2, CountMoves
  <2>4. produce_return(t)
    <3>1. ~LogStep(t)
      BY <1>0, <2>3 DEF LogStep, client_slot, client_copy, client_full, client_overflow,
                  client_counted, server_overflow, server_unlock, Goto, TypeOK
    <3>2. /\ ~produce_wait(t) /\ ~produce_lock(t) /\ ~produce_store(t)
          /\ ~produce_count(t) /\ ~produce_post(t) /\ ~produce_all_done(t)
      BY <1>0, <2>3 DEF produce_wait, produce_lock, produce_store, produce_count,
                  produce_post, produce_all_done, AllPut, ManyProducers, MessageLog,
                  Goto, TypeOK
    <3>3. ~cat_unlock(t) /\ ~cat_read(t) /\ ~cat_eof(t) /\ ~cat_next(t)
      BY <1>0 DEF cat_unlock, cat_read, cat_eof, cat_next, PlaceInv, MessageLog, Goto
    <3>4. t \notin Consumers
      BY <2>3, ProdConsAssumption
    <3>5. /\ ~consume_wait(t) /\ ~consume_return(t) /\ ~consume_lock(t)
          /\ ~consume_all_done(t) /\ ~consume_fetch(t) /\ ~consume_count(t)
          /\ ~consume_post(t) /\ ~cat_consume_unlock(t) /\ ~cat_stop(t) /\ ~cat_write(t)
      BY <1>0, <3>4, ConsumerFlows
    <3> QED BY <3>1, <3>2, <3>3, <3>5 DEF Step, BufferStep
  <2>5. count[t] >= nitems
    BY <2>4 DEF produce_return, LoopOver, MessageLog
  <2> QED BY <1>0, <2>3, <2>4, <2>5
<1>5. Clients \subseteq Clients' \/ \E u \in Clients : u \notin Clients'
  OBVIOUS
<1>6. (\E u \in Clients : u \notin Clients') => nitems = 0 /\ produce_return(t)
  BY <1>4, Zenon
<1> QED BY <1>3, <1>5, <1>6, Zenon

\* No message has a place, and none has overflowed.
LEMMA NothingBegun ==
  ASSUME IInv, MessageLog, nitems = 0
  PROVE  nput = 0 /\ noverflow = 0 /\ nget = 0 /\ out = <<>>
<1>1. Begun = {}
  BY DEF Begun
<1>2. nput + noverflow = 0 /\ nput \in Nat /\ noverflow \in Nat /\ nget \in Nat
  BY <1>1, FS_EmptySet, ProdConsAssumption DEF IInv, LogInv, TypeOK
<1>3. nput = 0 /\ nget = 0 /\ noverflow = 0
  BY <1>2 DEF IInv, PlacesInv
<1>4. ~\E t \in Consumers : pc[t] = "c_count"
  BY <1>3, CanFetch
<1>5. Len(out) = 0
  BY <1>3, <1>4 DEF IInv, ItemsInv, MessageLog
<1> QED BY <1>3, <1>5, EmptySeq DEF IInv

\* If two clients cannot pass one another after a step, they could not before.
LEMMA OvertakeStays ==
  ASSUME IInv, NEW t \in Threads, Step(t), MayOvertake, ~MayOvertake'
  PROVE  nput = 0 /\ nput' = 0 /\ out = <<>> /\ out' = <<>>
<1>1. MessageLog /\ MessageLog'
  BY StepMoves DEF MayOvertake, MessageLog, args
<1>2. ~(Clients \subseteq Clients')
  <2> SUFFICES ASSUME Clients \subseteq Clients' PROVE FALSE
    OBVIOUS
  <2>1. Clients' \subseteq Clients
    BY <1>1, ClientsStay
  <2>2. Clients' = Clients
    BY <2>1
  <2> QED BY <1>1, <2>2 DEF MayOvertake
<1>3. nitems = 0 /\ produce_return(t)
  BY <1>1, <1>2, ClientsStay
<1> QED BY <1>1, <1>3, NothingBegun DEF produce_return, puts, gets
-----------------------------------------------------------------------------
(* mycat2.                                                                 *)

\* The operations of mycat2 that do not touch the buffer or the file.
CatIdle(t) ==
  /\ UNCHANGED <<puts, gets>>
  /\ \E a, b \in Places : /\ Goto(t, a, b) /\ a # "p_next" /\ b # "p_next" /\ a # "done"
                          /\ t \in Producers => b # "done"

\* What mycat2 does.
LEMMA CatStep ==
  ASSUME TypeOK, PlaceInv, prog = "mycat2", NEW t \in Threads, Step(t)
  PROVE  \/ t \in Producers /\ (cat_read(t) \/ cat_eof(t) \/ cat_next(t))
         \/ t \in Consumers /\ cat_write(t)
         \/ CatIdle(t)
<1>0. ~MessageLog /\ ~ManyProducers /\ ~ManyConsumers /\ ~LoopOver(t) /\ ~AllPut
      /\ pc[t] \notin {"p_count", "p_post", "c_count", "p_copied", "p_full", "p_over",
                       "c_over", "c_temp"}
  BY DEF MessageLog, ManyProducers, ManyConsumers, LoopOver, AllPut, PlaceInv
<1> USE DEF Places, ProducerPlaces, ConsumerPlaces
<1>1. CASE produce_wait(t) \/ produce_lock(t) \/ cat_unlock(t) \/ consume_wait(t)
           \/ consume_lock(t) \/ consume_post(t) \/ cat_consume_unlock(t)
  BY <1>0, <1>1 DEF produce_wait, produce_lock, cat_unlock, consume_wait, consume_lock,
                    consume_post, cat_consume_unlock, CatIdle
<1>2. CASE cat_stop(t)
  <2>1. t \notin Producers
    BY <1>2, ConsumerFlows, ProdConsAssumption
  <2> QED BY <1>2, <2>1 DEF cat_stop, CatIdle
<1>3. cat_read(t) \/ cat_eof(t) \/ cat_next(t) => t \in Producers
  BY ProducerFlows
<1>4. cat_write(t) => t \in Consumers
  BY ConsumerFlows
<1>5. /\ ~produce_return(t) /\ ~produce_all_done(t) /\ ~produce_store(t)
      /\ ~produce_count(t) /\ ~produce_post(t) /\ ~consume_return(t)
      /\ ~consume_all_done(t) /\ ~consume_fetch(t) /\ ~consume_count(t)
  BY <1>0 DEF produce_return, produce_all_done, produce_store, produce_count,
              produce_post, consume_return, consume_all_done, consume_fetch,
              consume_count, Goto
<1>6. ~LogStep(t)
  BY <1>0 DEF LogStep, client_slot, client_copy, client_full, client_overflow,
              client_counted, server_overflow, server_unlock, Goto
<1> QED BY <1>1, <1>2, <1>3, <1>4, <1>5, <1>6 DEF Step, BufferStep

\* Where mycat2's producer is, before and after a step.
LEMMA CatMoves ==
  ASSUME TypeOK, PlaceInv, SoloInv, prog = "mycat2", NEW t \in Threads, Step(t)
  PROVE  /\ cat_read(t) => ~AtNext /\ AtNext' /\ ~Ended'
         /\ cat_eof(t) => AtNext /\ ~AtNext' /\ ~Ended
         /\ cat_next(t) => AtNext /\ ~AtNext' /\ ~Ended'
         /\ cat_write(t) \/ CatIdle(t) => AtNext' = AtNext /\ Ended' = Ended
<1>0. /\ Producers \subseteq Threads /\ Producers \cap Consumers = {}
      /\ \A u \in Producers : pc[u] # "done" /\ pc[t] # "done" /\ t \in Producers => u = t
      /\ prog' = prog
  BY ProdConsAssumption, StepMoves
     DEF Threads, SoloInv, ManyProducers, MessageLog, args
<1>1. ASSUME NEW a, NEW b, Goto(t, a, b)
      PROVE  pc[t] = a /\ \A u \in Threads : pc'[u] = IF u = t THEN b ELSE pc[u]
  BY <1>1 DEF Goto, TypeOK
<1>2. ASSUME cat_read(t) PROVE ~AtNext /\ AtNext' /\ ~Ended'
  <2>1. t \in Producers /\ Goto(t, "p_read", "p_next")
    BY <1>2, ProducerFlows DEF cat_read
  <2>2. pc[t] = "p_read" /\ pc'[t] = "p_next" /\ t \in Threads
    BY <1>1, <2>1
  <2>3. \A u \in Producers : pc[u] # "p_next"
    BY <1>0, <2>1, <2>2
  <2> QED BY <2>1, <2>2, <2>3 DEF AtNext, Ended
<1>3. ASSUME cat_eof(t) PROVE AtNext /\ ~AtNext' /\ ~Ended
  <2>1. t \in Producers /\ Goto(t, "p_next", "done")
    BY <1>3, ProducerFlows DEF cat_eof
  <2>2. pc[t] = "p_next" /\ \A u \in Producers : pc'[u] = IF u = t THEN "done" ELSE pc[u]
    BY <1>0, <1>1, <2>1
  <2>3. \A u \in Producers : pc'[u] # "p_next"
    BY <1>0, <2>1, <2>2
  <2> QED BY <2>1, <2>2, <2>3 DEF AtNext, Ended
<1>4. ASSUME cat_next(t) PROVE AtNext /\ ~AtNext' /\ ~Ended'
  <2>1. t \in Producers /\ Goto(t, "p_next", "produce")
    BY <1>4, ProducerFlows DEF cat_next
  <2>2. pc[t] = "p_next" /\ \A u \in Producers : pc'[u] = IF u = t THEN "produce" ELSE pc[u]
    BY <1>0, <1>1, <2>1
  <2>3. \A u \in Producers : pc'[u] # "p_next"
    BY <1>0, <2>1, <2>2
  <2> QED BY <2>1, <2>2, <2>3 DEF AtNext, Ended
<1>5. ASSUME cat_write(t) \/ CatIdle(t) PROVE AtNext' = AtNext /\ Ended' = Ended
  <2>1. \E a, b :
          /\ Goto(t, a, b)
          /\ t \in Producers => a \notin {"p_next", "done"} /\ b \notin {"p_next", "done"}
    <3>1. cat_write(t) => t \in Consumers /\ Goto(t, "c_write", "c_post")
      BY ConsumerFlows DEF cat_write
    <3> QED BY <1>0, <1>5, <3>1 DEF CatIdle
  <2>2. \A u \in Producers : /\ (pc'[u] = "p_next") <=> (pc[u] = "p_next")
                             /\ (pc'[u] = "done") <=> (pc[u] = "done")
    BY <1>0, <1>1, <2>1
  <2> QED BY <1>0, <2>2 DEF AtNext, Ended
<1> QED BY <1>2, <1>3, <1>4, <1>5

\* What the producer of mycat2 reads.
LEMMA ReadKept ==
  ASSUME IInv, NEW t \in Threads, Step(t)
  PROVE  ReadInv'
<1> SUFFICES ASSUME prog = "mycat2" PROVE ReadInv'
  <2>1. prog' = prog
    BY StepMoves DEF args
  <2> QED BY <2>1 DEF ReadInv
<1>0. /\ TypeOK /\ PlaceInv /\ SoloInv /\ ReadInv
      /\ nput \in Nat /\ nputval \in Nat /\ errors \in Nat /\ nitems \in Nat
      /\ buff \in [0..NBUFF-1 -> Int] /\ nput % NBUFF \in 0..NBUFF-1
      /\ nitems' = nitems
  <2>1. /\ nput \in Nat /\ nputval \in Nat /\ errors \in Nat /\ nitems \in Nat
        /\ buff \in [0..NBUFF-1 -> Int]
    BY ProdConsAssumption DEF IInv, TypeOK
  <2> QED BY <2>1, StepMoves, ModType DEF IInv, args
<1>1. /\ nputval <= nitems
      /\ nput + (IF AtNext /\ Slot # EndOfFile THEN 1 ELSE 0) = nputval + errors
      /\ AtNext => Slot \in {EndOfFile, ReadFailed} \/ (Slot = nputval - 1 /\ nputval > 0)
      /\ Ended => Slot = EndOfFile
  BY <1>0 DEF ReadInv
<1>2. CASE cat_read(t)
  <2>1. ~AtNext /\ AtNext' /\ ~Ended' /\ nput' = nput
    BY <1>0, <1>2, CatMoves DEF cat_read
  <2>2. PICK n \in {nputval, EndOfFile, ReadFailed} :
          /\ n = nputval => nputval < nitems
          /\ buff' = [buff EXCEPT ![nput % NBUFF] = n]
          /\ nputval' = IF n = nputval THEN nputval + 1 ELSE nputval
          /\ errors' = IF n = ReadFailed THEN errors + 1 ELSE errors
    BY <1>2 DEF cat_read
  <2>3. Slot' = n
    BY <1>0, <2>1, <2>2 DEF Slot
  <2> QED BY <1>0, <1>1, <2>1, <2>2, <2>3 DEF ReadInv, EndOfFile, ReadFailed
<1>3. CASE cat_eof(t)
  <2>1. /\ AtNext /\ ~AtNext' /\ Slot = EndOfFile /\ Slot' = Slot
        /\ nput' = nput /\ nputval' = nputval /\ errors' = errors
    BY <1>0, <1>3, CatMoves DEF cat_eof, puts, Slot
  <2> QED BY <1>0, <1>1, <2>1 DEF ReadInv
<1>4. CASE cat_next(t)
  <2>1. /\ AtNext /\ ~AtNext' /\ ~Ended' /\ Slot # EndOfFile
        /\ nput' = nput + 1 /\ nputval' = nputval /\ errors' = errors
    BY <1>0, <1>4, CatMoves DEF cat_next, Slot
  <2> QED BY <1>0, <1>1, <2>1 DEF ReadInv
<1>5. CASE cat_write(t) \/ CatIdle(t)
  <2>1. /\ AtNext' = AtNext /\ Ended' = Ended /\ Slot' = Slot
        /\ nput' = nput /\ nputval' = nputval /\ errors' = errors
    BY <1>0, <1>5, CatMoves DEF cat_write, CatIdle, puts, Slot
  <2> QED BY <1>0, <1>1, <2>1 DEF ReadInv
<1> QED BY <1>0, <1>2, <1>3, <1>4, <1>5, CatStep

\* The blocks of the file are stored and written in order.
LEMMA BlocksKept ==
  ASSUME IInv, NEW t \in Threads, Step(t)
  PROVE  BlocksInv'
<1> SUFFICES ASSUME prog = "mycat2" PROVE BlocksInv'
  <2>1. prog' = prog
    BY StepMoves DEF args
  <2> QED BY <2>1 DEF BlocksInv
<1>0. /\ TypeOK /\ PlaceInv /\ SoloInv /\ ReadInv
      /\ nput \in Nat /\ nput \in Int /\ nputval \in 0..MaxItems /\ errors \in Nat
      /\ nget \in Nat /\ nget \in Int /\ nget <= nput
      /\ MaxItems \in Nat /\ buff \in [0..NBUFF-1 -> -2..MaxItems]
      /\ out \in Seq(-2..MaxItems) /\ prog' = prog /\ NBUFF \in Nat \ {0}
  BY StepMoves, ProdConsAssumption, SMTT(20) DEF IInv, TypeOK, args, PlacesInv
<1>1. PICK f \in [nget..nput -> 0..MaxItems] :
      /\ f[nget] = Len(out)
      /\ \A i \in nget..nput-1 :
           \/ buff[i % NBUFF] = ReadFailed /\ f[i + 1] = f[i]
           \/ buff[i % NBUFF] = f[i] /\ f[i + 1] = f[i] + 1
      /\ nputval = f[nput] + (IF AtNext /\ Slot >= 0 THEN 1 ELSE 0)
  BY DEF IInv, BlocksInv
<1>2. f[nput] \in 0..MaxItems /\ nput \in nget..nput
  BY <1>0, <1>1
<1>3. CASE cat_read(t)
  <2>1. ~AtNext /\ AtNext' /\ nput' = nput /\ UNCHANGED <<nget, out>>
    BY <1>0, <1>3, CatMoves DEF cat_read, gets
  <2>2. PICK n \in {nputval, EndOfFile, ReadFailed} :
          /\ buff' = [buff EXCEPT ![nput % NBUFF] = n]
          /\ nputval' = IF n = nputval THEN nputval + 1 ELSE nputval
    BY <1>3 DEF cat_read
  <2>3. nput % NBUFF \in 0..NBUFF-1
    BY <1>0, ModType
  <2>4. Slot' = n
    BY <1>0, <2>1, <2>2, <2>3 DEF Slot
  <2>5. \A i \in nget..nput-1 : buff'[i % NBUFF] = buff[i % NBUFF]
    <3>1. t \in Producers /\ pc[t] = "p_read"
      BY <1>0, <1>3, ProducerFlows DEF cat_read, Goto
    <3> QED BY <1>0, <2>2, <3>1, FreeSlot
  <2>6. nputval' = f[nput] + (IF AtNext' /\ Slot' >= 0 THEN 1 ELSE 0)
    BY <1>0, <1>1, <1>2, <2>1, <2>2, <2>4 DEF EndOfFile, ReadFailed
  <2> QED BY <1>0, <1>1, <2>1, <2>5, <2>6 DEF BlocksInv
<1>4. CASE cat_eof(t) \/ CatIdle(t)
  <2>1. UNCHANGED <<nget, nput, nputval, buff, out>> /\ Slot' = Slot
    BY <1>4 DEF cat_eof, CatIdle, puts, gets, Slot
  <2>2. (AtNext' /\ Slot' >= 0) <=> (AtNext /\ Slot >= 0)
    BY <1>0, <1>4, <2>1, CatMoves DEF cat_eof, EndOfFile, Slot
  <2>3. nputval' = f[nput'] + (IF AtNext' /\ Slot' >= 0 THEN 1 ELSE 0)
    BY <1>1, <2>1, <2>2
  <2>4. /\ f[nget'] = Len(out')
        /\ \A i \in nget'..nput'-1 :
             \/ buff'[i % NBUFF] = ReadFailed /\ f[i + 1] = f[i]
             \/ buff'[i % NBUFF] = f[i] /\ f[i + 1] = f[i] + 1
    BY <1>1, <2>1
  <2>5. f \in [nget'..nput' -> 0..MaxItems]
    BY <2>1
  <2> QED BY <2>3, <2>4, <2>5 DEF BlocksInv
<1>5. CASE cat_next(t)
  <2>1. /\ AtNext /\ ~AtNext' /\ Slot # EndOfFile
        /\ nput' = nput + 1 /\ UNCHANGED <<nget, out, nputval, buff>>
    BY <1>0, <1>5, CatMoves DEF cat_next, Slot, gets
  <2> DEFINE g == [i \in nget..nput+1 |-> IF i = nput + 1 THEN nputval ELSE f[i]]
  <2>2. g \in [nget'..nput' -> 0..MaxItems]
    BY <1>0, <1>1, <2>1
  <2>3. /\ \A i \in nget..nput : g[i] = f[i]
        /\ g[nput + 1] = nputval
    BY <1>0
  <2>4. \/ buff[nput % NBUFF] = ReadFailed /\ nputval = f[nput]
        \/ buff[nput % NBUFF] = f[nput] /\ nputval = f[nput] + 1
    <3>1. Slot \in {EndOfFile, ReadFailed} \/ (Slot = nputval - 1 /\ nputval > 0)
      BY <1>0, <2>1 DEF ReadInv
    <3>2. CASE Slot = ReadFailed
      BY <1>0, <1>1, <1>2, <3>2 DEF Slot, ReadFailed
    <3>3. CASE Slot = nputval - 1 /\ nputval > 0
      <4>1. Slot >= 0
        BY <1>0, <3>3
      <4> QED BY <1>0, <1>1, <1>2, <2>1, <3>3, <4>1 DEF Slot
    <3> QED BY <2>1, <3>1, <3>2, <3>3
  <2> HIDE DEF g
  <2>5. \A i \in nget..nput :
          \/ buff[i % NBUFF] = ReadFailed /\ g[i + 1] = g[i]
          \/ buff[i % NBUFF] = g[i] /\ g[i + 1] = g[i] + 1
    <3> SUFFICES ASSUME NEW i \in nget..nput
                 PROVE  \/ buff[i % NBUFF] = ReadFailed /\ g[i + 1] = g[i]
                        \/ buff[i % NBUFF] = g[i] /\ g[i + 1] = g[i] + 1
      OBVIOUS
    <3>1. CASE i = nput
      BY <2>3, <2>4, <3>1, <1>2
    <3>2. CASE i # nput
      <4>1. i \in nget..nput-1 /\ i + 1 \in nget..nput
        BY <1>0, <3>2
      <4> QED BY <1>1, <2>3, <4>1
    <3> QED BY <3>1, <3>2
  <2>6. nput' - 1 = nput /\ nget \in nget..nput
    BY <1>0, <2>1
  <2>7. g[nget'] = Len(out') /\ nputval' = g[nput'] + (IF AtNext' /\ Slot' >= 0 THEN 1 ELSE 0)
    BY <1>0, <1>1, <2>1, <2>3, <2>6
  <2>8. \A i \in nget'..nput'-1 :
          \/ buff'[i % NBUFF] = ReadFailed /\ g[i + 1] = g[i]
          \/ buff'[i % NBUFF] = g[i] /\ g[i + 1] = g[i] + 1
    BY <2>1, <2>5, <2>6
  <2> QED BY <2>2, <2>7, <2>8 DEF BlocksInv
<1>6. CASE cat_write(t) /\ t \in Consumers
  <2>1. /\ AtNext' = AtNext /\ Slot' = Slot /\ nget' = nget + 1
        /\ UNCHANGED <<nput, nputval, buff>>
    BY <1>0, <1>6, CatMoves DEF cat_write, puts, Slot
  <2>2. nget < nput
    BY <1>6, CanFetch DEF cat_write, Goto
  <2> DEFINE g == [i \in nget+1..nput |-> f[i]]
  <2>3. g \in [nget'..nput' -> 0..MaxItems]
    BY <1>0, <1>1, <2>1
  <2>4. \A i \in nget+1..nput : g[i] = f[i]
    OBVIOUS
  <2> HIDE DEF g
  <2>5. nget \in nget..nput-1 /\ nget + 1 \in nget+1..nput /\ nput \in nget+1..nput
    BY <1>0, <2>2
  <2>6. g[nget'] = Len(out')
    <3>1. \/ buff[nget % NBUFF] = ReadFailed /\ f[nget + 1] = f[nget]
          \/ buff[nget % NBUFF] = f[nget] /\ f[nget + 1] = f[nget] + 1
      BY <1>1, <2>5
    <3>2. CASE buff[nget % NBUFF] = ReadFailed
      <4>1. out' = out
        BY <1>6, <3>2 DEF cat_write
      <4>2. f[nget + 1] = f[nget]
        <5>1. f[nget] >= 0
          BY <1>0, <1>1
        <5> QED BY <3>1, <3>2, <5>1 DEF ReadFailed
      <4> QED BY <1>1, <2>1, <2>4, <2>5, <4>1, <4>2
    <3>3. CASE buff[nget % NBUFF] # ReadFailed
      <4>1. out' = Append(out, buff[nget % NBUFF])
        BY <1>6, <3>3 DEF cat_write
      <4>2. buff[nget % NBUFF] \in -2..MaxItems
        BY <1>0, ModType
      <4>3. Len(out') = Len(out) + 1
        BY <1>0, <4>1, <4>2
      <4> QED BY <1>1, <2>1, <2>4, <2>5, <3>1, <3>3, <4>3
    <3> QED BY <3>2, <3>3
  <2>7. \A i \in nget'..nput'-1 :
          \/ buff'[i % NBUFF] = ReadFailed /\ g[i + 1] = g[i]
          \/ buff'[i % NBUFF] = g[i] /\ g[i + 1] = g[i] + 1
    <3> SUFFICES ASSUME NEW i \in nget+1..nput-1
                 PROVE  \/ buff[i % NBUFF] = ReadFailed /\ g[i + 1] = g[i]
                        \/ buff[i % NBUFF] = g[i] /\ g[i + 1] = g[i] + 1
      BY <2>1
    <3>1. i \in nget..nput-1 /\ i \in nget+1..nput /\ i + 1 \in nget+1..nput
      BY <1>0
    <3> QED BY <1>1, <2>4, <3>1
  <2>8. nputval' = g[nput'] + (IF AtNext' /\ Slot' >= 0 THEN 1 ELSE 0)
    BY <1>1, <2>1, <2>4, <2>5
  <2> QED BY <2>3, <2>6, <2>7, <2>8 DEF BlocksInv
<1> QED BY <1>0, <1>3, <1>4, <1>5, <1>6, CatStep

\* The variables of the message log stay in the operations of all programs.
LEMMA LogsStay ==
  ASSUME TypeOK, NEW t \in Threads, Step(t),
         \/ produce_count(t) \/ produce_store(t) \/ produce_post(t)
         \/ consume_fetch(t) \/ consume_count(t)
  PROVE  UNCHANGED logs
<1>1. ~LogStep(t) \/ UNCHANGED logs
  BY DEF produce_count, produce_store, produce_post, consume_fetch, consume_count, LogStep,
         client_slot, client_copy, client_full, client_overflow, client_counted,
         server_overflow, server_unlock, Goto, TypeOK
<1> QED BY <1>1 DEF Step, BufferStep

\* The items are in their places until they are fetched.
LEMMA ItemsKept ==
  ASSUME IInv, NEW t \in Threads, Step(t)
  PROVE  ItemsInv'
<1> SUFFICES ASSUME prog # "mycat2" PROVE ItemsInv'
  <2>1. prog' = prog
    BY StepMoves DEF args
  <2> QED BY <2>1 DEF ItemsInv
<1>0. /\ TypeOK /\ PlaceInv /\ MutexInv /\ prog' = prog /\ (MessageLog <=> MessageLog')
      /\ nput \in Nat /\ nget \in Nat /\ nget <= nput /\ nput - nget <= NBUFF
      /\ NBUFF \in Nat \ {0} /\ MaxItems \in Nat /\ buff \in [0..NBUFF-1 -> -2..MaxItems]
      /\ local \in [Threads -> 0..MaxItems] /\ out \in Seq(-2..MaxItems)
      /\ Producers \subseteq Threads /\ Consumers \subseteq Threads
      /\ Producers \cap Consumers = {} /\ (~MessageLog => Uncopied = {})
  <2>1. nput - nget <= NBUFF
    <3>1. sem["nempty"] + Filling + (nput - nget) + Freeing <= NBUFF /\ sem["nempty"] \in Nat
      BY SemIs DEF IInv, PlacesInv, SemNames
    <3> QED BY <3>1, FlowTypes, ProdConsAssumption, SMTT(20) DEF IInv, TypeOK
  <2>2. /\ nput \in Nat /\ nget \in Nat /\ nget <= nput
        /\ NBUFF \in Nat \ {0} /\ MaxItems \in Nat /\ buff \in [0..NBUFF-1 -> -2..MaxItems]
        /\ local \in [Threads -> 0..MaxItems]
    BY ProdConsAssumption, SMTT(20) DEF IInv, TypeOK, PlacesInv
  <2>3. prog' = prog /\ (MessageLog <=> MessageLog')
    BY StepMoves DEF args, MessageLog
  <2>4. ~MessageLog => Uncopied = {}
    BY DEF Uncopied
  <2> QED BY <2>1, <2>2, <2>3, <2>4, ProdConsAssumption DEF IInv, Threads
<1> DEFINE Late == \E u \in Consumers : pc[u] = "c_count"
           Kept == \A i \in (nget..nput-1) \ Uncopied : buff[i % NBUFF] = i
           Ready == \A u \in Producers : pc[u] = "p_count" => buff[nput % NBUFF] = nput
<1>1. /\ Len(out) = nget + (IF Late THEN 1 ELSE 0)
      /\ ~MayOvertake => Kept
      /\ ~MessageLog => Ready
  BY DEF IInv, ItemsInv
<1>2. ASSUME Len(out') = nget' + (IF Late' THEN 1 ELSE 0), MayOvertake \/ Kept',
             MessageLog \/ Ready'
      PROVE  ItemsInv'
  <2>1. ~MayOvertake' => Kept'
    <3>1. CASE MayOvertake /\ ~MayOvertake'
      <4>1. nput' = 0
        BY <3>1, OvertakeStays
      <4>2. nget' \in Nat
        <5>1. \/ t \in Producers /\ (produce_store(t) \/ produce_count(t) \/ client_copy(t))
              \/ t \in Consumers /\ (consume_fetch(t) \/ consume_count(t))
              \/ ItemIdle(t)
          BY <1>0, PlainStep
        <5>2. nget' \in {nget, nget + 1}
          BY <5>1 DEF produce_store, produce_count, client_copy, consume_fetch,
                      consume_count, ItemIdle, gets
        <5> QED BY <1>0, <5>2
      <4> QED BY <4>1, <4>2
    <3> QED BY <1>2, <3>1
  <2> QED BY <1>0, <1>2, <2>1 DEF ItemsInv
<1>3. ASSUME NEW a, NEW b, Goto(t, a, b)
      PROVE  pc[t] = a /\ \A u \in Threads : pc'[u] = IF u = t THEN b ELSE pc[u]
  BY <1>0, <1>3 DEF Goto, TypeOK
<1>4. CASE produce_store(t) /\ t \in Producers
  <2>1. /\ Goto(t, "p_store", "p_count") /\ ~MessageLog
        /\ UNCHANGED <<nput, nget, out>>
        /\ buff' = [buff EXCEPT ![nput % NBUFF] = nput]
    BY <1>4 DEF produce_store, gets, IInv, NputInv
  <2>2. pc[t] = "p_store" /\ \A u \in Threads : pc'[u] = IF u = t THEN "p_count" ELSE pc[u]
    BY <1>3, <2>1
  <2>3. Late' <=> Late
    BY <1>0, <1>4, <2>2
  <2>4. nput % NBUFF \in 0..NBUFF-1 /\ \A i \in nget..nput-1 :
           i % NBUFF \in 0..NBUFF-1 /\ i % NBUFF # nput % NBUFF
    BY <1>4, <2>2, FreeSlot
  <2>5. Kept'
    BY <1>0, <1>1, <2>1, <2>4 DEF MayOvertake
  <2>6. Ready'
    BY <1>0, <2>1, <2>4
  <2> QED BY <1>1, <1>2, <2>1, <2>3, <2>5, <2>6
<1>5. CASE produce_count(t) /\ t \in Producers
  <2>1. /\ Goto(t, "p_count", "p_post") /\ nput' = nput + 1 /\ UNCHANGED <<buff, nget, out>>
    BY <1>5 DEF produce_count, gets
  <2>2. pc[t] = "p_count" /\ \A u \in Threads : pc'[u] = IF u = t THEN "p_post" ELSE pc[u]
    BY <1>3, <2>1
  <2>3. Late' <=> Late
    BY <1>0, <1>5, <2>2
  <2>4. local' = local
    BY <1>0, <1>5, LogsStay DEF logs
  <2>5. MayOvertake \/ Kept'
    <3>1. CASE MessageLog
      <4>1. local[t] = nput
        BY <1>5, <2>2, <3>1 DEF IInv, LogInv
      <4>2. Uncopied' = Uncopied \cup {nput}
        BY <1>0, <1>5, <2>2, <2>4, <3>1, <4>1 DEF Uncopied
      <4>3. \A i \in (nget'..nput'-1) \ Uncopied' : i \in (nget..nput-1) \ Uncopied
        BY <1>0, <2>1, <4>2
      <4> QED BY <1>1, <2>1, <4>3
    <3>2. CASE ~MessageLog
      <4>1. buff[nput % NBUFF] = nput /\ Kept
        BY <1>1, <1>5, <2>2, <3>2 DEF MayOvertake
      <4>2. \A i \in nget'..nput'-1 : i \in nget..nput-1 \/ i = nput
        BY <1>0, <2>1
      <4> QED BY <1>0, <2>1, <3>2, <4>1, <4>2
    <3> QED BY <3>1, <3>2
  <2>6. \A u \in Producers : pc'[u] # "p_count"
    BY <1>0, <1>5, <2>2, OnlyOneInside
  <2> QED BY <1>1, <1>2, <2>1, <2>3, <2>5, <2>6
<1>6. CASE client_copy(t) /\ t \in Producers
  <2>1. /\ Goto(t, "p_post", "p_copied") /\ MessageLog /\ UNCHANGED <<nput, nget, out, local>>
        /\ buff' = [buff EXCEPT ![local[t] % NBUFF] = local[t]]
    BY <1>6 DEF client_copy, gets, logs
  <2>2. pc[t] = "p_post" /\ \A u \in Threads : pc'[u] = IF u = t THEN "p_copied" ELSE pc[u]
    BY <1>3, <2>1
  <2>3. Late' <=> Late
    BY <1>0, <1>6, <2>2
  <2>4. MayOvertake \/ Kept'
    <3> SUFFICES ASSUME ~MayOvertake, NEW i \in (nget..nput-1) \ Uncopied'
                 PROVE  buff'[i % NBUFF] = i
      BY <2>1
    <3>1. local[t] = nput - 1 /\ local[t] \in Nat /\ local[t] % NBUFF \in 0..NBUFF-1
      <4>1. local[t] = nput - 1
        BY <1>6, <2>1, <2>2 DEF IInv, LogInv
      <4>2. local[t] \in Nat
        BY <1>0, <1>6
      <4> QED BY <4>1, <4>2, ModType
    <3>2. i \in Nat /\ i % NBUFF \in 0..NBUFF-1
      BY <1>0, ModType
    <3>3. CASE i = local[t]
      BY <1>0, <2>1, <3>1, <3>3
    <3>4. CASE i # local[t]
      <4>1. i % NBUFF # local[t] % NBUFF
        <5>1. i < local[t] /\ local[t] < i + NBUFF
          BY <1>0, <3>1, <3>4
        <5> QED BY <3>1, <3>2, <5>1, ModApart
      <4>2. i \notin Uncopied
        <5> SUFFICES ASSUME NEW u \in Producers, pc[u] = "p_post", i = local[u]
                     PROVE  FALSE
          BY DEF Uncopied
        <5>1. u # t /\ pc'[u] = "p_post" /\ local'[u] = i
          BY <1>0, <2>1, <2>2, <3>4
        <5>2. i \in Uncopied'
          BY <1>0, <2>1, <5>1 DEF Uncopied
        <5> QED BY <5>2
      <4> QED BY <1>0, <1>1, <2>1, <3>1, <3>2, <4>1, <4>2
    <3> QED BY <3>3, <3>4
  <2> QED BY <1>1, <1>2, <2>1, <2>3, <2>4
<1>7. CASE consume_fetch(t) /\ t \in Consumers
  <2>1. /\ Goto(t, "c_fetch", "c_count") /\ UNCHANGED <<buff, nput, nget>>
        /\ out' = Append(out, buff[nget % NBUFF])
    BY <1>7 DEF consume_fetch, puts
  <2>2. pc[t] = "c_fetch" /\ \A u \in Threads : pc'[u] = IF u = t THEN "c_count" ELSE pc[u]
    BY <1>3, <2>1
  <2>3. ~Late /\ Late'
    BY <1>0, <1>7, <2>2, OnlyOneInside
  <2>4. Len(out') = Len(out) + 1
    <3>1. buff[nget % NBUFF] \in -2..MaxItems
      BY <1>0, ModType
    <3> QED BY <1>0, <2>1, <3>1
  <2>5. Uncopied' = Uncopied
    BY <1>0, <1>7, <2>2, LogsStay DEF Uncopied, logs
  <2>6. \A u \in Producers : pc'[u] = pc[u]
    BY <1>0, <1>7, <2>2
  <2>7. Len(out') = nget' + (IF Late' THEN 1 ELSE 0)
    BY <1>0, <1>1, <2>1, <2>3, <2>4
  <2>8. MayOvertake \/ Kept'
    BY <1>1, <2>1, <2>5
  <2>9. MessageLog \/ Ready'
    BY <1>1, <2>1, <2>6
  <2> QED BY <1>2, <2>7, <2>8, <2>9
<1>8. CASE consume_count(t) /\ t \in Consumers
  <2>1. /\ Goto(t, "c_count", "c_post") /\ nget' = nget + 1 /\ UNCHANGED <<buff, nput, out>>
    BY <1>8 DEF consume_count, puts
  <2>2. pc[t] = "c_count" /\ \A u \in Threads : pc'[u] = IF u = t THEN "c_post" ELSE pc[u]
    BY <1>3, <2>1
  <2>3. Late /\ ~Late'
    BY <1>0, <1>8, <2>2, OnlyOneInside
  <2>4. Uncopied' = Uncopied
    BY <1>0, <1>8, <2>2, LogsStay DEF Uncopied, logs
  <2>5. \A u \in Producers : pc'[u] = pc[u]
    BY <1>0, <1>8, <2>2
  <2>6. \A i \in nget'..nput'-1 : i \in nget..nput-1
    BY <1>0, <2>1
  <2>7. Len(out') = nget' + (IF Late' THEN 1 ELSE 0)
    BY <1>0, <1>1, <2>1, <2>3
  <2>8. MayOvertake \/ Kept'
    BY <1>1, <2>1, <2>4, <2>6
  <2>9. MessageLog \/ Ready'
    BY <1>1, <2>1, <2>5
  <2> QED BY <1>2, <2>7, <2>8, <2>9
<1>9. CASE ItemIdle(t)
  <2>1. PICK a \in Places, b \in Places :
          /\ Goto(t, a, b) /\ a # "c_count" /\ b # "c_count" /\ b # "p_post"
          /\ MessageLog => a # "p_post"
          /\ b = "p_count" => MessageLog
    BY <1>9 DEF ItemIdle
  <2>2. /\ pc[t] = a /\ \A u \in Threads : pc'[u] = IF u = t THEN b ELSE pc[u]
        /\ UNCHANGED <<buff, nput, nget, out>>
    BY <1>3, <1>9, <2>1 DEF ItemIdle
  <2>3. Late' <=> Late
    BY <1>0, <2>1, <2>2
  <2>4. Uncopied' = Uncopied
    BY <1>0, <1>9, <2>1, <2>2 DEF Uncopied, ItemIdle
  <2>5. MessageLog \/ Ready'
    BY <1>0, <1>1, <2>1, <2>2
  <2> QED BY <1>1, <1>2, <2>2, <2>3, <2>4, <2>5
<1> QED BY <1>0, <1>4, <1>5, <1>6, <1>7, <1>8, <1>9, PlainStep

\* A message that is next to be fetched has been copied.
LEMMA NextIsCopied ==
  ASSUME IInv, ~MayOvertake, NEW t \in Consumers,
         pc[t] = "c_fetch", prog # "mycat2", ~(ManyConsumers /\ nget >= nitems)
  PROVE  nget \in (nget..nput-1) \ Uncopied
<1>1. nget < nput /\ nget \in Nat /\ nput \in Nat
  BY CanFetch, ProdConsAssumption DEF IInv, TypeOK
<1>2. ASSUME NEW u \in Producers, MessageLog, pc[u] = "p_post", local[u] = nget PROVE FALSE
  <2>1. nget = nput - 1
    BY <1>2 DEF IInv, LogInv
  <2>2. Fetching >= 1 /\ Posting >= 1 /\ Fetching \in Nat /\ Posting \in Nat
    <3>1. Producers \in SUBSET Threads /\ Consumers \in SUBSET Threads
      BY DEF Threads
    <3>2. Fetching >= 1
      BY <3>1, AtSome DEF Fetching
    <3>3. Posting >= 1
      BY <1>2, <3>1, AtSome DEF Posting
    <3> QED BY <3>2, <3>3, FlowTypes
  <2>3. nget + sem["nstored"] + Fetching + Posting <= nput
    BY <1>1, <1>2 DEF IInv, TokensInv, MessageLog, ManyConsumers, Ended
  <2>4. sem["nstored"] \in Nat
    BY SemIs DEF IInv, SemNames
  <2> QED BY <1>1, <2>1, <2>2, <2>3, <2>4
<1>3. nget \notin Uncopied
  BY <1>2 DEF Uncopied
<1> QED BY <1>1, <1>3

\* What is printed is in order.
LEMMA InOrderKept ==
  ASSUME IInv, NEW t \in Threads, Step(t)
  PROVE  InOrder'
<1>0. /\ TypeOK /\ PlaceInv /\ out \in Seq(-2..MaxItems) /\ nget \in Nat /\ nput \in Nat
      /\ buff \in [0..NBUFF-1 -> -2..MaxItems] /\ nget % NBUFF \in 0..NBUFF-1
      /\ Producers \cap Consumers = {} /\ Consumers \subseteq Threads
  <2>1. nget \in Nat /\ nput \in Nat /\ buff \in [0..NBUFF-1 -> -2..MaxItems]
    BY ProdConsAssumption DEF IInv, TypeOK
  <2> QED BY <2>1, ModType, ProdConsAssumption DEF IInv, Threads
<1>1. CASE MayOvertake /\ ~MayOvertake'
  BY <1>1, OvertakeStays DEF InOrder
<1>2. CASE MayOvertake /\ MayOvertake'
  BY <1>2 DEF InOrder
<1>3. CASE ~MayOvertake
  <2>1. \A i \in DOMAIN out : out[i] = i - 1
    BY <1>3 DEF IInv, InOrder
  <2>2. ASSUME out' = Append(out, Len(out)) PROVE InOrder'
    <3>1. Len(out) \in Nat /\ DOMAIN out = 1..Len(out)
      BY <1>0
    <3>2. /\ DOMAIN out' = 1..Len(out)+1
          /\ \A i \in 1..Len(out) : out'[i] = out[i]
          /\ out'[Len(out) + 1] = Len(out)
      BY <1>0, <2>2, <3>1
    <3> QED BY <2>1, <3>1, <3>2 DEF InOrder
  <2>3. CASE out' = out
    BY <2>1, <2>3 DEF InOrder
  <2>4. CASE consume_fetch(t)
    <3>1. /\ t \in Consumers /\ pc[t] = "c_fetch" /\ out' = Append(out, buff[nget % NBUFF])
          /\ prog # "mycat2" /\ ~(ManyConsumers /\ nget >= nitems)
      BY <1>0, <2>4, ConsumerFlows DEF consume_fetch, Goto
    <3>2. buff[nget % NBUFF] = nget
      BY <1>3, <3>1, NextIsCopied DEF IInv, ItemsInv
    <3>3. ~\E u \in Consumers : pc[u] = "c_count"
      BY <1>0, <3>1, OnlyOneInside DEF IInv
    <3>4. Len(out) = nget
      BY <1>0, <3>1, <3>3 DEF IInv, ItemsInv
    <3> QED BY <2>2, <3>1, <3>2, <3>4
  <2>5. CASE cat_write(t)
    <3>1. /\ t \in Consumers /\ pc[t] = "c_write" /\ buff[nget % NBUFF] # EndOfFile
          /\ out' = IF buff[nget % NBUFF] = ReadFailed THEN out
                    ELSE Append(out, buff[nget % NBUFF])
      BY <1>0, <2>5, ConsumerFlows DEF cat_write, Goto
    <3>2. prog = "mycat2" /\ nget < nput
      BY <3>1, <1>0, CanFetch DEF PlaceInv
    <3>3. buff[nget % NBUFF] = ReadFailed \/ buff[nget % NBUFF] = Len(out)
      <4>1. nget \in nget..nput-1
        BY <1>0, <3>2
      <4> QED BY <3>2, <4>1 DEF IInv, BlocksInv
    <3> QED BY <2>2, <2>3, <3>1, <3>3
  <2>6. CASE ~consume_fetch(t) /\ ~cat_write(t)
    <3>1. out' = out
      <4>1. CASE prog = "mycat2"
        BY <1>0, <2>6, <4>1, CatStep DEF cat_read, cat_eof, cat_next, CatIdle, gets
      <4>2. CASE prog # "mycat2"
        BY <1>0, <2>6, <4>2, PlainStep
           DEF produce_store, produce_count, client_copy, consume_count, ItemIdle, gets
      <4> QED BY <4>1, <4>2
    <3> QED BY <2>3, <3>1
  <2> QED BY <2>4, <2>5, <2>6
<1> QED BY <1>1, <1>2, <1>3

\* No step overwrites an item that is stored and not yet fetched.
LEMMA UnreadStep ==
  ASSUME IInv, NEW t \in Threads, Step(t), ~MayOvertake,
         NEW i \in (nget..nput-1) \ Uncopied
  PROVE  buff'[i % NBUFF] = buff[i % NBUFF]
<1>0. /\ TypeOK /\ PlaceInv /\ nget \in Nat /\ nput \in Nat /\ i \in Nat
      /\ nput - nget <= NBUFF /\ NBUFF \in Nat
      /\ buff \in [0..NBUFF-1 -> -2..MaxItems] /\ local \in [Threads -> 0..MaxItems]
      /\ Producers \subseteq Threads /\ i < nput /\ nget <= i
  <2>1. /\ nget \in Nat /\ nput \in Nat /\ buff \in [0..NBUFF-1 -> -2..MaxItems]
        /\ local \in [Threads -> 0..MaxItems] /\ NBUFF \in Nat
    BY ProdConsAssumption DEF IInv, TypeOK
  <2>2. sem["nempty"] + Filling + (nput - nget) + Freeing <= NBUFF /\ sem["nempty"] \in Nat
    BY SemIs DEF IInv, PlacesInv, SemNames
  <2>3. nput - nget <= NBUFF
    BY <2>1, <2>2, FlowTypes
  <2> QED BY <2>1, <2>3 DEF IInv, Threads
<1>1. CASE /\ t \in Producers /\ pc[t] \in {"p_store", "p_read"}
           /\ \E n : buff' = [buff EXCEPT ![nput % NBUFF] = n]
  BY <1>0, <1>1, FreeSlot
<1>2. CASE client_copy(t)
  <2>1. /\ t \in Producers /\ MessageLog /\ pc[t] = "p_post"
        /\ buff' = [buff EXCEPT ![local[t] % NBUFF] = local[t]]
    BY <1>0, <1>2, ProducerFlows DEF client_copy, Goto
  <2>2. local[t] = nput - 1 /\ local[t] \in Uncopied /\ local[t] \in Nat
    <3>1. local[t] = nput - 1
      BY <2>1 DEF IInv, LogInv
    <3> QED BY <1>0, <2>1, <3>1 DEF Uncopied
  <2>3. i < local[t] /\ local[t] < i + NBUFF
    BY <1>0, <2>2
  <2>4. i % NBUFF # local[t] % NBUFF
    BY <1>0, <2>2, <2>3, ModApart
  <2> QED BY <1>0, <2>1, <2>2, <2>4, ModType
<1>3. CASE buff' = buff
  BY <1>3
<1>4. CASE prog = "mycat2"
  <2>1. cat_read(t) => t \in Producers /\ pc[t] \in {"p_store", "p_read"}
                       /\ \E n : buff' = [buff EXCEPT ![nput % NBUFF] = n]
    BY <1>0, ProducerFlows DEF cat_read, Goto
  <2> QED BY <1>0, <1>1, <1>3, <1>4, <2>1, CatStep
          DEF cat_eof, cat_next, cat_write, CatIdle, puts
<1>5. CASE prog # "mycat2"
  <2>1. produce_store(t) => t \in Producers /\ pc[t] \in {"p_store", "p_read"}
                            /\ \E n : buff' = [buff EXCEPT ![nput % NBUFF] = n]
    BY <1>0, ProducerFlows DEF produce_store, Goto
  <2> QED BY <1>0, <1>1, <1>2, <1>3, <1>5, <2>1, PlainStep
          DEF produce_count, consume_fetch, consume_count, ItemIdle, puts
<1> QED BY <1>4, <1>5
-----------------------------------------------------------------------------
(* The message log.                                                        *)

\* The operations of the message log that neither take a place, nor count a
\* message.
LogIdle(t) ==
  /\ UNCHANGED <<nput, noverflow, count>>
  /\ \A u \in Producers : local'[u] = local[u]
  /\ \E a, b \in Places :
       /\ Goto(t, a, b) /\ a \notin {"p_post", "p_copied"}
       /\ b \notin {"p_count", "p_post", "p_copied", "p_over"}

\* What client2 and server2 do.
LEMMA MessageStep ==
  ASSUME TypeOK, PlaceInv, MessageLog, NEW t \in Threads, Step(t)
  PROVE  \/ /\ t \in Producers
            /\ \/ produce_count(t) \/ produce_post(t) \/ client_copy(t)
               \/ client_slot(t) \/ client_overflow(t) \/ client_counted(t)
         \/ LogIdle(t)
<1>0. /\ local \in [Threads -> 0..MaxItems] /\ Producers \subseteq Threads
      /\ Producers \cap Consumers = {} /\ prog # "mycat2" /\ ~AllPut /\ ~ManyConsumers
  BY ProdConsAssumption
     DEF TypeOK, Threads, MessageLog, AllPut, ManyProducers, ManyConsumers
<1>1. /\ produce_count(t) \/ produce_post(t) \/ client_copy(t) => t \in Producers
      /\ client_slot(t) \/ client_overflow(t) \/ client_counted(t) => t \in Producers
  BY ProducerFlows
<1>2. ~produce_all_done(t) /\ ~produce_store(t) /\ ~consume_all_done(t)
      /\ ~cat_unlock(t) /\ ~cat_consume_unlock(t) /\ ~cat_read(t)
      /\ ~cat_eof(t) /\ ~cat_next(t) /\ ~cat_stop(t) /\ ~cat_write(t)
  BY <1>0 DEF produce_all_done, produce_store, consume_all_done, cat_unlock,
              cat_consume_unlock, cat_read, cat_eof, cat_next, cat_stop, cat_write,
              Goto, PlaceInv
<1> USE DEF Places, ProducerPlaces, ConsumerPlaces, puts, gets, logs
<1> DEFINE Move == \E a, b \in Places :
                     /\ Goto(t, a, b) /\ a \notin {"p_post", "p_copied"}
                     /\ b \notin {"p_count", "p_post", "p_copied", "p_over"}
<1>3. CASE /\ produce_wait(t) \/ produce_return(t) \/ produce_lock(t)
           /\ BufferStep(t)
  <2>1. UNCHANGED <<nput, noverflow, count, local>>
    BY <1>3 DEF produce_wait, produce_return, produce_lock, BufferStep
  <2>2. Move
    BY <1>3 DEF produce_wait, produce_return, produce_lock
  <2> QED BY <2>1, <2>2 DEF LogIdle
<1>4. CASE /\ \/ consume_wait(t) \/ consume_return(t) \/ consume_lock(t)
              \/ consume_fetch(t) \/ consume_count(t) \/ consume_post(t)
           /\ BufferStep(t)
  <2>1. UNCHANGED <<nput, noverflow, local>>
    BY <1>4 DEF consume_wait, consume_return, consume_lock, consume_fetch,
                consume_count, consume_post, BufferStep
  <2>2. Move
    BY <1>4 DEF consume_wait, consume_return, consume_lock, consume_fetch,
                consume_count, consume_post
  <2>3. UNCHANGED count
    <3>1. consume_post(t) => t \notin Producers
      BY <1>0, ConsumerFlows
    <3> QED BY <1>0, <1>4, <3>1 DEF consume_wait, consume_return, consume_lock,
               consume_fetch, consume_count, consume_post, Counted
  <2> QED BY <2>1, <2>2, <2>3 DEF LogIdle
<1>5. CASE client_full(t) \/ server_unlock(t)
  <2>1. UNCHANGED <<nput, noverflow, count, local>>
    BY <1>5 DEF client_full, server_unlock
  <2>2. Move
    BY <1>5 DEF client_full, server_unlock
  <2> QED BY <2>1, <2>2 DEF LogIdle
<1>6. CASE server_overflow(t)
  <2>1. t \notin Producers
    BY <1>0, <1>6, ConsumerFlows
  <2>2. UNCHANGED <<nput, noverflow, count>> /\ \A u \in Producers : local'[u] = local[u]
    BY <1>0, <1>6, <2>1 DEF server_overflow
  <2>3. Move
    BY <1>6 DEF server_overflow
  <2> QED BY <2>2, <2>3 DEF LogIdle
<1> QED BY <1>1, <1>2, <1>3, <1>4, <1>5, <1>6 DEF Step, BufferStep, LogStep

\* Two threads cannot both be clients when none may pass another.
LEMMA OnlyClient ==
  ASSUME MessageLog, ~MayOvertake, NEW t \in Clients, NEW u \in Clients
  PROVE  u = t
<1> SUFFICES ASSUME u # t PROVE FALSE
  OBVIOUS
<1>1. IsFiniteSet({t}) /\ Cardinality({t}) = 1
  BY FS_Singleton
<1>2. Cardinality({t} \cup {u}) = 2 /\ IsFiniteSet({t} \cup {u})
  BY <1>1, FS_AddElement
<1>3. {t} \cup {u} \subseteq Clients
  OBVIOUS
<1>4. Cardinality({t} \cup {u}) <= Cardinality(Clients)
  BY <1>3, ClientsFinite, FS_Subset
<1> QED BY <1>2, <1>4, ClientsFinite DEF MayOvertake

\* There are as many messages with a place or overflowed as the pairs say, when
\* none begins and when one does.
LEMMA BegunKept ==
  ASSUME IInv, MessageLog, NEW t \in Threads, Step(t)
  PROVE  nput' + noverflow' = Cardinality(Begun')
<1>0. /\ TypeOK /\ PlaceInv /\ MessageLog' /\ Producers \subseteq Threads
      /\ nput \in Nat /\ noverflow \in Nat /\ nitems' = nitems /\ nitems \in Nat
      /\ nput + noverflow = Cardinality(Begun) /\ count \in [Threads -> Nat]
  <2>1. /\ nput \in Nat /\ noverflow \in Nat /\ nitems \in Nat
        /\ count \in [Threads -> Nat]
    BY ProdConsAssumption DEF IInv, TypeOK
  <2> QED BY <2>1, StepMoves DEF IInv, LogInv, MessageLog, args, Threads
<1>1. IsFiniteSet(Begun)
  <2>1. IsFiniteSet(Producers \X (0..nitems-1))
    <3>1. nitems - 1 \in Int /\ 0 \in Int
      BY <1>0
    <3>2. IsFiniteSet(0..nitems-1)
      BY <3>1, FS_Interval, Zenon
    <3> QED BY <3>2, ProdConsAssumption, FS_Product
  <2> QED BY <2>1, FS_Subset DEF Begun
<1> DEFINE At2(u) == pc[u] \in {"p_post", "p_copied"}
<1>2. ASSUME UNCHANGED <<nput, noverflow>>,
             \A u \in Producers :
               \A i \in 0..nitems-1 : (i < count'[u] \/ (i = count'[u] /\ At2(u)'))
                                  <=> (i < count[u] \/ (i = count[u] /\ At2(u)))
      PROVE  nput' + noverflow' = Cardinality(Begun')
  <2>1. Begun' = Begun
    BY <1>0, <1>2 DEF Begun
  <2> QED BY <1>0, <1>2, <2>1
<1>3. ASSUME nput' + noverflow' = nput + noverflow + 1, t \in Producers,
             count[t] < nitems, ~At2(t),
             \A u \in Producers : \A i \in 0..nitems-1 :
               (i < count'[u] \/ (i = count'[u] /\ At2(u)'))
                 <=> (i < count[u] \/ (i = count[u] /\ At2(u)) \/ (u = t /\ i = count[t]))
      PROVE  nput' + noverflow' = Cardinality(Begun')
  <2>1. count[t] \in 0..nitems-1
    BY <1>0, <1>3
  <2>2. Begun' = Begun \cup {<<t, count[t]>>}
    BY <1>0, <1>3, <2>1 DEF Begun
  <2>3. <<t, count[t]>> \notin Begun
    BY <1>0, <1>3, <2>1 DEF Begun
  <2> HIDE DEF At2
  <2>4. Cardinality(Begun \cup {<<t, count[t]>>}) = Cardinality(Begun) + 1
    BY <1>1, <2>3, FS_AddElement
  <2> QED BY <1>0, <1>3, <2>2, <2>4
<1>4. ASSUME NEW a, NEW b, Goto(t, a, b)
      PROVE  pc[t] = a /\ \A u \in Threads : pc'[u] = IF u = t THEN b ELSE pc[u]
  BY <1>0, <1>4 DEF Goto, TypeOK
<1>5. CASE produce_count(t) /\ t \in Producers
  <2>1. /\ Goto(t, "p_count", "p_post") /\ nput' = nput + 1 /\ count' = count
        /\ noverflow' = noverflow
    BY <1>0, <1>5, LogsStay DEF produce_count, logs
  <2>2. pc[t] = "p_count" /\ \A u \in Threads : pc'[u] = IF u = t THEN "p_post" ELSE pc[u]
    BY <1>4, <2>1
  <2>3. count[t] < nitems
    BY <1>5, <2>2 DEF IInv, CountInv
  <2>4. \A u \in Producers : \A i \in 0..nitems-1 :
               (i < count'[u] \/ (i = count'[u] /\ At2(u)'))
                 <=> (i < count[u] \/ (i = count[u] /\ At2(u)) \/ (u = t /\ i = count[t]))
    BY <1>0, <2>1, <2>2
  <2> QED BY <1>0, <1>3, <1>5, <2>1, <2>2, <2>3, <2>4
<1>6. CASE client_counted(t) /\ t \in Producers
  <2>1. /\ Goto(t, "p_over", "produce") /\ nput' = nput /\ noverflow' = local[t] + 1
        /\ count' = [count EXCEPT ![t] = @ + 1]
    BY <1>0, <1>6 DEF client_counted, puts, Counted
  <2>2. pc[t] = "p_over" /\ \A u \in Threads : pc'[u] = IF u = t THEN "produce" ELSE pc[u]
    BY <1>4, <2>1
  <2>3. count[t] < nitems /\ local[t] = noverflow
    BY <1>6, <2>2 DEF IInv, CountInv, LogInv
  <2>4. \A u \in Producers : \A i \in 0..nitems-1 :
               (i < count'[u] \/ (i = count'[u] /\ At2(u)'))
                 <=> (i < count[u] \/ (i = count[u] /\ At2(u)) \/ (u = t /\ i = count[t]))
    BY <1>0, <2>1, <2>2
  <2> QED BY <1>0, <1>3, <1>6, <2>1, <2>2, <2>3, <2>4
<1>7. CASE produce_post(t) /\ t \in Producers
  <2>1. /\ Goto(t, "p_copied", "produce") /\ nput' = nput /\ noverflow' = noverflow
        /\ count' = [count EXCEPT ![t] = @ + 1]
    BY <1>0, <1>7, LogsStay DEF produce_post, puts, Counted, logs
  <2>2. pc[t] = "p_copied" /\ \A u \in Threads : pc'[u] = IF u = t THEN "produce" ELSE pc[u]
    BY <1>4, <2>1
  <2> QED BY <1>0, <1>2, <2>1, <2>2
<1>8. CASE (client_copy(t) \/ client_slot(t) \/ client_overflow(t)) /\ t \in Producers
  <2>1. UNCHANGED <<nput, noverflow, count>>
    BY <1>8 DEF client_copy, client_slot, client_overflow, puts, logs
  <2>2. PICK a, b :
          Goto(t, a, b) /\ (a \in {"p_post", "p_copied"} <=> b \in {"p_post", "p_copied"})
    BY <1>8 DEF client_copy, client_slot, client_overflow
  <2>3. \A u \in Producers : At2(u)' <=> At2(u)
    BY <1>0, <1>4, <2>2
  <2> QED BY <1>2, <2>1, <2>3
<1>9. CASE LogIdle(t)
  <2>1. UNCHANGED <<nput, noverflow, count>>
    BY <1>9 DEF LogIdle
  <2>2. PICK a, b :
          Goto(t, a, b) /\ (a \in {"p_post", "p_copied"} <=> b \in {"p_post", "p_copied"})
    BY <1>9 DEF LogIdle
  <2>3. \A u \in Producers : At2(u)' <=> At2(u)
    BY <1>0, <1>4, <2>2
  <2> QED BY <1>2, <2>1, <2>3
<1> QED BY <1>0, <1>5, <1>6, <1>7, <1>8, <1>9, MessageStep

\* The message log keeps account of its messages.
LEMMA LogKept ==
  ASSUME IInv, NEW t \in Threads, Step(t)
  PROVE  LogInv'
<1>0. /\ TypeOK /\ PlaceInv /\ LogInv /\ MutexInv /\ (MessageLog <=> MessageLog')
      /\ Producers \subseteq Threads
      /\ nput \in Nat /\ noverflow \in Nat /\ nitems' = nitems /\ nitems \in Nat
      /\ local \in [Threads -> Nat] /\ MaxItems \in Nat
  <2>1. /\ nput \in Nat /\ noverflow \in Nat /\ nitems \in Nat /\ MaxItems \in Nat
        /\ local \in [Threads -> Nat]
    BY ProdConsAssumption DEF IInv, TypeOK
  <2> QED BY <2>1, StepMoves DEF IInv, MessageLog, args, Threads
<1>1. CASE ~MessageLog
  <2>1. noverflow = 0 /\ pc[t] # "p_over"
    BY <1>0, <1>1 DEF LogInv, PlaceInv
  <2>2. ~client_counted(t)
    BY <2>1 DEF client_counted, Goto
  <2>3. noverflow' = noverflow
    <3>1. LogStep(t) => noverflow' = noverflow
      BY <2>2 DEF LogStep, client_slot, client_copy, client_full, client_overflow,
                  server_overflow, server_unlock, logs
    <3> QED BY <3>1 DEF Step, BufferStep, logs
  <2> QED BY <1>0, <1>1, <2>1, <2>3 DEF LogInv
<1>2. CASE MessageLog
  <2>1. nitems' * Cardinality(Clients') <= MaxItems
    <3>1. Clients' \subseteq Clients
      BY <1>2, ClientsStay
    <3>2. /\ Cardinality(Clients') <= Cardinality(Clients) /\ Cardinality(Clients) \in Nat
          /\ Cardinality(Clients') \in Nat
      BY <3>1, ClientsFinite, FS_Subset, FS_CardinalityType
    <3>3. nitems * Cardinality(Clients) <= MaxItems
      BY <1>0, <1>2 DEF LogInv
    <3> DEFINE c == Cardinality(Clients)
               d == Cardinality(Clients')
               k == c - d
    <3>4. k \in Nat /\ d \in Nat /\ c = d + k /\ nitems * c <= MaxItems
      BY <3>2, <3>3
    <3> HIDE DEF c, d, k
    <3>5. nitems * c = nitems * d + nitems * k /\ nitems * k \in Nat /\ nitems * d \in Nat
      BY <1>0, <3>4
    <3>6. nitems * d <= MaxItems
      BY <1>0, <3>4, <3>5
    <3> QED BY <1>0, <3>6 DEF d
  <2>2. nput' + noverflow' = Cardinality(Begun')
    BY <1>2, BegunKept
  <2> DEFINE Places4(u) ==
        /\ pc[u] = "p_count" => local[u] = nput
        /\ pc[u] = "p_over" => local[u] = noverflow
        /\ pc[u] = "p_post" => local[u] < nput
      Last(u) == pc[u] = "p_post" /\ ~MayOvertake => local[u] = nput - 1
  <2>3. \A u \in Producers : Places4(u) /\ Last(u)
    BY <1>0, <1>2 DEF LogInv
  <2>4. ASSUME NEW a, NEW b, Goto(t, a, b)
        PROVE  pc[t] = a /\ \A u \in Threads : pc'[u] = IF u = t THEN b ELSE pc[u]
    BY <1>0, <2>4 DEF Goto, TypeOK
  <2>5. ASSUME NEW u \in Producers PROVE Places4(u)'
    <3>1. CASE produce_count(t) /\ t \in Producers
      <4>1. /\ Goto(t, "p_count", "p_post") /\ nput' = nput + 1 /\ UNCHANGED logs
        BY <1>0, <3>1, LogsStay DEF produce_count
      <4>2. pc[t] = "p_count" /\ \A v \in Threads : pc'[v] = IF v = t THEN "p_post" ELSE pc[v]
        BY <2>4, <4>1
      <4>3. pc'[u] # "p_count"
        BY <1>0, <3>1, <4>2, OnlyOneInside
      <4> QED BY <1>0, <2>3, <4>1, <4>2, <4>3 DEF logs
    <3>2. CASE client_counted(t) /\ t \in Producers
      <4>1. /\ Goto(t, "p_over", "produce") /\ UNCHANGED <<nput, local>>
        BY <3>2 DEF client_counted, puts
      <4>2. pc[t] = "p_over" /\ \A v \in Threads : pc'[v] = IF v = t THEN "produce" ELSE pc[v]
        BY <2>4, <4>1
      <4>3. pc'[u] # "p_over"
        BY <1>0, <3>2, <4>2 DEF MutexInv, OnlyOne
      <4> QED BY <1>0, <2>3, <4>1, <4>2, <4>3
    <3>3. CASE produce_post(t) /\ t \in Producers
      <4>1. /\ Goto(t, "p_copied", "produce") /\ UNCHANGED <<nput, logs>>
        BY <1>0, <1>2, <3>3, LogsStay DEF produce_post, puts
      <4> QED BY <1>0, <2>3, <2>4, <4>1 DEF logs
    <3>4. CASE client_copy(t) /\ t \in Producers
      <4>1. /\ Goto(t, "p_post", "p_copied") /\ UNCHANGED <<nput, logs>>
        BY <3>4 DEF client_copy
      <4> QED BY <1>0, <2>3, <2>4, <4>1 DEF logs
    <3>5. CASE client_slot(t) /\ t \in Producers
      <4>1. /\ Goto(t, "p_store", "p_count") /\ UNCHANGED <<nput, noverflow>>
            /\ local' = [local EXCEPT ![t] = nput]
        BY <3>5 DEF client_slot, puts
      <4> QED BY <1>0, <2>3, <2>4, <4>1
    <3>6. CASE client_overflow(t) /\ t \in Producers
      <4>1. /\ Goto(t, "p_full", "p_over") /\ UNCHANGED <<nput, noverflow>>
            /\ local' = [local EXCEPT ![t] = noverflow]
        BY <3>6 DEF client_overflow, puts
      <4> QED BY <1>0, <2>3, <2>4, <4>1
    <3>7. CASE LogIdle(t)
      BY <1>0, <2>3, <2>4, <3>7 DEF LogIdle
    <3> QED BY <1>0, <1>2, <3>1, <3>2, <3>3, <3>4, <3>5, <3>6, <3>7, MessageStep
  <2>6. ASSUME NEW u \in Producers, pc'[u] = "p_post", ~MayOvertake'
        PROVE  local'[u] = nput' - 1
    <3>1. ~MayOvertake
      <4> SUFFICES ASSUME MayOvertake PROVE FALSE
        OBVIOUS
      <4>1. nput' = 0 /\ local'[u] < nput'
        BY <2>5, <2>6, OvertakeStays
      <4>2. local'[u] \in Nat
        <5>1. \/ local'[u] = local[u] \/ local'[u] = nput \/ local'[u] = noverflow
          BY <1>0 DEF Step, BufferStep, LogStep, logs, client_slot, client_copy,
             client_full, client_overflow, client_counted, server_overflow, server_unlock
        <5> QED BY <1>0, <5>1
      <4> QED BY <4>1, <4>2
    <3>2. CASE produce_count(t) /\ t \in Producers
      <4>1. /\ Goto(t, "p_count", "p_post") /\ nput' = nput + 1 /\ UNCHANGED logs
        BY <1>0, <3>2, LogsStay DEF produce_count
      <4>2. pc[t] = "p_count" /\ pc'[u] = IF u = t THEN "p_post" ELSE pc[u]
        BY <1>0, <2>4, <4>1
      <4>3. u = t
        <5> SUFFICES ASSUME u # t PROVE FALSE
          OBVIOUS
        <5>1. t \in Clients /\ u \in Clients
          BY <2>6, <3>2, <4>2 DEF Clients
        <5> QED BY <1>2, <3>1, <5>1, OnlyClient
      <4> QED BY <1>0, <2>3, <3>2, <4>1, <4>2, <4>3 DEF logs
    <3>3. CASE ~produce_count(t)
      <4>1. pc[u] = "p_post" /\ UNCHANGED nput /\ local'[u] = local[u]
        <5>1. CASE produce_post(t) /\ t \in Producers
          <6>1. /\ Goto(t, "p_copied", "produce") /\ UNCHANGED <<nput, logs>>
            BY <1>0, <1>2, <5>1, LogsStay DEF produce_post, puts
          <6> QED BY <1>0, <2>4, <2>6, <6>1 DEF logs
        <5>2. CASE client_copy(t) \/ client_counted(t)
          <6>1. /\ \E a, b : Goto(t, a, b) /\ b # "p_post"
                /\ UNCHANGED <<nput, local>>
            BY <5>2 DEF client_copy, client_counted, puts, logs
          <6> QED BY <1>0, <2>4, <2>6, <6>1
        <5>3. CASE client_slot(t) \/ client_overflow(t)
          <6>1. /\ \E a, b : Goto(t, a, b) /\ b # "p_post"
                /\ UNCHANGED nput
                /\ \A v \in Threads \ {t} : local'[v] = local[v]
            BY <1>0, <5>3 DEF client_slot, client_overflow, puts
          <6> QED BY <1>0, <2>4, <2>6, <6>1
        <5>4. CASE LogIdle(t)
          BY <1>0, <2>4, <2>6, <5>4 DEF LogIdle
        <5> QED BY <1>0, <1>2, <3>3, <5>1, <5>2, <5>3, <5>4, MessageStep
      <4> QED BY <1>0, <2>3, <3>1, <4>1
    <3> QED BY <1>0, <1>2, <3>2, <3>3, MessageStep, ProducerFlows
  <2>7. MessageLog'
    BY <1>0, <1>2
  <2> QED BY <2>1, <2>2, <2>5, <2>6, <2>7 DEF LogInv
<1> QED BY <1>1, <1>2
-----------------------------------------------------------------------------
(* The types, from the invariants of the next state.                       *)

\* The semaphores stay natural numbers.
LEMMA SemKept ==
  ASSUME TypeOK, NEW t \in Threads, Step(t)
  PROVE  sem' \in [SemNames -> Nat]
<1>1. \/ \E e, s : SemFlow(e, s)
      \/ ~Step(t)
  <2>1. LogStep(t) => \E e, s : SemFlow(e, s)
    BY SemFlows DEF LogStep
  <2>2. CASE \/ produce_wait(t) \/ produce_return(t) \/ produce_lock(t)
             \/ produce_all_done(t) \/ produce_store(t) \/ produce_count(t)
             \/ produce_post(t)
    BY <2>2, SemFlows
  <2>3. CASE \/ cat_unlock(t) \/ cat_read(t) \/ cat_eof(t) \/ cat_next(t)
             \/ cat_consume_unlock(t) \/ cat_stop(t) \/ cat_write(t)
    BY <2>3, SemFlows
  <2>4. CASE \/ consume_wait(t) \/ consume_return(t) \/ consume_lock(t)
             \/ consume_all_done(t) \/ consume_fetch(t) \/ consume_count(t)
             \/ consume_post(t)
    BY <2>4, SemFlows
  <2> QED BY <2>1, <2>2, <2>3, <2>4 DEF Step, BufferStep
<1> QED BY <1>1 DEF SemFlow

\* The counts of the next state.
LEMMA FlowTypesNext ==
  /\ Filling' \in Nat /\ Posting' \in Nat /\ Fetching' \in Nat /\ Freeing' \in Nat
  /\ At(Producers, {"done"})' \in 0..Cardinality(Threads)
<1>1. IsFiniteSet(Threads) /\ Cardinality(Threads) \in Nat
  BY ProdConsAssumption, FS_Union, FS_CardinalityType DEF Threads
<1>2. ASSUME NEW W
      PROVE  /\ At(Producers, W)' \in Nat /\ At(Consumers, W)' \in Nat
             /\ At(Producers, W)' <= Cardinality(Threads)
  <2> DEFINE A == {u \in Producers : pc'[u] \in W}
             B == {u \in Consumers : pc'[u] \in W}
  <2>1. A \subseteq Threads /\ B \subseteq Threads
    BY DEF Threads
  <2>2. /\ IsFiniteSet(A) /\ IsFiniteSet(B) /\ Cardinality(A) <= Cardinality(Threads)
    BY <1>1, <2>1, FS_Subset
  <2>3. Cardinality(A) \in Nat /\ Cardinality(B) \in Nat
    BY <2>2, FS_CardinalityType
  <2> QED BY <2>2, <2>3 DEF At
<1> QED BY <1>1, <1>2 DEF Filling, Posting, Fetching, Freeing

\* How far a step moves the next places, and what it stores and prints.
LEMMA PutsMove ==
  ASSUME IInv, NEW t \in Threads, Step(t)
  PROVE  /\ nput' \in {nput, nput + 1} /\ nget' \in {nget, nget + 1}
         /\ buff' \in [0..NBUFF-1 -> -2..MaxItems] /\ out' \in Seq(-2..MaxItems)
         /\ prog = "mycat2" =>
              nputval' \in {nputval, nputval + 1} /\ errors' \in 0..MaxErrors
<1>0. /\ TypeOK /\ PlaceInv
      /\ nput \in Nat /\ nget \in Nat /\ nputval \in 0..MaxItems /\ errors \in 0..MaxErrors
      /\ buff \in [0..NBUFF-1 -> -2..MaxItems] /\ MaxItems \in Nat /\ MaxErrors \in Nat
      /\ local \in [Threads -> 0..MaxItems] /\ out \in Seq(-2..MaxItems)
      /\ buff[nget % NBUFF] \in -2..MaxItems
  <2>1. /\ nput \in Nat /\ nget \in Nat /\ nputval \in 0..MaxItems /\ errors \in 0..MaxErrors
        /\ buff \in [0..NBUFF-1 -> -2..MaxItems] /\ MaxItems \in Nat /\ MaxErrors \in Nat
        /\ local \in [Threads -> 0..MaxItems]
    BY ProdConsAssumption DEF IInv, TypeOK
  <2> QED BY <2>1, ModType DEF IInv
<1>1. Append(out, buff[nget % NBUFF]) \in Seq(-2..MaxItems)
  BY <1>0
<1>2. CASE prog = "mycat2"
  <2>1. CASE cat_read(t)
    <3>1. PICK n \in {nputval, EndOfFile, ReadFailed} :
            /\ n = ReadFailed => errors < MaxErrors
            /\ buff' = [buff EXCEPT ![nput % NBUFF] = n]
            /\ nputval' = IF n = nputval THEN nputval + 1 ELSE nputval
            /\ errors' = IF n = ReadFailed THEN errors + 1 ELSE errors
      BY <2>1 DEF cat_read
    <3>2. n \in -2..MaxItems
      BY <1>0 DEF EndOfFile, ReadFailed
    <3>3. buff' \in [0..NBUFF-1 -> -2..MaxItems]
      BY <1>0, <3>1, <3>2
    <3>4. nputval' \in {nputval, nputval + 1} /\ errors' \in 0..MaxErrors
      BY <1>0, <3>1
    <3> QED BY <1>0, <2>1, <3>3, <3>4 DEF cat_read, gets
  <2>2. CASE cat_eof(t) \/ cat_next(t) \/ CatIdle(t)
    BY <1>0, <2>2 DEF cat_eof, cat_next, CatIdle, puts, gets
  <2>3. CASE cat_write(t)
    BY <1>0, <1>1, <2>3 DEF cat_write, puts
  <2> QED BY <1>0, <1>2, <2>1, <2>2, <2>3, CatStep
<1>3. CASE prog # "mycat2"
  <2>1. CASE produce_store(t)
    <3>1. nputval \in -2..MaxItems
      BY <1>0
    <3> QED BY <1>0, <1>3, <2>1, <3>1 DEF produce_store, gets
  <2>2. CASE produce_count(t) \/ ItemIdle(t)
    BY <1>0, <1>3, <2>2 DEF produce_count, ItemIdle, gets
  <2>3. CASE client_copy(t)
    <3>1. local[t] \in -2..MaxItems
      BY <1>0
    <3> QED BY <1>0, <1>3, <2>3, <3>1 DEF client_copy, gets
  <2>4. CASE consume_fetch(t) \/ consume_count(t)
    BY <1>0, <1>1, <1>3, <2>4 DEF consume_fetch, consume_count, puts
  <2> QED BY <1>0, <1>3, <2>1, <2>2, <2>3, <2>4, PlainStep
<1> QED BY <1>2, <1>3

\* What the variables of the message log become.
LEMMA LogsMove ==
  ASSUME IInv, NEW t \in Threads, Step(t)
  PROVE  local' \in [Threads -> 0..MaxItems] /\ noverflow' \in Nat
<1>0. /\ local \in [Threads -> 0..MaxItems] /\ noverflow \in 0..MaxItems /\ MaxItems \in Nat
      /\ MessageLog => nput \in 0..MaxItems
  BY ProdConsAssumption DEF IInv, TypeOK, NputInv, MessageLog
<1>1. CASE BufferStep(t)
  BY <1>0, <1>1 DEF BufferStep, logs
<1>2. CASE client_slot(t)
  BY <1>0, <1>2 DEF client_slot
<1>3. CASE client_overflow(t) \/ server_overflow(t)
  BY <1>0, <1>3 DEF client_overflow, server_overflow
<1>4. CASE client_counted(t)
  BY <1>0, <1>4 DEF client_counted
<1>5. CASE client_copy(t) \/ client_full(t) \/ server_unlock(t)
  BY <1>0, <1>5 DEF client_copy, client_full, server_unlock, logs
<1> QED BY <1>1, <1>2, <1>3, <1>4, <1>5 DEF Step, LogStep

\* The numbers of the items.
LEMMA UpTo ==
  ASSUME NEW m \in Nat
  PROVE  IsFiniteSet(0..m-1) /\ Cardinality(0..m-1) = m
<1>1. m - 1 \in Int /\ 0 \in Int /\ m - 1 + 1 = m
  OBVIOUS
<1>2. CASE m = 0
  <2>1. 0 > m - 1
    BY <1>2
  <2> QED BY <1>1, <1>2, <2>1, FS_Interval, Zenon
<1>3. CASE m # 0
  <2>1. ~(0 > m - 1) /\ (m - 1) - 0 = m - 1
    BY <1>3
  <2> QED BY <1>1, <1>2, <2>1, FS_Interval, Zenon
<1> QED BY <1>2, <1>3

\* There are no more messages than the clients send.
LEMMA LogBound ==
  ASSUME LogInv', MessageLog', nput' \in Nat, noverflow' \in Nat, nitems' \in Nat,
         count' \in [Threads -> Nat]
  PROVE  nput' + noverflow' <= MaxItems
<1> DEFINE N == 0..nitems'-1
           c == Cardinality(Clients')
<1>1. IsFiniteSet(Clients') /\ c \in Nat
  BY ProdConsAssumption, FS_Subset, FS_CardinalityType DEF Clients
<1>2. IsFiniteSet(N) /\ Cardinality(N) = nitems'
  BY UpTo
<1>3. Begun' \subseteq Clients' \X N
  <2> SUFFICES ASSUME NEW m \in Begun' PROVE m \in Clients' \X N
    OBVIOUS
  <2>1. /\ m \in Producers \X N
        /\ m[2] < count'[m[1]] \/ pc'[m[1]] \in {"p_post", "p_copied"}
    BY DEF Begun
  <2>2. m[1] \in Threads /\ m[1] \in Producers /\ m[2] \in N
    BY <2>1 DEF Threads
  <2>3. count'[m[1]] > 0 \/ pc'[m[1]] # "done"
    BY <2>1, <2>2
  <2>4. m[1] \in Clients'
    BY <2>2, <2>3 DEF Clients
  <2> QED BY <2>1, <2>2, <2>4
<1> HIDE DEF N
<1>4. Cardinality(Begun') <= c * nitems'
  <2>1. IsFiniteSet(Clients' \X N) /\ Cardinality(Clients' \X N) = c * nitems'
    BY <1>1, <1>2, FS_Product
  <2> QED BY <1>3, <2>1, FS_Subset
<1>5. nitems' * c <= MaxItems /\ nput' + noverflow' = Cardinality(Begun')
  BY DEF LogInv
<1>6. Cardinality(Begun') \in Nat /\ MaxItems \in Nat
  BY <1>5, ProdConsAssumption
<1> HIDE DEF c
<1> DEFINE n == nitems'
           k == Cardinality(Begun')
<1>7. n \in Nat /\ c \in Nat /\ k \in Nat /\ k <= c * n /\ n * c <= MaxItems
  BY <1>1, <1>4, <1>5, <1>6
<1> HIDE DEF n, k
<1>8. c * n = n * c /\ n * c \in Nat
  BY <1>7
<1>9. k <= MaxItems
  BY <1>6, <1>7, <1>8
<1> QED BY <1>5, <1>9 DEF k

\* The types of the next state follow from its other invariants.
LEMMA TypeKept ==
  ASSUME IInv, NEW t \in Threads, Step(t),
         PlaceInv', MutexInv', PlacesInv', TokensInv', NputInv', CountInv', LogInv',
         ReadInv'
  PROVE  TypeOK'
<1>0. /\ TypeOK /\ PlaceInv /\ prog' = prog /\ nitems' = nitems
      /\ prog \in Programs /\ nitems \in 0..MaxItems
      /\ MaxItems \in Nat /\ MaxErrors \in Nat /\ NBUFF \in Nat
      /\ (MessageLog <=> MessageLog') /\ (ManyProducers <=> ManyProducers')
      /\ (ManyConsumers <=> ManyConsumers')
  BY StepMoves, ProdConsAssumption
     DEF IInv, TypeOK, args, MessageLog, ManyProducers, ManyConsumers
<1>1. /\ nput' \in Nat /\ nget' \in Nat /\ nget' <= nput'
      /\ buff' \in [0..NBUFF-1 -> -2..MaxItems]
  <2>1. nput \in Nat /\ nget \in Nat
    BY <1>0, ProdConsAssumption DEF TypeOK
  <2> QED BY <2>1, PutsMove DEF PlacesInv
<1>2. MessageLog => nput' + noverflow' <= MaxItems
  <2>1. nitems' \in Nat /\ noverflow' \in Nat /\ count' \in [Threads -> Nat]
    BY <1>0, LogsMove, CountMoves
  <2> QED BY <1>0, <1>1, <2>1, LogBound
<1>3. local' \in [Threads -> 0..MaxItems] /\ noverflow' \in 0..MaxItems
  <2>1. noverflow' \in Nat
    BY LogsMove
  <2>2. ~MessageLog => noverflow' = 0
    BY <1>0 DEF LogInv
  <2> DEFINE p == nput'
             o == noverflow'
  <2>3. /\ p \in Nat /\ o \in Nat
        /\ MessageLog => p + o <= MaxItems
        /\ ~MessageLog => o = 0
    BY <1>1, <1>2, <2>1, <2>2
  <2> HIDE DEF p, o
  <2>4. o \in 0..MaxItems
    BY <1>0, <2>3
  <2> QED BY <2>4, LogsMove DEF o
<1>4. /\ nputval' \in 0..MaxItems /\ errors' \in 0..MaxErrors
      /\ nput' \in 0..MaxItems + MaxErrors
      /\ ManyProducers => nput' <= nitems
  <2>1. CASE prog = "mycat2"
    <3>1. nputval' \in Nat /\ errors' \in 0..MaxErrors
      <4>1. nputval \in Nat
        BY <1>0 DEF TypeOK
      <4> QED BY <2>1, <4>1, PutsMove
    <3>2. nputval' <= nitems /\ (nput' = nputval' + errors' \/ nput' + 1 = nputval' + errors')
      <4>1. /\ nputval' <= nitems'
            /\ nput' + (IF AtNext' /\ Slot' # EndOfFile THEN 1 ELSE 0) = nputval' + errors'
        BY <1>0, <2>1 DEF ReadInv
      <4> QED BY <1>0, <1>1, <4>1
    <3> DEFINE p == nput'
               v == nputval'
               e == errors'
    <3>3. /\ p \in Nat /\ v \in Nat /\ e \in 0..MaxErrors /\ v <= nitems
          /\ p = v + e \/ p + 1 = v + e
      BY <1>1, <3>1, <3>2
    <3> HIDE DEF p, v, e
    <3>4. v \in 0..MaxItems /\ p \in 0..MaxItems + MaxErrors
      BY <1>0, <3>3
    <3> QED BY <2>1, <3>3, <3>4 DEF p, v, e, ManyProducers
  <2>2. CASE prog # "mycat2"
    <3>1. nputval' = nput' /\ errors' = 0
      BY <1>0, <2>2 DEF NputInv
    <3>2. nput' <= nitems \/ MessageLog
      BY <1>0, <2>2 DEF NputInv, Programs, MessageLog
    <3>3. ManyProducers => ~MessageLog
      BY DEF ManyProducers, MessageLog
    <3>4. nput' <= MaxItems
      <4>1. CASE MessageLog
        <5> DEFINE p == nput'
                   o == noverflow'
        <5>1. p \in Nat /\ o \in Nat /\ p + o <= MaxItems
          BY <1>1, <1>2, <1>3, <4>1
        <5> HIDE DEF p, o
        <5>2. p <= MaxItems
          BY <1>0, <5>1
        <5> QED BY <5>2 DEF p
      <4>2. CASE nput' <= nitems
        BY <1>0, <1>1, <4>2
      <4> QED BY <3>2, <4>1, <4>2
    <3> QED BY <1>0, <1>1, <3>1, <3>2, <3>3, <3>4
  <2> QED BY <2>1, <2>2
<1>5. count' \in [Threads -> 0..MaxItems]
  <2> SUFFICES ASSUME NEW u \in Threads PROVE count'[u] <= MaxItems
    BY <1>0, CountMoves
  <2>0. count[u] \in 0..MaxItems /\ count'[u] \in Nat /\ u \in Producers \cup Consumers
    BY <1>0, CountMoves DEF TypeOK, Threads
  <2>1. CASE u # t \/ count' = count
    BY <1>0, <2>0, <2>1, CountMoves
  <2>2. CASE u = t /\ (ManyConsumers \/ ((ManyProducers \/ MessageLog) /\ t \in Producers))
    <3>1. ManyConsumers => ManyProducers
      BY DEF ManyConsumers, ManyProducers
    <3>2. CASE ManyProducers /\ u \in Producers
      <4>1. count'[u] <= nput'
        <5>1. count'[u] + (IF pc'[u] = "p_post" THEN 1 ELSE 0) <= nput'
          BY <1>0, <3>2 DEF CountInv
        <5> QED BY <1>1, <2>0, <5>1
      <4> QED BY <1>0, <1>1, <1>4, <2>0, <3>2, <4>1
    <3>3. CASE ManyConsumers /\ u \in Consumers
      <4>1. count'[u] <= nget'
        <5>1. count'[u] + (IF pc'[u] = "c_post" THEN 1 ELSE 0) <= nget'
          BY <1>0, <3>3 DEF CountInv
        <5> QED BY <1>1, <2>0, <5>1
      <4> QED BY <1>0, <1>1, <1>4, <2>0, <3>1, <3>3, <4>1
    <3>4. CASE MessageLog /\ u \in Producers
      <4>1. count'[u] <= nitems
        BY <1>0, <3>4 DEF CountInv
      <4> QED BY <1>0, <2>0, <4>1
    <3> QED BY <2>0, <2>2, <3>1, <3>2, <3>3, <3>4
  <2> QED BY <1>0, <2>1, <2>2, CountMoves
<1>6. pc' \in [Threads -> {"produce", "p_lock", "p_store", "p_count", "p_post", "p_read",
                           "p_next", "p_copied", "p_full", "p_over", "consume", "c_lock",
                           "c_fetch", "c_count", "c_post", "c_write", "c_over", "c_temp",
                           "done"}]
  <2>1. PICK a \in Places, b \in Places : Goto(t, a, b)
    BY StepMoves
  <2> QED BY <1>0, <2>1 DEF Goto, TypeOK, Places, ProducerPlaces, ConsumerPlaces
<1>7. sem' \in [mutex : 0..1, noverflowmutex : 0..1, nempty : 0..NBUFF,
                nstored : 0 .. (MaxItems + MaxErrors + Cardinality(Threads))]
  <2>1. sem' \in [SemNames -> Nat]
    BY <1>0, SemKept
  <2>2. sem'["mutex"] \in 0..1 /\ sem'["noverflowmutex"] \in 0..1
    BY DEF MutexInv, OnlyOne
  <2>3. sem'["nempty"] \in Nat /\ sem'["nstored"] \in Nat
    BY <2>1 DEF SemNames
  <2>4. sem'["nempty"] <= NBUFF
    <3>1. sem'["nempty"] + Filling' + (nput' - nget') + Freeing' <= NBUFF
      BY DEF PlacesInv
    <3> DEFINE n == sem'["nempty"]
               f == Filling'
               p == nput'
               g == nget'
               r == Freeing'
    <3>2. n + f + (p - g) + r <= NBUFF /\ n \in Nat /\ f \in Nat /\ r \in Nat
      BY <2>3, <3>1, FlowTypesNext
    <3>3. p \in Nat /\ g \in Nat /\ g <= p
      BY <1>1
    <3> HIDE DEF n, f, p, g, r
    <3>4. n <= NBUFF
      BY <1>0, <3>2, <3>3
    <3> QED BY <3>4 DEF n
  <2>5. sem'["nstored"] <= MaxItems + MaxErrors + Cardinality(Threads)
    <3>1. Cardinality(Threads) \in Nat /\ Cardinality(Threads) >= 1
      <4>1. IsFiniteSet(Threads)
        BY ProdConsAssumption, FS_Union DEF Threads
      <4> QED BY <4>1, FS_CardinalityType, FS_EmptySet
    <3>2. nget' + sem'["nstored"] + Fetching' + Posting'
            <= nput' + (IF ManyConsumers' THEN At(Producers, {"done"})'
                        ELSE IF Ended' THEN 1 ELSE 0)
      BY DEF TokensInv
    <3>3. sem'["nstored"] <= nput' + Cardinality(Threads)
      BY <1>1, <2>3, <3>1, <3>2, FlowTypesNext, SMTT(20)
    <3> QED BY <1>0, <1>1, <1>4, <2>3, <3>1, <3>3
  <2>6. /\ sem'["nempty"] \in 0..NBUFF
        /\ sem'["nstored"] \in 0 .. (MaxItems + MaxErrors + Cardinality(Threads))
    BY <1>0, <2>3, <2>4, <2>5
  <2> QED BY <2>1, <2>2, <2>6 DEF SemNames
<1>8. nget' \in 0..MaxItems + MaxErrors
  BY <1>0, <1>1, <1>4
<1> QED BY <1>0, <1>1, <1>3, <1>4, <1>5, <1>6, <1>7, <1>8 DEF TypeOK
-----------------------------------------------------------------------------
(* The theorems.                                                           *)

\* The invariant holds when main has created the threads.
LEMMA InitInv == Init => IInv
<1> SUFFICES ASSUME Init PROVE IInv
  OBVIOUS
<1> USE ProdConsAssumption
<1>0. /\ prog \in Programs /\ nitems \in 0..MaxItems /\ nitems \in Nat
      /\ sem = [mutex |-> 1, nempty |-> NBUFF, nstored |-> 0, noverflowmutex |-> 1]
      /\ buff = [b \in 0..NBUFF-1 |-> 0]
      /\ nput = 0 /\ nputval = 0 /\ nget = 0 /\ errors = 0 /\ out = <<>>
      /\ noverflow = 0 /\ local = [t \in Threads |-> 0] /\ count = [t \in Threads |-> 0]
  BY DEF Init, FullSems
<1>1. PICK P \in (SUBSET Producers) \ {{}}, C \in (SUBSET Consumers) \ {{}} :
       /\ ManyProducers \/ MessageLog \/ Cardinality(P) = 1
       /\ MessageLog => nitems * Cardinality(P) <= MaxItems
       /\ ManyConsumers \/ Cardinality(C) = 1
       /\ pc = [t \in Threads |-> IF t \in P THEN "produce"
                                  ELSE IF t \in C THEN "consume" ELSE "done"]
  BY DEF Init
<1>2. /\ \A t \in Producers : pc[t] = IF t \in P THEN "produce" ELSE "done"
      /\ \A t \in Consumers : pc[t] = IF t \in C THEN "consume" ELSE "done"
  BY <1>1 DEF Threads
<1>3. /\ \A t \in Producers : pc[t] \in {"produce", "done"}
      /\ \A t \in Consumers : pc[t] \in {"consume", "done"}
      /\ \A t \in Threads : pc[t] \in {"produce", "consume", "done"}
  BY <1>2 DEF Threads
<1>4. Cardinality(Threads) \in Nat /\ IsFiniteSet(Threads)
  BY FS_Union, FS_CardinalityType DEF Threads
<1>5. TypeOK
  <2>1. sem \in [mutex : 0..1, noverflowmutex : 0..1, nempty : 0..NBUFF,
                 nstored : 0 .. (MaxItems + MaxErrors + Cardinality(Threads))]
    BY <1>0, <1>4
  <2>2. pc \in [Threads -> {"produce", "consume", "done"}]
    BY <1>1
  <2>3. buff \in [0..NBUFF-1 -> -2..MaxItems]
    BY <1>0
  <2>4. local \in [Threads -> 0..MaxItems] /\ count \in [Threads -> 0..MaxItems]
    BY <1>0
  <2>5. /\ nput \in 0..MaxItems + MaxErrors /\ nputval \in 0..MaxItems
        /\ nget \in 0..MaxItems + MaxErrors /\ noverflow \in 0..MaxItems
        /\ errors \in 0..MaxErrors
    BY <1>0
  <2> QED BY <1>0, <2>1, <2>2, <2>3, <2>4, <2>5 DEF TypeOK
<1>6. PlaceInv
  BY <1>3 DEF PlaceInv, ProducerPlaces, ConsumerPlaces
<1>7. SoloInv
  <2>1. ~ManyProducers /\ ~MessageLog => \E p : P = {p}
    BY <1>1, FS_Singleton, FS_Subset
  <2>2. ~ManyConsumers => \E c : C = {c}
    BY <1>1, FS_Singleton, FS_Subset
  <2> QED BY <1>2, <2>1, <2>2 DEF SoloInv
<1>8. MutexInv
  BY <1>0, <1>3 DEF MutexInv, OnlyOne
<1>9. ASSUME NEW T \in SUBSET Threads, NEW W, W \cap {"produce", "consume", "done"} = {}
      PROVE  At(T, W) = 0
  <2>1. {t \in T : pc[t] \in W} = {}
    BY <1>3, <1>9
  <2> QED BY <2>1, FS_EmptySet DEF At
<1>10. Filling = 0 /\ Posting = 0 /\ Fetching = 0 /\ Freeing = 0
  <2>1. Producers \in SUBSET Threads /\ Consumers \in SUBSET Threads
    BY DEF Threads
  <2>2. Filling = 0
    BY <1>9, <2>1 DEF Filling
  <2>3. Posting = 0
    BY <1>9, <2>1 DEF Posting
  <2>4. Fetching = 0
    BY <1>9, <2>1 DEF Fetching
  <2>5. Freeing = 0
    BY <1>9, <2>1 DEF Freeing
  <2> QED BY <2>2, <2>3, <2>4, <2>5
<1>11. PlacesInv
  BY <1>0, <1>10 DEF PlacesInv
<1>12. TokensInv
  <2>1. nget + sem["nstored"] + Fetching + Posting = 0
    BY <1>0, <1>10
  <2>2. ~\E t \in Consumers : pc[t] = "c_count"
    BY <1>3
  <2>3. At(Producers, {"done"}) \in Nat
    BY FlowTypes
  <2> QED BY <1>0, <2>1, <2>2, <2>3 DEF TokensInv
<1>13. NputInv
  BY <1>0, <1>3 DEF NputInv
<1>14. CountInv
  BY <1>0, <1>3 DEF CountInv, Threads
<1>15. LogInv
  <2>1. CASE MessageLog
    <3>1. Clients = P
      BY <1>0, <1>2 DEF Clients, Threads
    <3>2. Begun = {}
      BY <1>0, <1>3 DEF Begun, Threads
    <3>3. nput + noverflow = Cardinality(Begun)
      BY <1>0, <3>2, FS_EmptySet
    <3> QED BY <1>1, <1>3, <2>1, <3>1, <3>3 DEF LogInv
  <2> QED BY <1>0, <2>1 DEF LogInv
<1>16. ItemsInv
  BY <1>0, <1>3 DEF ItemsInv
<1>17. ReadInv
  <2>1. ~AtNext
    BY <1>3 DEF AtNext
  <2>2. ~Ended
    <3>1. PICK p \in P : TRUE
      BY <1>1
    <3>2. p \in Producers /\ pc[p] = "produce"
      BY <1>2, <3>1
    <3> QED BY <3>2 DEF Ended
  <2> QED BY <1>0, <2>1, <2>2 DEF ReadInv
<1>18. BlocksInv
  <2>1. ~AtNext
    BY <1>3 DEF AtNext
  <2> DEFINE f == [i \in 0..0 |-> 0]
  <2>2. f \in [nget..nput -> 0..MaxItems] /\ f[0] = 0
    BY <1>0
  <2>3. \A i \in nget..nput-1 : FALSE
    BY <1>0
  <2> HIDE DEF f
  <2>4. f[nget] = Len(out) /\ nputval = f[nput] + (IF AtNext /\ Slot >= 0 THEN 1 ELSE 0)
    BY <1>0, <2>1, <2>2
  <2> QED BY <2>2, <2>3, <2>4 DEF BlocksInv
<1>19. InOrder /\ out \in Seq(-2..MaxItems)
  BY <1>0 DEF InOrder
<1> QED BY <1>5, <1>6, <1>7, <1>8, <1>11, <1>12, <1>13, <1>14, <1>15, <1>16, <1>17, <1>18,
           <1>19 DEF IInv

\* Every step preserves it.
LEMMA NextInv == IInv /\ [Next]_vars => IInv'
<1> SUFFICES ASSUME IInv, [Next]_vars PROVE IInv'
  OBVIOUS
<1>1. CASE Next
  <2>1. PICK t \in Threads : Step(t)
    BY <1>1 DEF Next
  <2>2. PlaceInv' /\ SoloInv' /\ MutexInv'
    BY <2>1, PlaceKept, SoloKept, MutexKept DEF IInv
  <2>3. PlacesInv' /\ TokensInv' /\ NputInv' /\ CountInv'
    BY <2>1, PlacesKept, TokensKept, NputKept, CountKept
  <2>4. LogInv' /\ ItemsInv' /\ ReadInv' /\ BlocksInv' /\ InOrder'
    BY <2>1, LogKept, ItemsKept, ReadKept, BlocksKept, InOrderKept
  <2>5. TypeOK'
    BY <2>1, <2>2, <2>3, <2>4, TypeKept
  <2>6. out' \in Seq(-2..MaxItems)
    BY <2>1, PutsMove
  <2> QED BY <2>2, <2>3, <2>4, <2>5, <2>6 DEF IInv
<1>2. CASE UNCHANGED vars
  <2> USE DEF vars, args, puts, gets, logs
  <2>1. TypeOK' /\ out' \in Seq(-2..MaxItems)
    BY <1>2 DEF IInv, TypeOK
  <2>2. PlaceInv' /\ SoloInv' /\ MutexInv' /\ NputInv'
    BY <1>2 DEF IInv, PlaceInv, SoloInv, MutexInv, OnlyOne, NputInv, MessageLog,
                ManyProducers, ManyConsumers
  <2>3. /\ Filling' = Filling /\ Posting' = Posting /\ Fetching' = Fetching
        /\ Freeing' = Freeing /\ At(Producers, {"done"})' = At(Producers, {"done"})
    BY <1>2 DEF Filling, Posting, Fetching, Freeing, At
  <2>4. PlacesInv' /\ TokensInv'
    BY <1>2, <2>3 DEF IInv, PlacesInv, TokensInv, ManyConsumers, Ended
  <2>5. CountInv'
    BY <1>2 DEF IInv, CountInv, ManyProducers, ManyConsumers, MessageLog
  <2>6. /\ MayOvertake' = MayOvertake /\ Clients' = Clients /\ Begun' = Begun
        /\ Uncopied' = Uncopied
    BY <1>2 DEF MayOvertake, Clients, MessageLog, Begun, Uncopied
  <2>7. LogInv' /\ ItemsInv' /\ InOrder'
    BY <1>2, <2>6 DEF IInv, LogInv, ItemsInv, InOrder, MessageLog
  <2>8. AtNext' = AtNext /\ Slot' = Slot /\ Ended' = Ended
    BY <1>2 DEF AtNext, Slot, Ended
  <2>9. ReadInv' /\ BlocksInv'
    BY <1>2, <2>8 DEF IInv, ReadInv, BlocksInv
  <2> QED BY <2>1, <2>2, <2>4, <2>5, <2>7, <2>9 DEF IInv
<1> QED BY <1>1, <1>2

\* The invariant holds in every state that the programs can be in.
THEOREM Invariance == Spec => []IInv
<1> QED BY InitInv, NextInv, PTL DEF Spec

\* The variables have their types in the six programs: nempty never exceeds
\* NBUFF and nput never exceeds the number of items, whatever the threads do.
THEOREM TypeCorrect == Spec => []TypeOK
<1>1. IInv => TypeOK
  BY DEF IInv
<1> QED BY <1>1, Invariance, PTL

\* The consumers print every value once and in order.
THEOREM OrderCorrect == Spec => []InOrder
<1>1. IInv => InOrder
  BY DEF IInv
<1> QED BY <1>1, Invariance, PTL

\* No store overwrites an item that has not been fetched.
THEOREM UnreadCorrect == Spec => UnreadKept
<1> DEFINE Kept == ~MayOvertake =>
              \A i \in (nget .. nput - 1) \ Uncopied : buff'[i % NBUFF] = buff[i % NBUFF]
<1>1. IInv /\ [Next]_vars => [Kept]_vars
  <2> SUFFICES ASSUME IInv, Next PROVE Kept
    OBVIOUS
  <2>1. PICK t \in Threads : Step(t)
    BY DEF Next
  <2> QED BY <2>1, UnreadStep
<1> QED BY <1>1, Invariance, PTL DEF Spec, UnreadKept
-----------------------------------------------------------------------------
(* All items are moved.                                                    *)

\* The last consumer to return has seen the end: of the items, or of the file.
\* The server of the log does not return.
EndInv ==
  (\A t \in Consumers : pc[t] = "done") =>
    /\ ~MessageLog
    /\ IF prog = "mycat2" THEN Ended /\ nget = nput ELSE nget >= nitems

\* mycat2's producer tells of the end when it has read the whole file.
LastInv ==
  prog = "mycat2" /\ (Ended \/ (AtNext /\ Slot = EndOfFile)) => nputval = nitems

\* No message of the log is forgotten: its client has yet to post it, or it is
\* posted, or the server has it.
ServedInv == MessageLog => nput <= nget + sem["nstored"] + Fetching + Posting

\* The counts of the threads add up to the items they have moved, but for the
\* threads that have yet to count the last.
SumInv ==
  /\ ManyProducers => Total(Producers) + At(Producers, {"p_post"}) = nput
  /\ ManyConsumers => Total(Consumers) + At(Consumers, {"c_post"}) = nget

MovedInv == EndInv /\ LastInv /\ ServedInv /\ SumInv

\* A sum is of finitely many finite counts.
LEMMA TotalType ==
  ASSUME TypeOK, NEW T \in SUBSET Threads
  PROVE  /\ IsFiniteSet(UNION {{u} \X (1..count[u]) : u \in T})
         /\ Total(T) \in Nat
<1> DEFINE A == UNION {{u} \X (1..count[u]) : u \in T}
<1>1. MaxItems \in Nat /\ \A u \in T : count[u] \in Nat /\ count[u] <= MaxItems
  BY ProdConsAssumption DEF TypeOK
<1>2. IsFiniteSet(T) /\ IsFiniteSet(1..MaxItems)
  <2>1. 1 \in Int /\ MaxItems \in Int
    BY <1>1
  <2>2. IsFiniteSet(1..MaxItems)
    BY <2>1, FS_Interval, Zenon
  <2> QED BY <2>2, ProdConsAssumption, FS_Subset, FS_Union DEF Threads
<1>3. IsFiniteSet(T \X (1..MaxItems))
  BY <1>2, FS_Product
<1>4. A \subseteq T \X (1..MaxItems)
  BY <1>1
<1> HIDE DEF A
<1>5. IsFiniteSet(A) /\ Cardinality(A) \in Nat
  BY <1>3, <1>4, FS_Subset, FS_CardinalityType
<1> QED BY <1>5 DEF A, Total

\* A sum goes up by one when one of its threads counts.
LEMMA TotalMoves ==
  ASSUME TypeOK, NEW T \in SUBSET Threads, NEW t \in Threads, Step(t)
  PROVE  /\ Total(T) \in Nat
         /\ Total(T)' = Total(T) + (IF t \in T THEN count'[t] - count[t] ELSE 0)
<1> DEFINE A == UNION {{u} \X (1..count[u]) : u \in T}
           B == UNION {{u} \X (1..count'[u]) : u \in T}
<1>1. Total(T) = Cardinality(A) /\ Total(T)' = Cardinality(B)
  BY DEF Total
<1>2. /\ \A u \in Threads : count[u] \in Nat /\ count[u] <= MaxItems
      /\ \A u \in Threads \ {t} : count'[u] = count[u]
      /\ count'[t] \in {count[t], count[t] + 1}
      /\ MaxItems \in Nat
  BY CountMoves, ProdConsAssumption DEF TypeOK
<1>3. \A u, i : /\ <<u, i>> \in A <=> u \in T /\ i \in 1..count[u]
                /\ <<u, i>> \in B <=> u \in T /\ i \in 1..count'[u]
  OBVIOUS
<1>4. \A m : m \in A \/ m \in B => \E u, i : m = <<u, i>>
  OBVIOUS
<1>5. IsFiniteSet(A) /\ Cardinality(A) \in Nat
  BY <1>1, TotalType
<1> HIDE DEF A, B
<1>6. CASE t \in T /\ count'[t] = count[t] + 1
  <2> DEFINE m == <<t, count[t] + 1>>
  <2>1. m \notin A /\ B = A \cup {m}
    <3>1. m \notin A /\ m \in B
      BY <1>2, <1>3, <1>6
    <3>2. \A u, i : <<u, i>> \in B <=> <<u, i>> \in A \/ <<u, i>> = m
      <4> TAKE u, i
      <4>1. CASE u = t
        BY <1>2, <1>3, <1>6, <4>1
      <4>2. CASE u # t
        BY <1>2, <1>3, <1>6, <4>2
      <4> QED BY <4>1, <4>2
    <3> HIDE DEF m
    <3> QED BY <1>4, <3>1, <3>2
  <2> HIDE DEF m
  <2>2. Cardinality(A \cup {m}) = Cardinality(A) + 1
    BY <1>5, <2>1, FS_AddElement
  <2>3. count'[t] - count[t] = 1
    BY <1>2, <1>6
  <2> QED BY <1>1, <1>5, <1>6, <2>1, <2>2, <2>3
<1>7. CASE ~(t \in T /\ count'[t] = count[t] + 1)
  <2>1. \A u \in T : count'[u] = count[u]
    BY <1>2, <1>7
  <2>2. B = A
    BY <2>1 DEF A, B
  <2>3. t \in T => count'[t] - count[t] = 0
    BY <1>2, <2>1
  <2> QED BY <1>1, <1>5, <2>2, <2>3
<1> QED BY <1>6, <1>7

\* In a program with several producers, a producer's item is counted in nput
\* when it is put, and by the producer when it is posted.
LEMMA SumStep ==
  ASSUME TypeOK, PlaceInv, ManyProducers, NEW t \in Threads, Step(t),
         NEW a, NEW b, Goto(t, a, b)
  PROVE  /\ nput' = nput + (IF t \in Producers
                            THEN count'[t] - count[t] + Delta(a, b, {"p_post"}) ELSE 0)
         /\ ManyConsumers =>
              nget' = nget + (IF t \in Consumers
                              THEN count'[t] - count[t] + Delta(a, b, {"c_post"}) ELSE 0)
<1>0. /\ nput \in Nat /\ nget \in Nat /\ count \in [Threads -> Nat]
      /\ Producers \cap Consumers = {} /\ Threads = Producers \cup Consumers
      /\ ~MessageLog /\ prog # "mycat2"
  BY ProdConsAssumption DEF TypeOK, Threads, ManyProducers, MessageLog
<1>1. ASSUME NEW x, NEW y, Goto(t, x, y) PROVE a = x /\ b = y
  <2>1. pc[t] = a /\ pc'[t] = b /\ pc[t] = x /\ pc'[t] = y
    BY <1>1 DEF Goto, TypeOK
  <2> QED BY <2>1
<1> USE DEF puts, gets, Delta
<1>2. CASE produce_count(t)
  <2>1. a = "p_count" /\ b = "p_post" /\ t \in Producers
    BY <1>1, <1>2, ProducerFlows DEF produce_count
  <2>2. nput' = nput + 1 /\ nget' = nget /\ count' = count
    BY <1>2 DEF produce_count
  <2> QED BY <1>0, <2>1, <2>2
<1>3. CASE produce_post(t)
  <2>1. a = "p_post" /\ b = "produce" /\ t \in Producers
    BY <1>0, <1>1, <1>3, ProducerFlows DEF produce_post
  <2>2. nput' = nput /\ nget' = nget /\ count'[t] = count[t] + 1
    BY <1>0, <1>3, <2>1 DEF produce_post, Counted
  <2> QED BY <1>0, <2>1, <2>2
<1>4. CASE consume_count(t)
  <2>1. a = "c_count" /\ b = "c_post" /\ t \in Consumers
    BY <1>1, <1>4, ConsumerFlows DEF consume_count
  <2>2. nput' = nput /\ nget' = nget + 1 /\ count' = count
    BY <1>4 DEF consume_count
  <2> QED BY <1>0, <2>1, <2>2
<1>5. CASE consume_post(t)
  <2>1. a = "c_post" /\ b = "consume" /\ t \in Consumers
    BY <1>0, <1>1, <1>5, ConsumerFlows DEF consume_post
  <2>2. /\ nput' = nput /\ nget' = nget
        /\ ManyConsumers => count'[t] = count[t] + 1
    BY <1>0, <1>5, <2>1 DEF consume_post, Counted
  <2> QED BY <1>0, <2>1, <2>2
<1>6. CASE \/ produce_wait(t) \/ produce_return(t) \/ produce_lock(t)
           \/ produce_all_done(t) \/ produce_store(t)
           \/ consume_wait(t) \/ consume_return(t) \/ consume_lock(t)
           \/ consume_all_done(t) \/ consume_fetch(t)
  <2>1. UNCHANGED <<nput, nget, count>>
    BY <1>6 DEF produce_wait, produce_return, produce_lock, produce_all_done,
                produce_store, consume_wait, consume_return, consume_lock,
                consume_all_done, consume_fetch
  <2>2. a \notin {"p_post", "c_post"} /\ b \notin {"p_post", "c_post"}
    BY <1>1, <1>6 DEF produce_wait, produce_return, produce_lock, produce_all_done,
                produce_store, consume_wait, consume_return, consume_lock,
                consume_all_done, consume_fetch
  <2>3. Delta(a, b, {"p_post"}) = 0 /\ Delta(a, b, {"c_post"}) = 0
    BY <2>2
  <2>4. count'[t] - count[t] = 0 /\ nput' = nput + 0 /\ nget' = nget + 0
    BY <1>0, <2>1
  <2> HIDE DEF Delta
  <2> QED BY <1>0, <2>3, <2>4
<1>7. ~LogStep(t)
  BY <1>0 DEF LogStep, client_slot, client_copy, client_full, client_overflow,
              client_counted, server_overflow, server_unlock, Goto, PlaceInv
<1>8. ~cat_unlock(t) /\ ~cat_read(t) /\ ~cat_eof(t) /\ ~cat_next(t)
      /\ ~cat_consume_unlock(t) /\ ~cat_stop(t) /\ ~cat_write(t)
  BY <1>0 DEF cat_unlock, cat_read, cat_eof, cat_next, cat_consume_unlock, cat_stop,
              cat_write, Goto, PlaceInv
<1> QED BY <1>2, <1>3, <1>4, <1>5, <1>6, <1>7, <1>8 DEF Step, BufferStep

\* The sums of the counts.
LEMMA SumKept ==
  ASSUME IInv, SumInv, NEW t \in Threads, Step(t)
  PROVE  SumInv'
<1>0. /\ TypeOK /\ PlaceInv /\ nput \in Nat /\ nget \in Nat
      /\ Producers \in SUBSET Threads /\ Consumers \in SUBSET Threads
      /\ (ManyProducers <=> ManyProducers') /\ (ManyConsumers <=> ManyConsumers')
      /\ (ManyConsumers => ManyProducers)
      /\ count[t] \in Nat /\ count'[t] \in Nat
  <2>1. TypeOK /\ PlaceInv /\ nput \in Nat /\ nget \in Nat
    BY ProdConsAssumption DEF IInv, TypeOK
  <2>2. prog' = prog
    BY StepMoves DEF args
  <2> QED BY <2>1, <2>2, CountMoves DEF Threads, ManyProducers, ManyConsumers
<1>1. PICK a, b \in Places : Goto(t, a, b)
  BY StepMoves
<1>2. ASSUME NEW T \in SUBSET Threads, NEW w
      PROVE  /\ Total(T) \in Nat /\ At(T, {w}) \in Nat
             /\ Total(T)' + At(T, {w})' = Total(T) + At(T, {w}) +
                  (IF t \in T THEN count'[t] - count[t] + Delta(a, b, {w}) ELSE 0)
  <2>1. Total(T) \in Nat
        /\ Total(T)' = Total(T) + (IF t \in T THEN count'[t] - count[t] ELSE 0)
    BY <1>0, TotalMoves, Zenon
  <2>2. At(T, {w}) \in Nat
        /\ At(T, {w})' = At(T, {w}) + (IF t \in T THEN Delta(a, b, {w}) ELSE 0)
    BY <1>0, <1>1, AtMoves, Zenon
  <2>3. Delta(a, b, {w}) \in Int
    BY DEF Delta
  <2> QED BY <1>0, <2>1, <2>2, <2>3
<1>3. ManyProducers => Total(Producers)' + At(Producers, {"p_post"})' = nput'
  <2> SUFFICES ASSUME ManyProducers
               PROVE  Total(Producers)' + At(Producers, {"p_post"})' = nput'
    OBVIOUS
  <2>1. Total(Producers) + At(Producers, {"p_post"}) = nput
    BY DEF SumInv
  <2>2. nput' = nput + (IF t \in Producers
                        THEN count'[t] - count[t] + Delta(a, b, {"p_post"}) ELSE 0)
    BY <1>0, <1>1, SumStep
  <2> QED BY <1>0, <1>2, <2>1, <2>2
<1>4. ManyConsumers => Total(Consumers)' + At(Consumers, {"c_post"})' = nget'
  <2> SUFFICES ASSUME ManyConsumers
               PROVE  Total(Consumers)' + At(Consumers, {"c_post"})' = nget'
    OBVIOUS
  <2>1. Total(Consumers) + At(Consumers, {"c_post"}) = nget
    BY DEF SumInv
  <2>2. nget' = nget + (IF t \in Consumers
                        THEN count'[t] - count[t] + Delta(a, b, {"c_post"}) ELSE 0)
    BY <1>0, <1>1, SumStep
  <2> QED BY <1>0, <1>2, <2>1, <2>2
<1> QED BY <1>0, <1>3, <1>4 DEF SumInv

\* The consumer of mycat2 that finds the end of the file has written all.
LEMMA StopsAtEnd ==
  ASSUME IInv, NEW t \in Consumers, cat_stop(t)
  PROVE  prog = "mycat2" /\ Ended /\ nget = nput
<1>1. /\ pc[t] = "c_write" /\ buff[nget % NBUFF] = EndOfFile /\ t \in Threads
  BY DEF cat_stop, Goto, Threads
<1>2. prog = "mycat2"
  BY <1>1 DEF IInv, PlaceInv
<1>3. nget \in Nat /\ nput \in Nat /\ nget <= nput /\ sem["nstored"] \in Nat
  BY ProdConsAssumption, SemIs DEF IInv, TypeOK, PlacesInv, SemNames
<1>4. nget = nput
  <2> SUFFICES ASSUME nget < nput PROVE FALSE
    BY <1>3
  <2>1. PICK f \in [nget..nput -> 0..MaxItems] :
          \A i \in nget..nput-1 :
            buff[i % NBUFF] = ReadFailed \/ buff[i % NBUFF] = f[i]
    BY <1>2 DEF IInv, BlocksInv
  <2>2. nget \in nget..nput-1 /\ nget \in nget..nput
    BY <1>3
  <2>3. f[nget] \in 0..MaxItems
    BY <2>1, <2>2
  <2>4. buff[nget % NBUFF] = ReadFailed \/ buff[nget % NBUFF] = f[nget]
    BY <2>1, <2>2
  <2> QED BY <1>1, <2>3, <2>4, ProdConsAssumption DEF EndOfFile, ReadFailed
<1>5. Ended
  <2>1. Fetching \in Nat /\ Fetching >= 1
    <3>1. Consumers \in SUBSET Threads
      BY DEF Threads
    <3>2. pc[t] \in {"c_lock", "c_fetch", "c_count", "c_write"}
      BY <1>1
    <3> QED BY <3>1, <3>2, AtSome DEF Fetching
  <2>2. nget + sem["nstored"] + Fetching + Posting <= nput + (IF Ended THEN 1 ELSE 0)
    BY <1>2 DEF IInv, TokensInv, ManyConsumers
  <2> QED BY <1>3, <1>4, <2>1, <2>2, FlowTypes
<1> QED BY <1>2, <1>4, <1>5

\* How a consumer returns.
LEMMA ConsumerReturns ==
  ASSUME TypeOK, PlaceInv, NEW t \in Consumers, Step(t), pc'[t] = "done"
  PROVE  consume_return(t) \/ consume_all_done(t) \/ cat_stop(t)
<1>0. t \in Threads /\ t \notin Producers
  BY ProdConsAssumption DEF Threads
<1>1. /\ ~produce_wait(t) /\ ~produce_return(t) /\ ~produce_lock(t)
      /\ ~produce_all_done(t) /\ ~produce_store(t) /\ ~produce_count(t)
      /\ ~produce_post(t) /\ ~cat_unlock(t) /\ ~cat_read(t) /\ ~cat_eof(t) /\ ~cat_next(t)
      /\ ~client_slot(t) /\ ~client_copy(t) /\ ~client_full(t) /\ ~client_overflow(t)
      /\ ~client_counted(t)
  BY <1>0, ProducerFlows
<1>2. \A x, y : Goto(t, x, y) => y = "done"
  BY <1>0 DEF Goto, TypeOK
<1>3. /\ ~consume_wait(t) /\ ~consume_lock(t) /\ ~consume_fetch(t) /\ ~consume_count(t)
      /\ ~consume_post(t) /\ ~cat_consume_unlock(t) /\ ~cat_write(t)
      /\ ~server_overflow(t) /\ ~server_unlock(t)
  <2>1. ~consume_wait(t) /\ ~consume_lock(t) /\ ~consume_fetch(t) /\ ~consume_count(t)
    BY <1>2 DEF consume_wait, consume_lock, consume_fetch, consume_count
  <2>2. ~consume_post(t)
    <3>1. ~Goto(t, "c_post", "c_over") /\ ~Goto(t, "c_post", "consume")
      BY <1>2
    <3> QED BY <3>1 DEF consume_post
  <2>3. ~cat_consume_unlock(t) /\ ~cat_write(t) /\ ~server_overflow(t) /\ ~server_unlock(t)
    BY <1>2 DEF cat_consume_unlock, cat_write, server_overflow, server_unlock
  <2> QED BY <2>1, <2>2, <2>3
<1> QED BY <1>1, <1>3 DEF Step, BufferStep, LogStep

\* The last consumer to return has seen the end.
LEMMA EndKept ==
  ASSUME IInv, EndInv, NEW t \in Threads, Step(t)
  PROVE  EndInv'
<1> SUFFICES ASSUME \A u \in Consumers : pc'[u] = "done"
             PROVE  /\ ~MessageLog'
                    /\ IF prog' = "mycat2" THEN Ended' /\ nget' = nput'
                       ELSE nget' >= nitems'
  BY DEF EndInv
<1>0. /\ TypeOK /\ PlaceInv /\ nget \in Nat /\ nput \in Nat /\ nitems \in Nat
      /\ nget' \in {nget, nget + 1} /\ (Ended => Ended')
      /\ prog' = prog /\ nitems' = nitems /\ (MessageLog <=> MessageLog')
      /\ Threads = Producers \cup Consumers
  <2>1. TypeOK /\ PlaceInv /\ nget \in Nat /\ nput \in Nat /\ nitems \in Nat
    BY ProdConsAssumption DEF IInv, TypeOK
  <2>2. prog' = prog /\ nitems' = nitems
    BY StepMoves DEF args
  <2> QED BY <2>1, <2>2, PutsMove, DoneStays DEF MessageLog, Threads
<1>1. PICK a, b \in Places : Goto(t, a, b) /\ a # "done"
  BY StepMoves
<1>2. /\ pc[t] # "done" /\ \A u \in Threads \ {t} : pc'[u] = pc[u]
  BY <1>0, <1>1 DEF Goto, TypeOK
<1>3. CASE t \in Consumers
  <2>1. consume_return(t) \/ consume_all_done(t) \/ cat_stop(t)
    BY <1>0, <1>3, ConsumerReturns
  <2>2. CASE consume_return(t) \/ consume_all_done(t)
    <3>1. prog # "mycat2" /\ ~MessageLog /\ nget >= nitems
      BY <2>2 DEF consume_return, consume_all_done, ManyConsumers, MessageLog
    <3> QED BY <1>0, <3>1
  <2>3. CASE cat_stop(t)
    <3>1. prog = "mycat2" /\ Ended /\ nget = nput
      BY <1>3, <2>3, StopsAtEnd
    <3>2. nget' = nget /\ nput' = nput
      BY <2>3 DEF cat_stop, puts, gets
    <3> QED BY <1>0, <3>1, <3>2 DEF MessageLog
  <2> QED BY <2>1, <2>2, <2>3
<1>4. CASE t \notin Consumers
  <2>1. \A u \in Consumers : pc[u] = "done"
    BY <1>0, <1>2, <1>4
  <2>2. ~MessageLog /\ IF prog = "mycat2" THEN Ended /\ nget = nput ELSE nget >= nitems
    BY <2>1 DEF EndInv
  <2>3. ~Ended
    BY <1>0, <1>2, <1>4 DEF Ended
  <2> QED BY <1>0, <2>2, <2>3
<1> QED BY <1>3, <1>4

\* mycat2's producer tells of the end when it has read the whole file.
LEMMA LastKept ==
  ASSUME IInv, LastInv, NEW t \in Threads, Step(t)
  PROVE  LastInv'
<1> SUFFICES ASSUME prog = "mycat2"
             PROVE  (Ended \/ (AtNext /\ Slot = EndOfFile))' => nputval' = nitems'
  <2>1. prog' = prog
    BY StepMoves DEF args
  <2> QED BY <2>1 DEF LastInv
<1>0. /\ TypeOK /\ PlaceInv /\ SoloInv /\ nitems' = nitems /\ nputval \in Int
      /\ buff \in [0..NBUFF-1 -> Int] /\ nput % NBUFF \in 0..NBUFF-1
      /\ (Ended \/ (AtNext /\ Slot = EndOfFile) => nputval = nitems)
  <2>1. nput \in Nat /\ nputval \in Nat /\ buff \in [0..NBUFF-1 -> Int]
    BY ProdConsAssumption DEF IInv, TypeOK
  <2>2. nitems' = nitems
    BY StepMoves DEF args
  <2>3. nput % NBUFF \in 0..NBUFF-1
    BY <2>1, ModType
  <2> QED BY <2>1, <2>2, <2>3 DEF IInv, LastInv
<1>1. CASE cat_read(t)
  <2>1. ~Ended' /\ nput' = nput
    BY <1>0, <1>1, CatMoves DEF cat_read
  <2>2. PICK n \in {nputval, EndOfFile, ReadFailed} :
          /\ n = EndOfFile => nputval = nitems
          /\ buff' = [buff EXCEPT ![nput % NBUFF] = n]
          /\ nputval' = IF n = nputval THEN nputval + 1 ELSE nputval
    BY <1>1 DEF cat_read
  <2>3. Slot' = n
    BY <1>0, <2>1, <2>2 DEF Slot
  <2>4. n = EndOfFile => nputval # n
    <3>1. nputval \in Nat
      BY ProdConsAssumption DEF IInv, TypeOK
    <3> QED BY <3>1 DEF EndOfFile
  <2> QED BY <1>0, <2>1, <2>2, <2>3, <2>4
<1>2. CASE cat_eof(t)
  <2>1. AtNext /\ Slot = EndOfFile /\ nputval' = nputval
    BY <1>0, <1>2, CatMoves DEF cat_eof, puts, Slot
  <2> QED BY <1>0, <2>1
<1>3. CASE cat_next(t)
  <2>1. ~AtNext' /\ ~Ended'
    BY <1>0, <1>3, CatMoves
  <2> QED BY <2>1
<1>4. CASE cat_write(t) \/ CatIdle(t)
  <2>1. AtNext' = AtNext /\ Ended' = Ended /\ Slot' = Slot /\ nputval' = nputval
    BY <1>0, <1>4, CatMoves DEF cat_write, CatIdle, puts, Slot
  <2> QED BY <1>0, <2>1
<1> QED BY <1>0, <1>1, <1>2, <1>3, <1>4, CatStep

\* No message of the log is forgotten on its way to the server.
LEMMA ServedKept ==
  ASSUME IInv, ServedInv, NEW t \in Threads, Step(t)
  PROVE  ServedInv'
<1> SUFFICES ASSUME MessageLog
             PROVE  nput' <= nget' + sem'["nstored"] + Fetching' + Posting'
  <2>1. prog' = prog
    BY StepMoves DEF args
  <2> QED BY <2>1 DEF ServedInv, MessageLog
<1>0. TypeOK /\ PlaceInv /\ sem \in [SemNames -> Nat] /\ "nstored" \in SemNames
  BY SemIs DEF IInv, SemNames
<1>1. /\ nget \in Nat /\ nput \in Nat /\ sem["nstored"] \in Nat
      /\ nput <= nget + sem["nstored"] + Fetching + Posting
  BY <1>0, ProdConsAssumption DEF TypeOK, ServedInv
<1>2. ASSUME NEW fill, NEW free, NEW post \in Int, NEW done, NEW fetch \in Int,
             NEW empty, NEW stored \in Int, NEW get \in Int, NEW put \in Int,
             Flow(fill, post, done, fetch, free), SemFlow(empty, stored), Moves(get, put),
             get + stored + fetch + post >= put
      PROVE  nput' <= nget' + sem'["nstored"] + Fetching' + Posting'
  BY <1>1, <1>2, FlowTypes DEF Flow, SemFlow, Moves
<1>3. CASE produce_count(t)
  <2>1. Moves(0, 1)
    BY <1>1, <1>3 DEF Moves, produce_count, gets
  <2> QED BY <1>0, <1>2, <1>3, <2>1, ProducerFlows, SemFlows
<1>4. CASE consume_count(t)
  <2>1. Moves(1, 0)
    BY <1>1, <1>4 DEF Moves, consume_count, puts
  <2> QED BY <1>0, <1>2, <1>4, <2>1, ConsumerFlows, SemFlows
<1>5. CASE ~produce_count(t) /\ ~consume_count(t)
  <2>1. /\ ~produce_all_done(t) /\ ~consume_all_done(t)
        /\ ~cat_unlock(t) /\ ~cat_read(t) /\ ~cat_eof(t) /\ ~cat_next(t)
        /\ ~cat_consume_unlock(t) /\ ~cat_stop(t) /\ ~cat_write(t)
    BY <1>0 DEF MessageLog, produce_all_done, AllPut, ManyProducers, ManyConsumers,
                consume_all_done, cat_unlock, cat_read, cat_eof, cat_next,
                cat_consume_unlock, cat_stop, cat_write, PlaceInv, Goto
  <2>2. Moves(0, 0)
    BY <1>0, <1>5, <2>1, StaysPut
  <2>3. CASE produce_wait(t) \/ produce_return(t) \/ produce_lock(t) \/ produce_store(t)
    <3>1. CASE produce_wait(t)
      BY <1>0, <1>2, <2>2, <3>1, ProducerFlows, SemFlows
    <3>2. CASE produce_return(t)
      BY <1>0, <1>2, <2>2, <3>2, ProducerFlows, SemFlows
    <3>3. CASE produce_lock(t) \/ produce_store(t)
      <4>1. SemFlow(0, 0) /\ Flow(0, 0, 0, 0, 0)
        BY <1>0, <3>3, ProducerFlows, SemFlows
      <4> QED BY <1>2, <2>2, <4>1
    <3> QED BY <2>3, <3>1, <3>2, <3>3
  <2>4. CASE produce_post(t)
    BY <1>0, <1>2, <2>2, <2>4, ProducerFlows, SemFlows
  <2>5. CASE client_slot(t) \/ client_copy(t) \/ client_full(t) \/ client_overflow(t)
             \/ client_counted(t)
    <3>1. SemFlow(0, 0) /\ Flow(0, 0, 0, 0, 0)
      BY <1>0, <2>5, ProducerFlows, SemFlows
    <3> QED BY <1>2, <2>2, <3>1
  <2>6. CASE consume_wait(t)
    BY <1>0, <1>2, <2>2, <2>6, ConsumerFlows, SemFlows
  <2>7. CASE consume_return(t) \/ consume_lock(t) \/ consume_fetch(t)
             \/ server_overflow(t) \/ server_unlock(t)
    <3>1. SemFlow(0, 0) /\ Flow(0, 0, 0, 0, 0)
      BY <1>0, <2>7, ConsumerFlows, SemFlows
    <3> QED BY <1>2, <2>2, <3>1
  <2>8. CASE consume_post(t)
    BY <1>0, <1>2, <2>2, <2>8, ConsumerFlows, SemFlows
  <2> QED BY <1>5, <2>1, <2>3, <2>4, <2>5, <2>6, <2>7, <2>8 DEF Step, BufferStep, LogStep
<1> QED BY <1>3, <1>4, <1>5

\* The invariant holds when main has created the threads: of each kind there
\* is one at least, and nothing is counted.
LEMMA InitMoved == Init => MovedInv
<1> SUFFICES ASSUME Init PROVE MovedInv
  OBVIOUS
<1>1. /\ nput = 0 /\ nget = 0 /\ sem["nstored"] = 0
      /\ count = [t \in Threads |-> 0]
  BY DEF Init, FullSems
<1>2. PICK P \in (SUBSET Producers) \ {{}}, C \in (SUBSET Consumers) \ {{}} :
        pc = [t \in Threads |-> IF t \in P THEN "produce"
                                ELSE IF t \in C THEN "consume" ELSE "done"]
  BY DEF Init
<1>3. /\ \A t \in Threads : pc[t] \in {"produce", "consume", "done"}
      /\ \E t \in Consumers : pc[t] # "done"
      /\ \E t \in Producers : pc[t] # "done"
  BY <1>2 DEF Threads
<1>4. EndInv /\ LastInv
  BY <1>3 DEF EndInv, LastInv, Ended, AtNext, Threads
<1>5. ASSUME NEW T \in SUBSET Threads, NEW w, w \notin {"produce", "consume", "done"}
      PROVE  Total(T) = 0 /\ At(T, {w}) = 0
  <2>1. {t \in T : pc[t] \in {w}} = {}
    BY <1>3, <1>5
  <2>2. UNION {{t} \X (1..count[t]) : t \in T} = {}
    <3>1. \A t \in T : 1..count[t] = {}
      BY <1>1
    <3> QED BY <3>1
  <2> QED BY <2>1, <2>2, FS_EmptySet DEF At, Total
<1>6. SumInv
  <2>1. Producers \in SUBSET Threads /\ Consumers \in SUBSET Threads
    BY DEF Threads
  <2>2. /\ Total(Producers) = 0 /\ At(Producers, {"p_post"}) = 0
        /\ Total(Consumers) = 0 /\ At(Consumers, {"c_post"}) = 0
    <3>1. "p_post" \notin {"produce", "consume", "done"}
          /\ "c_post" \notin {"produce", "consume", "done"}
      OBVIOUS
    <3> QED BY <1>5, <2>1, <3>1, Zenon
  <2> QED BY <1>1, <2>2 DEF SumInv
<1>7. ServedInv
  BY <1>1, FlowTypes DEF ServedInv
<1> QED BY <1>4, <1>6, <1>7 DEF MovedInv

\* Every step preserves it.
LEMMA NextMoved == IInv /\ MovedInv /\ [Next]_vars => MovedInv'
<1> SUFFICES ASSUME IInv, MovedInv, [Next]_vars PROVE MovedInv'
  OBVIOUS
<1>1. CASE Next
  <2>1. PICK t \in Threads : Step(t)
    BY <1>1 DEF Next
  <2>2. EndInv' /\ LastInv' /\ ServedInv' /\ SumInv'
    BY <2>1, EndKept, LastKept, ServedKept, SumKept DEF MovedInv
  <2> QED BY <2>2 DEF MovedInv
<1>2. CASE UNCHANGED vars
  <2> USE DEF vars, args, puts, gets, logs
  <2>1. EndInv'
    BY <1>2 DEF MovedInv, EndInv, MessageLog, Ended
  <2>2. LastInv'
    BY <1>2 DEF MovedInv, LastInv, Ended, AtNext, Slot
  <2>3. ServedInv'
    BY <1>2 DEF MovedInv, ServedInv, MessageLog, Fetching, Posting, At
  <2>4. SumInv'
    BY <1>2 DEF MovedInv, SumInv, ManyProducers, ManyConsumers, Total, At
  <2> QED BY <2>1, <2>2, <2>3, <2>4 DEF MovedInv
<1> QED BY <1>1, <1>2

\* That all items have been moved follows.
LEMMA MovedInvMoves == IInv /\ MovedInv => AllMoved
<1> SUFFICES ASSUME IInv, MovedInv, Done
             PROVE  /\ Len(out) + noverflow = IF MessageLog
                                              THEN nitems * Cardinality(Clients)
                                              ELSE nitems
                    /\ ManyProducers => Total(Producers) = nitems
                    /\ ManyConsumers => Total(Consumers) = nitems
  BY DEF AllMoved
<1>0. /\ nget \in Nat /\ nput \in Nat /\ nget <= nput /\ nitems \in Nat /\ noverflow \in Nat
      /\ sem["nstored"] \in Nat /\ count \in [Threads -> Nat]
      /\ Producers \in SUBSET Threads /\ Consumers \in SUBSET Threads /\ PlaceInv
      /\ prog \in Programs /\ TypeOK
  BY ProdConsAssumption, SemIs DEF IInv, TypeOK, PlacesInv, SemNames, Threads
<1>1. /\ \A t \in Producers : pc[t] = "done"
      /\ \A t \in Consumers : pc[t] = "done" \/ (pc[t] = "consume" /\ MessageLog)
      /\ MessageLog => \A t \in Consumers : pc[t] = "done" \/ sem["nstored"] = 0
  BY <1>0 DEF Done, PlaceInv, ProducerPlaces
<1>2. ASSUME NEW T \in SUBSET Threads, NEW W, \A t \in T : pc[t] \notin W
      PROVE  At(T, W) = 0
  <2>1. {t \in T : pc[t] \in W} = {}
    BY <1>2
  <2> QED BY <2>1, FS_EmptySet DEF At
<1>3. CASE MessageLog
  <2>1. sem["nstored"] = 0
    BY <1>1, <1>3 DEF MovedInv, EndInv
  <2>2. Fetching = 0 /\ Posting = 0
    BY <1>0, <1>1, <1>2 DEF Fetching, Posting
  <2>3. nget = nput
    BY <1>0, <1>3, <2>1, <2>2 DEF MovedInv, ServedInv
  <2>4. Len(out) = nget
    BY <1>0, <1>1, <1>3 DEF IInv, ItemsInv, MessageLog
  <2>5. Clients = {t \in Producers : count[t] > 0}
    BY <1>1 DEF Clients
  <2>6. Begun = Clients \X (0..nitems-1)
    <3>1. \A t \in Producers : count[t] \in {0, nitems}
      BY <1>1, <1>3 DEF IInv, CountInv
    <3>2. \A t \in Producers, i \in 0..nitems-1 :
            (i < count[t] \/ (i = count[t] /\ pc[t] \in {"p_post", "p_copied"}))
              <=> t \in Clients
      BY <1>0, <1>1, <2>5, <3>1
    <3> QED BY <2>5, <3>2 DEF Begun
  <2>7. Cardinality(Begun) = nitems * Cardinality(Clients)
    <3>1. 0 \in Int /\ nitems - 1 \in Int
      BY <1>0
    <3>2. /\ IsFiniteSet(0..nitems-1)
          /\ Cardinality(0..nitems-1) = IF 0 > nitems - 1 THEN 0 ELSE (nitems - 1) - 0 + 1
      BY <3>1, FS_Interval, Zenon
    <3>3. Cardinality(0..nitems-1) = nitems
      BY <1>0, <3>2
    <3>4. Cardinality(Clients \X (0..nitems-1))
            = Cardinality(Clients) * Cardinality(0..nitems-1)
      BY <3>2, ClientsFinite, FS_Product
    <3> QED BY <1>0, <2>6, <3>3, <3>4, ClientsFinite
  <2>8. nput + noverflow = Cardinality(Begun)
    BY <1>3 DEF IInv, LogInv
  <2>9. ~ManyProducers /\ ~ManyConsumers
    BY <1>3 DEF MessageLog, ManyProducers, ManyConsumers
  <2> QED BY <1>3, <2>3, <2>4, <2>7, <2>8, <2>9
<1>4. CASE prog = "mycat2"
  <2>1. ~MessageLog /\ ~ManyProducers /\ ~ManyConsumers /\ noverflow = 0
    BY <1>4 DEF MessageLog, ManyProducers, ManyConsumers, IInv, LogInv
  <2>2. Ended /\ nget = nput /\ nputval = nitems
    BY <1>1, <1>4, <2>1 DEF MovedInv, EndInv, LastInv
  <2>3. ~AtNext
    BY <1>1 DEF AtNext
  <2>4. PICK f \in [nget..nput -> 0..MaxItems] :
          f[nget] = Len(out) /\ nputval = f[nput] + (IF AtNext /\ Slot >= 0 THEN 1 ELSE 0)
    BY <1>4 DEF IInv, BlocksInv
  <2>5. f[nput] \in Nat
    BY <1>0, <2>4
  <2>6. Len(out) = nitems
    BY <2>2, <2>3, <2>4, <2>5
  <2> QED BY <1>0, <2>1, <2>6
<1>5. CASE ~MessageLog /\ prog # "mycat2"
  <2>1. nget >= nitems
    BY <1>1, <1>5 DEF MovedInv, EndInv
  <2>2. nput <= nitems
    BY <1>0, <1>5 DEF IInv, NputInv, Programs, MessageLog
  <2>3. nget = nitems /\ nput = nitems
    BY <1>0, <2>1, <2>2
  <2>4. Len(out) = nget /\ noverflow = 0
    BY <1>0, <1>1, <1>5 DEF IInv, ItemsInv, LogInv
  <2>5. ManyProducers => Total(Producers) = nitems
    <3>1. At(Producers, {"p_post"}) = 0
      BY <1>0, <1>1, <1>2
    <3>2. ManyProducers => Total(Producers) + 0 = nput
      BY <3>1 DEF MovedInv, SumInv
    <3>3. Total(Producers) \in Nat
      BY <1>0, TotalType
    <3> QED BY <2>3, <3>2, <3>3
  <2>6. ManyConsumers => Total(Consumers) = nitems
    <3>1. At(Consumers, {"c_post"}) = 0
      BY <1>0, <1>1, <1>2
    <3>2. ManyConsumers => Total(Consumers) + 0 = nget
      BY <3>1 DEF MovedInv, SumInv
    <3>3. Total(Consumers) \in Nat
      BY <1>0, TotalType
    <3> QED BY <2>3, <3>2, <3>3
  <2> QED BY <1>0, <1>5, <2>3, <2>4, <2>5, <2>6
<1> QED BY <1>3, <1>4, <1>5

\* When every thread has returned, all items have been printed or written, or
\* counted as overflow, and the counts that main prints add up to nitems.
THEOREM MovedCorrect == Spec => []AllMoved
<1>1. Spec => []MovedInv
  <2>1. IInv /\ MovedInv /\ [Next]_vars => MovedInv'
    BY NextMoved
  <2> QED BY InitMoved, <2>1, Invariance, PTL DEF Spec
<1> QED BY <1>1, MovedInvMoves, Invariance, PTL
=============================================================================
