------------------------ MODULE ProdConsMutexProofs -------------------------
(***************************************************************************)
(* Proofs about ProdConsMutex, for any producers and any nitems, in each   *)
(* of the three programs: the consumer reads only what has been stored,    *)
(* never finds a wrong value, and never sleeps beside an announced item.   *)
(***************************************************************************)
EXTENDS ProdConsMutex, FiniteSetTheorems, TLAPS

\* The producers that have counted an item and not yet announced it.
Announcing == {t \in Producers : pc[t] = "announce"}

\* Where the threads can be; only prodcons6 announces and sleeps.
PlaceInv ==
  /\ \A t \in Producers :
       pc[t] \in {"produce", "store", "count", "announce", "tally", "done"}
  /\ pc[Consumer] \in {"consume", "asleep", "woken", "check", "done"}
  /\ prog # "prodcons6" =>
       /\ \A t \in Producers : pc[t] # "announce"
       /\ pc[Consumer] \notin {"asleep", "woken"}

\* The mutex is held by the producer that is inside, and only then.
MutexInv == \A t \in Producers : pc[t] \in {"store", "count"} <=> holder = t

\* The array holds 0..nput-1, and the value of a producer about to count.
StoredInv ==
  /\ nval = nput /\ nput <= nitems
  /\ \A n \in 0..nput-1 : buff[n] = n
  /\ \A t \in Producers : pc[t] = "count" => nput < nitems /\ buff[nput] = nput

\* A producer has tallied fewer items than were counted while it has one more
\* to tally.
TallyInv ==
  \A t \in Producers :
    count[t] + (IF pc[t] \in {"announce", "tally"} THEN 1 ELSE 0) <= nput

\* A producer returns only from a full array.
JoinInv == (\A t \in Producers : pc[t] = "done") => nput >= nitems

\* Every counted item is to be announced, is announced, or has been taken.
ReadyInv ==
  IF prog = "prodcons6"
  THEN nready + Cardinality(Announcing) + i
         + (IF pc[Consumer] = "check" THEN 1 ELSE 0) = nput
  ELSE nready = 0

\* The consumer is behind the producers, has found every value in its place,
\* and waits only for an item that is still to come.
BehindInv ==
  /\ i <= nput /\ ~wrong
  /\ pc[Consumer] \in {"asleep", "woken", "check"} => i < nitems

IInv == /\ TypeOK /\ PlaceInv /\ MutexInv /\ StoredInv /\ TallyInv /\ JoinInv
        /\ ReadyInv /\ BehindInv /\ ReadsStored /\ SleepsOnlyAtZero
-----------------------------------------------------------------------------

\* Nobody but t enters or leaves the announcing producers.
OthersStay(t) ==
  \A u \in Producers \ {t} : pc'[u] = "announce" <=> pc[u] = "announce"

\* Finitely many producers are announcing, at least one if t is.
LEMMA AnnouncingFinite ==
  /\ IsFiniteSet(Announcing) /\ Cardinality(Announcing) \in Nat
  /\ Cardinality(Announcing) = 0 <=> Announcing = {}
<1>1. IsFiniteSet(Announcing)
  BY ProdConsAssumption, FS_Subset DEF Announcing
<1> QED BY <1>1, FS_CardinalityType, FS_EmptySet

\* How many producers are announcing after a step of t.
LEMMA AnnouncingMoves ==
  ASSUME NEW t, OthersStay(t)
  PROVE  Cardinality(Announcing)' =
           IF t \in Producers /\ pc[t] = "announce" /\ pc'[t] # "announce"
           THEN Cardinality(Announcing) - 1
           ELSE IF t \in Producers /\ pc[t] # "announce" /\ pc'[t] = "announce"
           THEN Cardinality(Announcing) + 1
           ELSE Cardinality(Announcing)
<1> DEFINE A == {u \in Producers : pc[u] = "announce"}
           B == {u \in Producers : pc'[u] = "announce"}
<1>1. Announcing = A /\ Cardinality(Announcing)' = Cardinality(B)
  BY DEF Announcing
<1>2. IsFiniteSet(A) /\ IsFiniteSet(B)
  BY ProdConsAssumption, FS_Subset
<1>3. CASE t \in A /\ t \notin B
  <2>1. B = A \ {t}
    BY <1>3 DEF OthersStay
  <2> QED BY <1>1, <1>2, <1>3, <2>1, FS_RemoveElement
<1>4. CASE t \notin A /\ t \in B
  <2>1. B = A \cup {t}
    BY <1>4 DEF OthersStay
  <2> QED BY <1>1, <1>2, <1>4, <2>1, FS_AddElement
<1>5. CASE t \in A <=> t \in B
  <2>1. B = A
    BY <1>5 DEF OthersStay
  <2> QED BY <1>1, <1>5, <2>1
<1> QED BY <1>3, <1>4, <1>5

\* Initially nothing is stored, counted or announced, and a producer runs.
LEMMA InitInv == Init => IInv
<1> SUFFICES ASSUME Init PROVE IInv
  OBVIOUS
<1> USE ProdConsAssumption
<1>1. PICK P \in (SUBSET Producers) \ {{}} :
        pc = [t \in Threads |-> CASE t \in P -> "produce"
                                  [] t = Consumer -> "consume"
                                  [] OTHER -> "done"]
  BY DEF Init
<1>2. /\ \A t \in Producers : pc[t] = IF t \in P THEN "produce" ELSE "done"
      /\ pc[Consumer] = "consume" /\ \E t \in Producers : t \in P
  BY <1>1 DEF Threads
<1>3. TypeOK
  <2>1. /\ buff \in [0..MaxItems-1 -> 0..MaxItems] /\ count \in [Producers -> 0..MaxItems]
        /\ nput \in 0..MaxItems /\ nval \in 0..MaxItems /\ nready \in 0..MaxItems
        /\ i \in 0..MaxItems
    BY DEF Init
  <2>4. wrong \in BOOLEAN /\ holder \in Producers \cup {Nobody}
        /\ prog \in {"prodcons2", "prodcons3", "prodcons6"} /\ nitems \in 0..MaxItems
    BY DEF Init
  <2>2. \A t \in Threads : pc[t] \in {"produce", "consume", "done"}
    BY <1>2 DEF Threads
  <2>3. pc \in [Threads -> {"produce", "store", "count", "announce", "tally", "consume",
                           "asleep", "woken", "check", "done"}]
    <3> DEFINE start(t) == CASE t \in P -> "produce"
                             [] t = Consumer -> "consume"
                             [] OTHER -> "done"
    <3>1. pc = [t \in Threads |-> start(t)]
      BY <1>1
    <3> HIDE DEF start
    <3>2. pc = [t \in Threads |-> pc[t]]
      BY <3>1
    <3> QED BY <3>2, <2>2
  <2> QED BY <2>1, <2>3, <2>4 DEF TypeOK
<1>4. Cardinality(Announcing) = 0
  <2>1. Announcing = {}
    BY <1>2 DEF Announcing
  <2> QED BY <2>1, AnnouncingFinite
<1>5. PlaceInv /\ MutexInv /\ TallyInv
  BY <1>2, <1>3 DEF Init, TypeOK, PlaceInv, MutexInv, TallyInv
<1>6. StoredInv /\ JoinInv
  <2>1. nput = 0 /\ nval = 0 /\ 0 <= nitems
    BY <1>3 DEF Init, TypeOK
  <2>2. StoredInv
    BY <1>2, <2>1 DEF StoredInv
  <2> QED BY <1>2, <2>2 DEF JoinInv
<1>7. ReadyInv /\ BehindInv /\ ReadsStored /\ SleepsOnlyAtZero
  <2>1. nready = 0 /\ i = 0 /\ nput = 0
    BY DEF Init
  <2>2. ~wrong
    BY DEF Init
  <2>3. ReadyInv
    BY <1>2, <1>4, <2>1 DEF ReadyInv
  <2> QED BY <1>2, <2>1, <2>2, <2>3 DEF BehindInv, ReadsStored, SleepsOnlyAtZero
<1> QED BY <1>3, <1>5, <1>6, <1>7 DEF IInv

\* A step that only moves t.
LEMMA GotoMoves ==
  ASSUME TypeOK, NEW t \in Threads, NEW from,
         NEW to \in {"produce", "store", "count", "announce", "tally", "consume",
                     "asleep", "woken", "check", "done"}, Goto(t, from, to)
  PROVE  /\ pc[t] = from /\ pc'[t] = to
         /\ \A u \in Threads \ {t} : pc'[u] = pc[u]
         /\ pc' \in [Threads -> {"produce", "store", "count", "announce", "tally",
                                 "consume", "asleep", "woken", "check", "done"}]
  BY DEF Goto, TypeOK

\* A producer's step preserves the invariant.
LEMMA ProduceInv ==
  ASSUME IInv, UNCHANGED args, NEW t \in Producers, produce(t)
  PROVE  IInv'
<1> USE ProdConsAssumption DEF args, puts, Threads
<1>0. TypeOK /\ t \in Threads /\ Consumer \in Threads /\ t # Consumer
  BY DEF IInv
<1>1. CASE produce_lock(t)
  <2>1. /\ pc[t] = "produce" /\ pc'[t] = "store"
        /\ \A u \in Threads \ {t} : pc'[u] = pc[u]
    BY <1>0, <1>1, GotoMoves DEF produce_lock
  <2>2. TypeOK'
    BY <1>0, <1>1, GotoMoves DEF produce_lock, TypeOK
  <2>3. MutexInv'
    BY <1>0, <1>1, <2>1 DEF produce_lock, IInv, MutexInv, TypeOK
  <2>4. ReadyInv'
    BY <1>0, <1>1, <2>1, AnnouncingMoves DEF produce_lock, IInv, ReadyInv, OthersStay
  <2>5. StoredInv' /\ TallyInv' /\ JoinInv'
    BY <1>0, <1>1, <2>1
    DEF produce_lock, IInv, TypeOK, StoredInv, TallyInv, JoinInv
  <2>6. PlaceInv' /\ BehindInv' /\ ReadsStored' /\ SleepsOnlyAtZero'
    BY <1>0, <1>1, <2>1
    DEF produce_lock, IInv, TypeOK, PlaceInv, BehindInv, ReadsStored, SleepsOnlyAtZero
  <2> QED BY <2>2, <2>3, <2>4, <2>5, <2>6 DEF IInv
<1>2. CASE produce_return(t)
  <2>1. /\ pc[t] = "store" /\ pc'[t] = "done"
        /\ \A u \in Threads \ {t} : pc'[u] = pc[u]
    BY <1>0, <1>2, GotoMoves DEF produce_return
  <2>2. TypeOK'
    BY <1>0, <1>2, GotoMoves DEF produce_return, TypeOK
  <2>3. MutexInv'
    BY <1>0, <1>2, <2>1 DEF produce_return, IInv, MutexInv, TypeOK
  <2>4. ReadyInv'
    BY <1>0, <1>2, <2>1, AnnouncingMoves DEF produce_return, IInv, ReadyInv, OthersStay
  <2>5. StoredInv' /\ TallyInv' /\ JoinInv'
    BY <1>0, <1>2, <2>1
    DEF produce_return, IInv, TypeOK, StoredInv, TallyInv, JoinInv
  <2>6. PlaceInv' /\ BehindInv' /\ ReadsStored' /\ SleepsOnlyAtZero'
    BY <1>0, <1>2, <2>1
    DEF produce_return, IInv, TypeOK, PlaceInv, BehindInv, ReadsStored, SleepsOnlyAtZero
  <2> QED BY <2>2, <2>3, <2>4, <2>5, <2>6 DEF IInv
<1>3. CASE produce_store(t)
  <2>1. /\ pc[t] = "store" /\ pc'[t] = "count"
        /\ \A u \in Threads \ {t} : pc'[u] = pc[u]
    BY <1>0, <1>3, GotoMoves DEF produce_store
  <2>2. TypeOK'
    BY <1>0, <1>3, GotoMoves DEF produce_store, TypeOK
  <2>3. MutexInv'
    BY <1>0, <1>3, <2>1 DEF produce_store, IInv, MutexInv, TypeOK
  <2>4. ReadyInv'
    BY <1>0, <1>3, <2>1, AnnouncingMoves DEF produce_store, IInv, ReadyInv, OthersStay
  <2>5. StoredInv'
    BY <1>0, <1>3, <2>1 DEF produce_store, IInv, TypeOK, MutexInv, StoredInv
  <2>6. TallyInv' /\ JoinInv' /\ PlaceInv' /\ BehindInv' /\ ReadsStored' /\ SleepsOnlyAtZero'
    BY <1>0, <1>3, <2>1
    DEF produce_store, IInv, TypeOK, TallyInv, JoinInv, PlaceInv, BehindInv,
        ReadsStored, SleepsOnlyAtZero
  <2> QED BY <2>2, <2>3, <2>4, <2>5, <2>6 DEF IInv
<1>4. CASE produce_count(t)
  <2>0. PICK to \in {"announce", "tally"} :
          /\ Goto(t, "count", to)
          /\ to = "announce" <=> prog = "prodcons6"
    BY <1>4 DEF produce_count
  <2>1. /\ pc[t] = "count" /\ pc'[t] = to
        /\ \A u \in Threads \ {t} : pc'[u] = pc[u]
    BY <1>0, <2>0, GotoMoves
  <2>2. TypeOK'
    BY <1>0, <1>4, <2>0, <2>1, GotoMoves DEF produce_count, IInv, StoredInv, TypeOK
  <2>3. MutexInv'
    BY <1>0, <1>4, <2>1 DEF produce_count, IInv, MutexInv, TypeOK
  <2>4. ReadyInv'
    <3>1. Cardinality(Announcing)' = IF prog = "prodcons6" THEN Cardinality(Announcing) + 1
                                     ELSE Cardinality(Announcing)
      BY <2>0, <2>1, AnnouncingMoves DEF OthersStay
    <3>2. pc'[Consumer] = pc[Consumer] /\ nput' = nput + 1 /\ UNCHANGED <<nready, i>>
      BY <1>0, <1>4, <2>1 DEF produce_count
    <3>3. CASE prog = "prodcons6"
      BY <3>1, <3>2, <3>3, AnnouncingFinite, SMTT(20) DEF IInv, TypeOK, ReadyInv
    <3>4. CASE prog # "prodcons6"
      BY <3>2, <3>4 DEF IInv, ReadyInv
    <3> QED BY <3>3, <3>4
  <2>5. StoredInv'
    <3>1. nput' <= nitems /\ nval' = nput'
      BY <1>4, <2>1 DEF produce_count, IInv, TypeOK, StoredInv
    <3>2. \A n \in 0..nput : buff[n] = n
      BY <2>1 DEF IInv, TypeOK, StoredInv
    <3>3. \A u \in Producers : pc'[u] # "count"
      BY <2>1 DEF IInv, TypeOK, MutexInv
    <3> QED BY <1>0, <1>4, <3>1, <3>2, <3>3 DEF produce_count, TypeOK, StoredInv
  <2>6. TallyInv' /\ JoinInv'
    BY <1>0, <1>4, <2>1 DEF produce_count, IInv, TypeOK, TallyInv, JoinInv
  <2>7. PlaceInv'
    BY <1>0, <1>4, <2>0, <2>1 DEF produce_count, IInv, PlaceInv
  <2>8. BehindInv' /\ ReadsStored' /\ SleepsOnlyAtZero'
    BY <1>0, <1>4, <2>1
    DEF produce_count, IInv, TypeOK, BehindInv, ReadsStored, SleepsOnlyAtZero
  <2> QED BY <2>2, <2>3, <2>4, <2>5, <2>6, <2>7, <2>8 DEF IInv
<1>5. CASE produce_announce(t)
  <2>1. /\ pc[t] = "announce" /\ pc'[t] = "tally"
        /\ \A u \in Producers \ {t} : pc'[u] = pc[u]
        /\ pc'[Consumer] = IF nready = 0 /\ pc[Consumer] = "asleep"
                           THEN "woken" ELSE pc[Consumer]
        /\ nready' = nready + 1 /\ UNCHANGED <<puts, i, wrong, count>>
    BY <1>0, <1>5 DEF produce_announce, Announced, TypeOK
  <2>2. prog = "prodcons6" /\ Cardinality(Announcing) \in Nat \ {0}
    BY <2>1, AnnouncingFinite DEF IInv, PlaceInv, Announcing
  <2>3. TypeOK'
    <3>1. nready + 1 <= MaxItems
      BY <2>1, <2>2 DEF IInv, TypeOK, ReadyInv
    <3>2. pc' \in [Threads -> {"produce", "store", "count", "announce", "tally",
                              "consume", "asleep", "woken", "check", "done"}]
      BY <1>0, <1>5, <2>1 DEF produce_announce, Announced, TypeOK
    <3> QED BY <1>0, <2>1, <3>1, <3>2 DEF TypeOK
  <2>4. ReadyInv'
    <3>1. Cardinality(Announcing)' = Cardinality(Announcing) - 1
      BY <2>1, AnnouncingMoves DEF OthersStay
    <3>2. pc'[Consumer] = "check" <=> pc[Consumer] = "check"
      BY <2>1
    <3> QED BY <1>0, <2>1, <2>2, <3>1, <3>2 DEF IInv, TypeOK, ReadyInv
  <2>5. SleepsOnlyAtZero'
    BY <2>1 DEF IInv, SleepsOnlyAtZero
  <2>6. PlaceInv' /\ MutexInv' /\ StoredInv' /\ TallyInv' /\ JoinInv'
    BY <1>0, <2>1, <2>2
    DEF IInv, TypeOK, PlaceInv, MutexInv, StoredInv, TallyInv, JoinInv
  <2>7. BehindInv' /\ ReadsStored'
    BY <1>0, <2>1 DEF IInv, TypeOK, BehindInv, ReadsStored
  <2> QED BY <2>3, <2>4, <2>5, <2>6, <2>7 DEF IInv
<1>6. CASE produce_tally(t)
  <2>1. /\ pc[t] = "tally" /\ pc'[t] = "produce"
        /\ \A u \in Threads \ {t} : pc'[u] = pc[u]
    BY <1>0, <1>6, GotoMoves DEF produce_tally
  <2>2. TypeOK'
    BY <1>0, <1>6, <2>1, GotoMoves DEF produce_tally, IInv, TallyInv, TypeOK
  <2>3. TallyInv'
    BY <1>0, <1>6, <2>1 DEF produce_tally, IInv, TypeOK, TallyInv
  <2>4. ReadyInv'
    BY <1>0, <1>6, <2>1, AnnouncingMoves DEF produce_tally, IInv, ReadyInv, OthersStay
  <2>5. MutexInv' /\ StoredInv' /\ JoinInv'
    BY <1>0, <1>6, <2>1
    DEF produce_tally, IInv, TypeOK, MutexInv, StoredInv, JoinInv
  <2>6. PlaceInv' /\ BehindInv' /\ ReadsStored' /\ SleepsOnlyAtZero'
    BY <1>0, <1>6, <2>1
    DEF produce_tally, IInv, TypeOK, PlaceInv, BehindInv, ReadsStored, SleepsOnlyAtZero
  <2> QED BY <2>2, <2>3, <2>4, <2>5, <2>6 DEF IInv
<1> QED BY <1>1, <1>2, <1>3, <1>4, <1>5, <1>6 DEF produce

\* A step of the consumer alone leaves what the producers guarantee.
LEMMA ProducersUnmoved ==
  ASSUME IInv, UNCHANGED <<args, puts, count>>,
         \A u \in Producers : pc'[u] = pc[u]
  PROVE  /\ MutexInv' /\ StoredInv' /\ TallyInv' /\ JoinInv'
         /\ Cardinality(Announcing)' = Cardinality(Announcing)
<1> USE ProdConsAssumption DEF args, puts
<1>1. MutexInv' /\ StoredInv' /\ TallyInv' /\ JoinInv'
  BY DEF IInv, MutexInv, StoredInv, TallyInv, JoinInv
<1>2. Cardinality(Announcing)' = Cardinality(Announcing)
  BY AnnouncingMoves DEF OthersStay
<1> QED BY <1>1, <1>2

\* Taking an announced item, or going to sleep, preserves the invariant.
LEMMA TakeReadyInv ==
  ASSUME IInv, UNCHANGED args, prog = "prodcons6", i < nitems,
         pc[Consumer] \in {"consume", "woken"}, TakeReady
  PROVE  IInv'
<1> USE ProdConsAssumption DEF args, puts, Threads
<1>1. /\ TypeOK
      /\ UNCHANGED <<prog, nitems, holder, buff, nput, nval, i, wrong, count>>
  BY DEF IInv, TakeReady
<1>2. \/ nready = 0 /\ nready' = 0 /\ pc'[Consumer] = "asleep"
      \/ nready # 0 /\ nready' = nready - 1 /\ pc'[Consumer] = "check"
  BY <1>1 DEF TakeReady, TypeOK
<1>3. \A u \in Producers : pc'[u] = pc[u]
  BY <1>1 DEF TakeReady, TypeOK
<1>4. /\ MutexInv' /\ StoredInv' /\ TallyInv' /\ JoinInv'
      /\ Cardinality(Announcing)' = Cardinality(Announcing)
  BY <1>1, <1>3, ProducersUnmoved
<1>5. TypeOK'
  BY <1>1 DEF TakeReady, TypeOK
<1>6. ReadyInv'
  <2>0. nready \in Nat /\ i \in Nat /\ nput \in Nat /\ Cardinality(Announcing) \in Nat
    BY <1>1, AnnouncingFinite DEF TypeOK
  <2>1. pc[Consumer] # "check"
    OBVIOUS
  <2>2. nready + Cardinality(Announcing) + i = nput
    BY <2>0, <2>1 DEF IInv, ReadyInv
  <2>3. CASE nready = 0
    BY <1>1, <1>2, <1>4, <2>0, <2>2, <2>3 DEF ReadyInv
  <2>4. CASE nready # 0
    BY <1>1, <1>2, <1>4, <2>0, <2>2, <2>4 DEF ReadyInv
  <2> QED BY <2>3, <2>4
<1>7. PlaceInv' /\ BehindInv' /\ SleepsOnlyAtZero'
  BY <1>1, <1>2, <1>3 DEF IInv, PlaceInv, BehindInv, SleepsOnlyAtZero
<1>8. ReadsStored'
  <2>1. nready # 0 => i < nput
    BY <1>1, AnnouncingFinite DEF IInv, TypeOK, ReadyInv
  <2> QED BY <1>1, <1>2, <2>1 DEF ReadsStored
<1> QED BY <1>4, <1>5, <1>6, <1>7, <1>8 DEF IInv

\* A consumer's step that only moves it to another place, and not to sleep.
LEMMA ConsumerGoes ==
  ASSUME IInv, UNCHANGED <<args, puts, nready, i, wrong, count>>,
         NEW from \in {"consume", "asleep"},
         NEW to \in {"consume", "woken", "check", "done"}, Goto(Consumer, from, to),
         to = "check" => i < nitems /\ i < nput /\ prog # "prodcons6",
         to = "woken" => from = "asleep"
  PROVE  IInv'
<1> USE ProdConsAssumption DEF args, puts, Threads
<1>1. /\ TypeOK /\ pc[Consumer] = from /\ pc'[Consumer] = to
      /\ \A u \in Producers : pc'[u] = pc[u]
  BY GotoMoves DEF IInv
<1>2. /\ MutexInv' /\ StoredInv' /\ TallyInv' /\ JoinInv'
      /\ Cardinality(Announcing)' = Cardinality(Announcing)
  BY <1>1, ProducersUnmoved
<1>3. TypeOK'
  BY <1>1, GotoMoves DEF TypeOK
<1>4. ReadyInv'
  BY <1>1, <1>2 DEF IInv, TypeOK, ReadyInv
<1>5. PlaceInv' /\ BehindInv' /\ ReadsStored' /\ SleepsOnlyAtZero'
  BY <1>1 DEF IInv, PlaceInv, BehindInv, ReadsStored, SleepsOnlyAtZero
<1> QED BY <1>2, <1>3, <1>4, <1>5 DEF IInv

\* The check of an item, which is in its place, preserves the invariant.
LEMMA CheckInv ==
  ASSUME IInv, UNCHANGED args, consume_check
  PROVE  IInv'
<1> USE ProdConsAssumption DEF args, puts, Threads
<1>1. /\ TypeOK /\ pc[Consumer] = "check" /\ pc'[Consumer] = "consume"
      /\ UNCHANGED <<prog, nitems, holder, buff, nput, nval, nready, count>>
      /\ \A u \in Producers : pc'[u] = pc[u]
  BY GotoMoves DEF IInv, consume_check
<1>2. /\ MutexInv' /\ StoredInv' /\ TallyInv' /\ JoinInv'
      /\ Cardinality(Announcing)' = Cardinality(Announcing)
  BY <1>1, ProducersUnmoved
<1>3. i < nput /\ i' = i + 1 /\ buff[i] = i /\ wrong' = wrong
  BY <1>1 DEF IInv, TypeOK, ReadsStored, StoredInv, consume_check, BehindInv
<1>4. TypeOK'
  BY <1>1, <1>3, GotoMoves DEF TypeOK, consume_check
<1>5. ReadyInv'
  BY <1>1, <1>2, <1>3, AnnouncingFinite DEF IInv, TypeOK, ReadyInv
<1>6. PlaceInv' /\ BehindInv' /\ ReadsStored' /\ SleepsOnlyAtZero'
  BY <1>1, <1>3
  DEF IInv, TypeOK, PlaceInv, BehindInv, ReadsStored, SleepsOnlyAtZero
<1> QED BY <1>2, <1>4, <1>5, <1>6 DEF IInv

\* The consumer's step, and its waking without a signal, preserve the
\* invariant.  In prodcons2 the array is full when the producers are joined.
LEMMA ConsumeInv ==
  ASSUME IInv, UNCHANGED args, consume \/ SpuriousWake
  PROVE  IInv'
<1>1. CASE consume_start
  <2>1. i < nitems /\ i < nput
    BY <1>1 DEF consume_start, Consume, IInv, TypeOK, StoredInv, JoinInv
  <2> QED BY <1>1, <2>1, ConsumerGoes DEF consume_start, Consume
<1>2. CASE consume_wait
  <2>1. CASE i < nput
    BY <1>2, <2>1, ConsumerGoes DEF consume_wait, Consume, IsReady
  <2>2. CASE ~(i < nput)
    BY <1>2, <2>2, ConsumerGoes DEF consume_wait, Consume, IsReady
  <2> QED BY <2>1, <2>2
<1>3. CASE consume_ready
  BY <1>3, TakeReadyInv DEF consume_ready
<1>4. CASE consume_resume
  BY <1>4, TakeReadyInv DEF consume_resume, IInv, PlaceInv, BehindInv
<1>5. CASE consume_check
  BY <1>5, CheckInv
<1>6. CASE consume_return
  BY <1>6, ConsumerGoes DEF consume_return
<1>7. CASE SpuriousWake
  BY <1>7, ConsumerGoes DEF SpuriousWake
<1> QED BY <1>1, <1>2, <1>3, <1>4, <1>5, <1>6, <1>7 DEF consume

\* Every step of every thread keeps the invariant.
LEMMA NextInv == IInv /\ [Next]_vars => IInv'
<1> SUFFICES ASSUME IInv, [Next]_vars PROVE IInv'
  OBVIOUS
<1>1. CASE Next
  BY <1>1, ProduceInv, ConsumeInv DEF Next
<1>2. CASE UNCHANGED vars
  BY <1>2
  DEF vars, args, puts, IInv, TypeOK, PlaceInv, MutexInv, StoredInv, TallyInv, JoinInv,
      ReadyInv, Announcing, BehindInv, ReadsStored, SleepsOnlyAtZero
<1> QED BY <1>1, <1>2
-----------------------------------------------------------------------------

\* The inductive invariant holds in every reachable state.
THEOREM Invariance == Spec => []IInv
<1> QED BY InitInv, NextInv, PTL DEF Spec

\* The programs keep their variables in their types: nput never passes
\* nitems, and no counter of a producer or of the consumer overtakes it.
THEOREM TypeCorrect == Spec => []TypeOK
<1>1. IInv => TypeOK
  BY DEF IInv
<1> QED BY <1>1, Invariance, PTL

\* The consumer, which takes no lock to read an item, reads only items that
\* have been stored and counted.
THEOREM ReadsCorrect == Spec => []ReadsStored
<1>1. IInv => ReadsStored
  BY DEF IInv
<1> QED BY <1>1, Invariance, PTL

\* prodcons6 signals often enough: the consumer never sleeps beside an
\* announced item.
THEOREM SleepCorrect == Spec => []SleepsOnlyAtZero
<1>1. IInv => SleepsOnlyAtZero
  BY DEF IInv
<1> QED BY <1>1, Invariance, PTL

\* The consumer never prints a complaint.
THEOREM NothingWrong == Spec => []~wrong
<1>1. IInv => ~wrong
  BY DEF IInv, BehindInv
<1> QED BY <1>1, Invariance, PTL

\* When the producers have returned, the array holds every item in its place.
ArrayFull ==
  (\A t \in Producers : pc[t] = "done") => \A n \in 0..nitems-1 : buff[n] = n

\* The last producer returns only when all items have been stored.
THEOREM ReturnCorrect == Spec => []ArrayFull
<1>1. IInv => ArrayFull
  BY DEF IInv, TypeOK, StoredInv, JoinInv, ArrayFull
<1> QED BY <1>1, Invariance, PTL
=============================================================================
