---------------------------- MODULE RWLockProofs ----------------------------
(***************************************************************************)
(* Proofs about RWLock, for any threads: mutual exclusion, the counters,   *)
(* no lost wake-up, and the preference for writers.                        *)
(***************************************************************************)
EXTENDS RWLock, FiniteSetTheorems, TLAPS

\* What the places of the threads say about rw_refcount.
HoldersInv ==
  LET readers == Cardinality(At({"reading"}))
      writers == Cardinality(At({"writing"}))
  IN  \/ rw_refcount = -1 /\ readers = 0 /\ writers = 1
      \/ rw_refcount = readers /\ writers = 0

IInv == TypeOK /\ HoldersInv /\ MutexNeverLeaked /\ WaitCountsExact /\ NoLostWakeup

RdWaiting == {"rd_wait", "rd_wake"}
WrWaiting == {"wr_wait", "wr_wake"}

-----------------------------------------------------------------------------

\* Finitely many threads are at any places.
LEMMA AtFinite ==
  ASSUME NEW S
  PROVE  /\ IsFiniteSet(At(S)) /\ Cardinality(At(S)) \in Nat
         /\ Cardinality(At(S)) = 0 <=> At(S) = {}
<1>1. IsFiniteSet(At(S))
  BY ThreadsAssumption, FS_Subset DEF At
<1> QED BY <1>1, FS_CardinalityType, FS_EmptySet

\* Apart from t nobody enters or leaves the places S.
Fixed(t, S) == \A u \in Threads \ {t} : pc'[u] \in S <=> pc[u] \in S

\* How many threads are at S after a step of t.
LEMMA AtMoves ==
  ASSUME NEW S, NEW t \in Threads, Fixed(t, S)
  PROVE  Cardinality(At(S))' =
           IF pc[t] \in S /\ pc'[t] \notin S THEN Cardinality(At(S)) - 1
           ELSE IF pc[t] \notin S /\ pc'[t] \in S THEN Cardinality(At(S)) + 1
           ELSE Cardinality(At(S))
<1> DEFINE A == {u \in Threads : pc[u] \in S}
           B == {u \in Threads : pc'[u] \in S}
<1>1. At(S) = A /\ Cardinality(At(S))' = Cardinality(B)
  BY DEF At
<1>2. IsFiniteSet(A) /\ IsFiniteSet(B)
  BY ThreadsAssumption, FS_Subset
<1>3. CASE t \in A /\ t \notin B
  <2>1. B = A \ {t}
    BY <1>3 DEF Fixed
  <2> QED BY <1>1, <1>2, <1>3, <2>1, FS_RemoveElement
<1>4. CASE t \notin A /\ t \in B
  <2>1. B = A \cup {t}
    BY <1>4 DEF Fixed
  <2> QED BY <1>1, <1>2, <1>4, <2>1, FS_AddElement
<1>5. CASE t \in A <=> t \in B
  <2>1. B = A
    BY <1>5 DEF Fixed
  <2> QED BY <1>1, <1>5, <2>1
<1> QED BY <1>3, <1>4, <1>5

\* Nobody but t changes between waiting, holding and neither.
Alone(t) ==
  /\ pc' \in [Threads -> Places]
  /\ Fixed(t, {"reading"}) /\ Fixed(t, {"writing"})
  /\ Fixed(t, RdWaiting) /\ Fixed(t, WrWaiting)

\* A step that only moves t is a step of t alone.
LEMMA GotoAlone ==
  ASSUME NEW t \in Threads, NEW place \in Places, TypeOK, Goto(t, place)
  PROVE  Alone(t) /\ pc'[t] = place /\ \A u \in Threads \ {t} : pc'[u] = pc[u]
  BY DEF Alone, Fixed, Goto, TypeOK

\* The counting half of the invariant after a step of t alone.
LEMMA CountsAfter ==
  ASSUME IInv, NEW t \in Threads, Alone(t)
  PROVE  LET d(S) == IF pc[t] \in S /\ pc'[t] \notin S THEN -1
                     ELSE IF pc[t] \notin S /\ pc'[t] \in S THEN 1 ELSE 0
         IN  /\ Cardinality(At({"reading"}))' = Cardinality(At({"reading"})) + d({"reading"})
             /\ Cardinality(At({"writing"}))' = Cardinality(At({"writing"})) + d({"writing"})
             /\ Cardinality(At(RdWaiting))' = rw_nwaitreaders + d(RdWaiting)
             /\ Cardinality(At(WrWaiting))' = rw_nwaitwriters + d(WrWaiting)
<1>1. /\ rw_nwaitreaders = Cardinality(At(RdWaiting))
      /\ rw_nwaitwriters = Cardinality(At(WrWaiting))
  BY DEF IInv, WaitCountsExact, RdWaiting, WrWaiting
<1>2. /\ Cardinality(At({"reading"})) \in Nat /\ Cardinality(At({"writing"})) \in Nat
      /\ Cardinality(At(RdWaiting)) \in Nat /\ Cardinality(At(WrWaiting)) \in Nat
  BY AtFinite
<1>3. /\ Fixed(t, {"reading"}) /\ Fixed(t, {"writing"})
      /\ Fixed(t, RdWaiting) /\ Fixed(t, WrWaiting)
  BY DEF Alone
<1>4. Cardinality(At({"reading"}))' = Cardinality(At({"reading"})) +
        (IF pc[t] \in {"reading"} /\ pc'[t] \notin {"reading"} THEN -1
         ELSE IF pc[t] \notin {"reading"} /\ pc'[t] \in {"reading"} THEN 1 ELSE 0)
  BY <1>2, <1>3, AtMoves
<1>5. Cardinality(At({"writing"}))' = Cardinality(At({"writing"})) +
        (IF pc[t] \in {"writing"} /\ pc'[t] \notin {"writing"} THEN -1
         ELSE IF pc[t] \notin {"writing"} /\ pc'[t] \in {"writing"} THEN 1 ELSE 0)
  BY <1>2, <1>3, AtMoves
<1>6. Cardinality(At(RdWaiting))' = Cardinality(At(RdWaiting)) +
        (IF pc[t] \in RdWaiting /\ pc'[t] \notin RdWaiting THEN -1
         ELSE IF pc[t] \notin RdWaiting /\ pc'[t] \in RdWaiting THEN 1 ELSE 0)
  BY <1>2, <1>3, AtMoves
<1>7. Cardinality(At(WrWaiting))' = Cardinality(At(WrWaiting)) +
        (IF pc[t] \in WrWaiting /\ pc'[t] \notin WrWaiting THEN -1
         ELSE IF pc[t] \notin WrWaiting /\ pc'[t] \in WrWaiting THEN 1 ELSE 0)
  BY <1>2, <1>3, AtMoves
<1> QED BY <1>1, <1>4, <1>5, <1>6, <1>7

-----------------------------------------------------------------------------
(* One lemma per operation.                                                *)

\* The invariant after a step, from the numbers.
LEMMA Assemble ==
  ASSUME IInv, NEW t \in Threads, Alone(t), MutexNeverLeaked', NoLostWakeup',
         rw_refcount' \in Int,
         LET d(S) == IF pc[t] \in S /\ pc'[t] \notin S THEN -1
                     ELSE IF pc[t] \notin S /\ pc'[t] \in S THEN 1 ELSE 0
             r == Cardinality(At({"reading"})) + d({"reading"})
             w == Cardinality(At({"writing"})) + d({"writing"})
         IN  /\ \/ rw_refcount' = -1 /\ r = 0 /\ w = 1
                \/ rw_refcount' = r /\ w = 0
             /\ rw_nwaitreaders' = rw_nwaitreaders + d(RdWaiting)
             /\ rw_nwaitwriters' = rw_nwaitwriters + d(WrWaiting)
  PROVE  IInv'
<1>1. HoldersInv'
  BY CountsAfter DEF HoldersInv
<1>2. /\ rw_nwaitreaders' = Cardinality(At(RdWaiting))'
      /\ rw_nwaitwriters' = Cardinality(At(WrWaiting))'
  BY CountsAfter
<1>3. WaitCountsExact'
  BY <1>2 DEF WaitCountsExact, RdWaiting, WrWaiting
<1>4. Cardinality(At(RdWaiting))' \in Nat /\ Cardinality(At(WrWaiting))' \in Nat
  <2> DEFINE A == {u \in Threads : pc'[u] \in RdWaiting}
             B == {u \in Threads : pc'[u] \in WrWaiting}
  <2>1. IsFiniteSet(A) /\ IsFiniteSet(B)
    BY ThreadsAssumption, FS_Subset
  <2>2. Cardinality(At(RdWaiting))' = Cardinality(A) /\ Cardinality(At(WrWaiting))' = Cardinality(B)
    BY DEF At
  <2> QED BY <2>1, <2>2, FS_CardinalityType
<1>5. TypeOK'
  BY <1>2, <1>4 DEF TypeOK, Alone, MutexNeverLeaked
<1> QED BY <1>1, <1>3, <1>5 DEF IInv

\* The invariant as inequalities between the numbers of threads and counters.
LEMMA Numbers ==
  ASSUME IInv
  PROVE  /\ Cardinality(At({"reading"})) \in Nat /\ Cardinality(At({"writing"})) \in Nat
         /\ rw_nwaitreaders \in Nat /\ rw_nwaitwriters \in Nat /\ rw_refcount \in Int
         /\ rw_nwaitreaders > 0 <=> \E t \in Threads : pc[t] \in RdWaiting
         /\ rw_nwaitwriters > 0 <=> \E t \in Threads : pc[t] \in WrWaiting
         /\ \/ /\ rw_refcount = -1
               /\ Cardinality(At({"reading"})) = 0 /\ Cardinality(At({"writing"})) = 1
            \/ /\ rw_refcount = Cardinality(At({"reading"}))
               /\ Cardinality(At({"writing"})) = 0
         /\ \A t \in Threads : pc[t] = "reading" => Cardinality(At({"reading"})) > 0
         /\ \A t \in Threads : pc[t] = "writing" => Cardinality(At({"writing"})) > 0
<1>1. /\ rw_nwaitreaders = Cardinality(At(RdWaiting))
      /\ rw_nwaitwriters = Cardinality(At(WrWaiting))
  BY DEF IInv, WaitCountsExact, RdWaiting, WrWaiting
<1>2. /\ Cardinality(At(RdWaiting)) \in Nat
      /\ Cardinality(At(RdWaiting)) = 0 <=> At(RdWaiting) = {}
      /\ Cardinality(At(WrWaiting)) \in Nat
      /\ Cardinality(At(WrWaiting)) = 0 <=> At(WrWaiting) = {}
      /\ Cardinality(At({"reading"})) \in Nat
      /\ Cardinality(At({"reading"})) = 0 <=> At({"reading"}) = {}
      /\ Cardinality(At({"writing"})) \in Nat
      /\ Cardinality(At({"writing"})) = 0 <=> At({"writing"}) = {}
  BY AtFinite
<1>3. \A S : At(S) # {} <=> \E t \in Threads : pc[t] \in S
  BY DEF At
<1>4. rw_refcount \in Int /\ HoldersInv
  BY DEF IInv, TypeOK
<1>5. /\ At(RdWaiting) # {} <=> \E t \in Threads : pc[t] \in RdWaiting
      /\ At(WrWaiting) # {} <=> \E t \in Threads : pc[t] \in WrWaiting
  BY <1>3
<1>6. /\ \A t \in Threads : pc[t] = "reading" => At({"reading"}) # {}
      /\ \A t \in Threads : pc[t] = "writing" => At({"writing"}) # {}
  BY DEF At
<1> QED BY <1>1, <1>2, <1>4, <1>5, <1>6 DEF HoldersInv

\* NoLostWakeup spelled out over the threads.
LEMMA LostWakeup ==
  /\ NoLostWakeup <=>
       (rw_refcount = 0 /\ (\E t \in Threads : pc[t] \in {"rd_wait", "wr_wait"})
          => \E t \in Threads : pc[t] = "wr_wake")
  /\ NoLostWakeup' <=>
       (rw_refcount' = 0 /\ (\E t \in Threads : pc'[t] \in {"rd_wait", "wr_wait"})
          => \E t \in Threads : pc'[t] = "wr_wake")
  BY DEF NoLostWakeup, At

\* Locking for reading, at once, after a wait or not at all, keeps the invariant.
LEMMA RdlockInv ==
  ASSUME IInv, NEW t \in Threads,
         pthread_rwlock_rdlock(t) \/ rdlock_resume(t) \/ pthread_rwlock_tryrdlock(t)
  PROVE  IInv'
<1>1. TypeOK /\ MutexNeverLeaked /\ NoLostWakeup
  BY DEF IInv
<1>2. UNCHANGED <<rw_mutex, rw_nwaitwriters>> /\ MutexNeverLeaked'
  BY <1>1 DEF MutexNeverLeaked, pthread_rwlock_rdlock, rdlock_resume, pthread_rwlock_tryrdlock
<1>3. CASE UNCHANGED <<rw_refcount, pc, rw_nwaitreaders>>
  <2>1. Alone(t)
    BY <1>1, <1>3 DEF Alone, Fixed, TypeOK
  <2>2. NoLostWakeup'
    BY <1>1, <1>3, LostWakeup
  <2> QED BY <1>2, <1>3, <2>1, <2>2, Assemble, Numbers
<1>4. CASE /\ ~ReadersBlocked
           /\ rw_refcount' = rw_refcount + 1 /\ Goto(t, "reading")
           /\ \/ pc[t] = "idle" /\ UNCHANGED rw_nwaitreaders
              \/ pc[t] = "rd_wake" /\ rw_nwaitreaders' = rw_nwaitreaders - 1
  <2>1. Alone(t) /\ pc'[t] = "reading"
    <3>1. "reading" \in Places
      BY DEF Places
    <3> QED BY <1>1, <1>4, <3>1, GotoAlone
  <2>2. rw_refcount >= 0 /\ rw_refcount' # 0
    BY <1>4, Numbers DEF ReadersBlocked
  <2>3. NoLostWakeup'
    BY <2>2, LostWakeup
  <2> QED BY <1>2, <1>4, <2>1, <2>2, <2>3, Assemble, Numbers DEF RdWaiting, WrWaiting
<1>5. CASE /\ ReadersBlocked /\ Goto(t, "rd_wait") /\ UNCHANGED rw_refcount
           /\ \/ pc[t] = "idle" /\ rw_nwaitreaders' = rw_nwaitreaders + 1
              \/ pc[t] = "rd_wake" /\ UNCHANGED rw_nwaitreaders
  <2>1. Alone(t) /\ pc'[t] = "rd_wait" /\ \A u \in Threads \ {t} : pc'[u] = pc[u]
    <3>1. "rd_wait" \in Places
      BY DEF Places
    <3> QED BY <1>1, <1>5, <3>1, GotoAlone
  <2>2. NoLostWakeup'
    <3>1. rw_refcount = 0 => \E u \in Threads : pc[u] \in WrWaiting
      BY <1>5, Numbers DEF ReadersBlocked
    <3>2. rw_refcount = 0 => \E u \in Threads : pc[u] = "wr_wake"
      BY <1>1, <3>1, LostWakeup DEF WrWaiting
    <3> QED BY <1>5, <2>1, <3>2, LostWakeup
  <2> QED BY <1>2, <1>5, <2>1, <2>2, Assemble, Numbers DEF RdWaiting, WrWaiting
<1> QED BY <1>3, <1>4, <1>5
        DEF pthread_rwlock_rdlock, rdlock_resume, pthread_rwlock_tryrdlock

\* Locking for writing, at once, after a wait or not at all, keeps the invariant.
LEMMA WrlockInv ==
  ASSUME IInv, NEW t \in Threads,
         pthread_rwlock_wrlock(t) \/ wrlock_resume(t) \/ pthread_rwlock_trywrlock(t)
  PROVE  IInv'
<1>1. TypeOK /\ MutexNeverLeaked /\ NoLostWakeup
  BY DEF IInv
<1>2. UNCHANGED <<rw_mutex, rw_nwaitreaders>> /\ MutexNeverLeaked'
  BY <1>1 DEF MutexNeverLeaked, pthread_rwlock_wrlock, wrlock_resume, pthread_rwlock_trywrlock
<1>3. CASE UNCHANGED <<rw_refcount, pc, rw_nwaitwriters>>
  <2>1. Alone(t)
    BY <1>1, <1>3 DEF Alone, Fixed, TypeOK
  <2>2. NoLostWakeup'
    BY <1>1, <1>3, LostWakeup
  <2> QED BY <1>2, <1>3, <2>1, <2>2, Assemble, Numbers
<1>4. CASE /\ rw_refcount = 0 /\ rw_refcount' = -1 /\ Goto(t, "writing")
           /\ \/ pc[t] = "idle" /\ UNCHANGED rw_nwaitwriters
              \/ pc[t] = "wr_wake" /\ rw_nwaitwriters' = rw_nwaitwriters - 1
  <2>1. Alone(t) /\ pc'[t] = "writing"
    <3>1. "writing" \in Places
      BY DEF Places
    <3> QED BY <1>1, <1>4, <3>1, GotoAlone
  <2>2. NoLostWakeup'
    BY <1>4, LostWakeup
  <2> QED BY <1>2, <1>4, <2>1, <2>2, Assemble, Numbers DEF RdWaiting, WrWaiting
<1>5. CASE /\ rw_refcount # 0 /\ Goto(t, "wr_wait") /\ UNCHANGED rw_refcount
           /\ \/ pc[t] = "idle" /\ rw_nwaitwriters' = rw_nwaitwriters + 1
              \/ pc[t] = "wr_wake" /\ UNCHANGED rw_nwaitwriters
  <2>1. Alone(t) /\ pc'[t] = "wr_wait"
    <3>1. "wr_wait" \in Places
      BY DEF Places
    <3> QED BY <1>1, <1>5, <3>1, GotoAlone
  <2>2. NoLostWakeup'
    BY <1>5, LostWakeup
  <2> QED BY <1>2, <1>5, <2>1, <2>2, Assemble, Numbers DEF RdWaiting, WrWaiting
<1> QED BY <1>3, <1>4, <1>5
        DEF pthread_rwlock_wrlock, wrlock_resume, pthread_rwlock_trywrlock

\* Waking moves sleepers on, nobody else, and leaves nobody asleep whom the
\* free lock would suit, unless a woken writer is on its way.
LEMMA WakeWaitersMoves ==
  ASSUME IInv, NEW t \in Threads, NEW n \in Nat,
         NEW home, home = [pc EXCEPT ![t] = "idle"],
         pc[t] \in {"reading", "writing"}, WakeWaiters(n, home)
  PROVE  /\ Alone(t) /\ pc'[t] = "idle"
         /\ n = 0 /\ (\E u \in Threads : pc'[u] \in {"rd_wait", "wr_wait"})
              => \E u \in Threads : pc'[u] = "wr_wake"
<1>1. /\ pc \in [Threads -> Places] /\ home \in [Threads -> Places]
      /\ home[t] = "idle" /\ \A u \in Threads \ {t} : home[u] = pc[u]
  BY DEF IInv, TypeOK, Places
<1>2. CASE rw_nwaitwriters > 0
  <2>1. CASE n = 0 /\ \E u \in Threads : home[u] = "wr_wait"
    <3>1. PICK u \in Threads : home[u] = "wr_wait" /\ pc' = [home EXCEPT ![u] = "wr_wake"]
      BY <1>2, <2>1 DEF WakeWaiters
    <3>2. Alone(t) /\ pc'[t] = "idle"
      BY <1>1, <3>1 DEF Alone, Fixed, Places, RdWaiting, WrWaiting
    <3> QED BY <1>1, <3>1, <3>2
  <2>2. CASE ~(n = 0 /\ \E u \in Threads : home[u] = "wr_wait")
    <3>1. pc' = home
      BY <1>2, <2>2 DEF WakeWaiters
    <3>2. Alone(t) /\ pc'[t] = "idle"
      BY <1>1, <3>1 DEF Alone, Fixed, Places, RdWaiting, WrWaiting
    <3>3. \E u \in Threads : pc[u] \in WrWaiting
      BY <1>2, Numbers
    <3>4. n = 0 => \E u \in Threads : home[u] = "wr_wake"
      BY <1>1, <2>2, <3>3 DEF WrWaiting
    <3> QED BY <3>1, <3>2, <3>4
  <2> QED BY <2>1, <2>2
<1>3. CASE ~(rw_nwaitwriters > 0)
  <2>1. pc' = [u \in Threads |-> IF rw_nwaitreaders > 0 /\ home[u] = "rd_wait"
                                THEN "rd_wake" ELSE home[u]]
    BY <1>3 DEF WakeWaiters
  <2>2. Alone(t) /\ pc'[t] = "idle"
    BY <1>1, <2>1 DEF Alone, Fixed, Places, RdWaiting, WrWaiting
  <2>3. \A u \in Threads : pc'[u] # "wr_wait"
    BY <1>1, <1>3, <2>1, Numbers DEF WrWaiting
  <2>4. \A u \in Threads : pc'[u] # "rd_wait"
    <3>1. \A u \in Threads : home[u] = "rd_wait" => rw_nwaitreaders > 0
      BY <1>1, Numbers DEF RdWaiting
    <3> QED BY <1>1, <2>1, <3>1
  <2> QED BY <2>2, <2>3, <2>4
<1> QED BY <1>2, <1>3

\* Unlocking keeps the invariant and never takes the error return.
LEMMA UnlockInv ==
  ASSUME IInv, NEW t \in Threads, pthread_rwlock_unlock(t)
  PROVE  IInv'
<1> DEFINE home == [pc EXCEPT ![t] = "idle"]
           n == IF rw_refcount > 0 THEN rw_refcount - 1 ELSE 0
<1>1. pc[t] \in {"reading", "writing"}
  BY DEF pthread_rwlock_unlock
<1>2. /\ rw_refcount > 0 \/ rw_refcount = -1
      /\ n \in Nat
      /\ pc[t] = "reading" => rw_refcount > 0 /\ n = rw_refcount - 1
      /\ pc[t] = "writing" => rw_refcount = -1 /\ n = 0
  BY <1>1, Numbers
<1>3. /\ rw_refcount' = n /\ WakeWaiters(n, home)
      /\ UNCHANGED <<rw_mutex, rw_nwaitreaders, rw_nwaitwriters>>
  BY <1>2 DEF pthread_rwlock_unlock
<1> HIDE DEF n
<1>4. /\ Alone(t) /\ pc'[t] = "idle"
      /\ n = 0 /\ (\E u \in Threads : pc'[u] \in {"rd_wait", "wr_wait"})
           => \E u \in Threads : pc'[u] = "wr_wake"
  BY <1>1, <1>2, <1>3, WakeWaitersMoves
<1>5. NoLostWakeup' /\ MutexNeverLeaked'
  BY <1>3, <1>4, LostWakeup DEF IInv, MutexNeverLeaked
<1> QED BY <1>1, <1>2, <1>3, <1>4, <1>5, Assemble, Numbers DEF RdWaiting, WrWaiting

\* A wake-up without a signal keeps the invariant.
LEMMA SpuriousInv ==
  ASSUME IInv, NEW t \in Threads, SpuriousWake(t)
  PROVE  IInv'
<1>1. TypeOK /\ MutexNeverLeaked /\ NoLostWakeup
  BY DEF IInv
<1>2. UNCHANGED <<rw_mutex, rw_refcount, rw_nwaitreaders, rw_nwaitwriters>>
  BY DEF SpuriousWake
<1>3. /\ \/ pc[t] = "rd_wait" /\ pc'[t] = "rd_wake"
         \/ pc[t] = "wr_wait" /\ pc'[t] = "wr_wake"
      /\ Alone(t) /\ \A u \in Threads \ {t} : pc'[u] = pc[u]
  BY <1>1 DEF SpuriousWake, Goto, TypeOK, Alone, Fixed, Places, RdWaiting, WrWaiting
<1>4. NoLostWakeup'
  BY <1>1, <1>2, <1>3, LostWakeup
<1>5. MutexNeverLeaked'
  BY <1>1, <1>2 DEF MutexNeverLeaked
<1> QED BY <1>2, <1>3, <1>4, <1>5, Assemble, Numbers DEF RdWaiting, WrWaiting

-----------------------------------------------------------------------------

\* The invariant holds of a lock just initialized.
LEMMA InitInv ==
  ASSUME Init PROVE IInv
<1>1. At({"reading"}) = {} /\ At({"writing"}) = {} /\ At(RdWaiting) = {} /\ At(WrWaiting) = {}
  BY DEF Init, At, RdWaiting, WrWaiting
<1>2. TypeOK /\ MutexNeverLeaked
  BY DEF Init, TypeOK, Places, MutexNeverLeaked
<1>3. HoldersInv /\ WaitCountsExact
  BY <1>1, FS_EmptySet DEF Init, HoldersInv, WaitCountsExact, RdWaiting, WrWaiting
<1>4. NoLostWakeup
  BY LostWakeup DEF Init
<1> QED BY <1>2, <1>3, <1>4 DEF IInv

\* Every step keeps the invariant.
LEMMA NextInv ==
  ASSUME IInv, [Next]_vars PROVE IInv'
<1>1. CASE Next
  <2>1. PICK t \in Threads :
          Lock(t) \/ Resume(t) \/ pthread_rwlock_unlock(t) \/ SpuriousWake(t)
    BY <1>1 DEF Next
  <2> QED BY <2>1, RdlockInv, WrlockInv, UnlockInv, SpuriousInv DEF Lock, Resume
<1>2. CASE UNCHANGED vars
  <2>1. UNCHANGED <<At({"reading"}), At({"writing"}), At({"rd_wait", "rd_wake"}),
                    At({"wr_wait", "wr_wake"}), At({"rd_wait", "wr_wait"}), At({"wr_wake"})>>
    BY <1>2 DEF vars, At
  <2>2. TypeOK' /\ MutexNeverLeaked'
    BY <1>2 DEF vars, IInv, TypeOK, MutexNeverLeaked
  <2>3. UNCHANGED <<rw_refcount, rw_nwaitreaders, rw_nwaitwriters>>
    BY <1>2 DEF vars
  <2>4. HoldersInv' /\ WaitCountsExact' /\ NoLostWakeup'
    BY <2>1, <2>3 DEF IInv, HoldersInv, WaitCountsExact, NoLostWakeup
  <2> QED BY <2>2, <2>4 DEF IInv
<1> QED BY <1>1, <1>2

\* The inductive invariant holds in every reachable state: the lock's counters
\* agree with what the threads that use it hold and wait for.
THEOREM Invariance == Spec => []IInv
  BY InitInv, NextInv, PTL DEF Spec

\* The variables of the lock have their types.
THEOREM TypeCorrect == Spec => []TypeOK
<1>1. IInv => TypeOK
  BY DEF IInv
<1> QED BY <1>1, Invariance, PTL

\* A thread that holds the write lock holds it alone.
THEOREM Exclusive == Spec => []MutualExclusion
<1>1. IInv => MutualExclusion
  <2> SUFFICES ASSUME IInv, NEW t \in Threads, NEW u \in Threads,
                      t # u, pc[t] = "writing", pc[u] \in {"reading", "writing"}
               PROVE  FALSE
    BY DEF MutualExclusion
  <2>1. Cardinality(At({"reading"})) = 0 /\ Cardinality(At({"writing"})) = 1
    BY Numbers
  <2>2. pc[u] = "writing"
    BY <2>1, Numbers
  <2>3. PICK x : At({"writing"}) = {x}
    BY <2>1, AtFinite, FS_Singleton
  <2> QED BY <2>2, <2>3 DEF At
<1> QED BY <1>1, Invariance, PTL

\* The three counters tell who has the lock and who waits for it: rw_refcount
\* -1 for a writer, else how many readers; the other two, who waits.
THEOREM CountersCorrect == Spec => []CountersExact
<1>1. IInv => RefcountExact
  BY Numbers, AtFinite DEF RefcountExact
<1>2. IInv => WaitCountsExact
  BY DEF IInv
<1> QED BY <1>1, <1>2, Invariance, PTL DEF CountersExact

\* No thread that unlocks what it locked meets the error return of unlock, the
\* one that would leave rw_mutex locked.
THEOREM MutexReleased == Spec => []MutexNeverLeaked
<1>1. IInv => MutexNeverLeaked
  BY DEF IInv
<1> QED BY <1>1, Invariance, PTL

\* No thread sleeps beside a free lock.
THEOREM WaitersWoken == Spec => []NoLostWakeup
<1>1. IInv => NoLostWakeup
  BY DEF IInv
<1> QED BY <1>1, Invariance, PTL

\* No step gives a reader the lock while a writer waits for it.
THEOREM WritersPreferred == Spec => WritersFirst
<1> DEFINE A == \A t \in Threads : pc[t] # "reading" /\ pc'[t] = "reading"
                  => At({"wr_wait", "wr_wake"}) = {}
<1>1. IInv /\ Next => A
  <2> SUFFICES ASSUME IInv, Next, NEW t \in Threads, pc[t] # "reading", pc'[t] = "reading"
               PROVE  At({"wr_wait", "wr_wake"}) = {}
    OBVIOUS
  <2>1. pc \in [Threads -> Places]
    BY DEF IInv, TypeOK
  <2>2. PICK u \in Threads :
          Lock(u) \/ Resume(u) \/ pthread_rwlock_unlock(u) \/ SpuriousWake(u)
    BY DEF Next
  <2>3. CASE pthread_rwlock_rdlock(u) \/ rdlock_resume(u) \/ pthread_rwlock_tryrdlock(u)
    <3>1. ~ReadersBlocked
      BY <2>1, <2>3
         DEF pthread_rwlock_rdlock, rdlock_resume, pthread_rwlock_tryrdlock, Goto
    <3> QED BY <3>1, Numbers DEF ReadersBlocked, At, WrWaiting
  <2>4. CASE \/ pthread_rwlock_wrlock(u) \/ wrlock_resume(u) \/ pthread_rwlock_trywrlock(u)
             \/ SpuriousWake(u)
    BY <2>1, <2>4
       DEF pthread_rwlock_wrlock, wrlock_resume, pthread_rwlock_trywrlock, SpuriousWake, Goto
  <2>5. CASE pthread_rwlock_unlock(u)
    <3>1. \E w \in Threads, n \in Nat : pc[w] \in {"reading", "writing"} /\ WakeWaiters(n, [pc EXCEPT ![w] = "idle"])
      <4>1. pc[u] \in {"reading", "writing"}
        BY <2>5 DEF pthread_rwlock_unlock
      <4>2. rw_refcount > 0 \/ rw_refcount = -1
        BY <4>1, Numbers
      <4> QED BY <2>5, <4>1, <4>2, Numbers DEF pthread_rwlock_unlock
    <3>2. PICK w \in Threads, n \in Nat :
            pc[w] \in {"reading", "writing"} /\ WakeWaiters(n, [pc EXCEPT ![w] = "idle"])
      BY <3>1
    <3>3. Alone(w) /\ pc'[w] = "idle"
      BY <3>2, WakeWaitersMoves
    <3> QED BY <3>3 DEF Alone, Fixed
  <2> QED BY <2>2, <2>3, <2>4, <2>5 DEF Lock, Resume
<1>2. IInv /\ [Next]_vars => [A]_vars
  BY <1>1
<1>3. Spec => [][A]_vars
  BY <1>2, Invariance, PTL DEF Spec
<1> QED BY <1>3 DEF WritersFirst
=============================================================================
