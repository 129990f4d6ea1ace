------------------------------- MODULE RWLock ------------------------------
(***************************************************************************)
(* The read-write lock of mutex/my_rwlock: rdlock, tryrdlock, wrlock,      *)
(* trywrlock and unlock on one pthread_rwlock_t.  Every call holds         *)
(* rw_mutex from its first to its last access, except in                   *)
(* pthread_cond_wait, so a call that does not wait is one action and one   *)
(* that waits is split at the wait.  Threads unlock only what they locked. *)
(***************************************************************************)
EXTENDS Integers, FiniteSets

CONSTANTS Threads,
          Readers,      \* the threads that take read locks
          Writers,      \* the threads that take write locks
          Trying,       \* those that use the try calls as well
          Spurious,     \* those whose pthread_cond_wait may return unsignalled
          NoThread

ASSUME ThreadsAssumption ==
  /\ IsFiniteSet(Threads) /\ NoThread \notin Threads
  /\ Readers \subseteq Threads /\ Writers \subseteq Threads

VARIABLES rw_mutex,           \* who returned without unlocking it
          rw_refcount,        \* -1: a writer, n > 0: n readers hold the lock
          rw_nwaitreaders,
          rw_nwaitwriters,
          pc                  \* thread -> where it is

vars == <<rw_mutex, rw_refcount, rw_nwaitreaders, rw_nwaitwriters, pc>>

\* "..._wait": asleep on its condition variable; "..._wake": woken, about to
\* lock rw_mutex again.
Places == {"idle", "rd_wait", "rd_wake", "wr_wait", "wr_wake", "reading", "writing"}

At(places) == {t \in Threads : pc[t] \in places}

Init ==
  /\ rw_mutex = NoThread
  /\ rw_refcount = 0
  /\ rw_nwaitreaders = 0
  /\ rw_nwaitwriters = 0
  /\ pc = [t \in Threads |-> "idle"]

Goto(t, place) == pc' = [pc EXCEPT ![t] = place]

\* A writer has the lock or waits for it: readers stand back.
ReadersBlocked_Barging == rw_refcount < 0    \* mutation: waiting writers ignored
ReadersBlocked_NotByHolder == rw_nwaitwriters > 0  \* mutation: a holder ignored
ReadersBlocked == rw_refcount < 0 \/ rw_nwaitwriters > 0

-----------------------------------------------------------------------------
(* Locking for reading.                                                    *)

pthread_rwlock_rdlock(t) ==
  /\ rw_mutex = NoThread /\ t \in Readers /\ pc[t] = "idle"
  /\ IF ReadersBlocked
     THEN /\ rw_nwaitreaders' = rw_nwaitreaders + 1
          /\ Goto(t, "rd_wait")
          /\ UNCHANGED rw_refcount
     ELSE /\ rw_refcount' = rw_refcount + 1
          /\ Goto(t, "reading")
          /\ UNCHANGED rw_nwaitreaders
  /\ UNCHANGED <<rw_mutex, rw_nwaitwriters>>

rdlock_resume_Hoisted(t) ==    \* mutation: counted once, before the while
  /\ rw_mutex = NoThread /\ pc[t] = "rd_wake"
  /\ rw_nwaitreaders' = rw_nwaitreaders - 1
  /\ IF ReadersBlocked
     THEN Goto(t, "rd_wait") /\ UNCHANGED rw_refcount
     ELSE rw_refcount' = rw_refcount + 1 /\ Goto(t, "reading")
  /\ UNCHANGED <<rw_mutex, rw_nwaitwriters>>

rdlock_resume(t) ==
  /\ rw_mutex = NoThread /\ pc[t] = "rd_wake"
  /\ IF ReadersBlocked
     THEN /\ Goto(t, "rd_wait")
          /\ UNCHANGED <<rw_refcount, rw_nwaitreaders>>
     ELSE /\ rw_nwaitreaders' = rw_nwaitreaders - 1
          /\ rw_refcount' = rw_refcount + 1
          /\ Goto(t, "reading")
  /\ UNCHANGED <<rw_mutex, rw_nwaitwriters>>

pthread_rwlock_tryrdlock(t) ==
  /\ rw_mutex = NoThread /\ t \in Readers \cap Trying /\ pc[t] = "idle"
  /\ IF ReadersBlocked                                \* EBUSY
     THEN UNCHANGED <<rw_refcount, pc>>
     ELSE rw_refcount' = rw_refcount + 1 /\ Goto(t, "reading")
  /\ UNCHANGED <<rw_mutex, rw_nwaitreaders, rw_nwaitwriters>>

-----------------------------------------------------------------------------
(* Locking for writing.                                                    *)

pthread_rwlock_wrlock(t) ==
  /\ rw_mutex = NoThread /\ t \in Writers /\ pc[t] = "idle"
  /\ IF rw_refcount # 0
     THEN /\ rw_nwaitwriters' = rw_nwaitwriters + 1
          /\ Goto(t, "wr_wait")
          /\ UNCHANGED rw_refcount
     ELSE /\ rw_refcount' = -1
          /\ Goto(t, "writing")
          /\ UNCHANGED rw_nwaitwriters
  /\ UNCHANGED <<rw_mutex, rw_nwaitreaders>>

wrlock_resume_If(t) ==     \* mutation: an if instead of the while
  /\ rw_mutex = NoThread /\ pc[t] = "wr_wake"
  /\ rw_nwaitwriters' = rw_nwaitwriters - 1
  /\ rw_refcount' = -1
  /\ Goto(t, "writing")
  /\ UNCHANGED <<rw_mutex, rw_nwaitreaders>>

wrlock_resume_Recounts(t) ==  \* mutation: counted again on every turn
  /\ rw_mutex = NoThread /\ pc[t] = "wr_wake"
  /\ IF rw_refcount # 0
     THEN /\ Goto(t, "wr_wait")
          /\ rw_nwaitwriters' = rw_nwaitwriters + 1
          /\ UNCHANGED rw_refcount
     ELSE /\ rw_nwaitwriters' = rw_nwaitwriters - 1
          /\ rw_refcount' = -1
          /\ Goto(t, "writing")
  /\ UNCHANGED <<rw_mutex, rw_nwaitreaders>>

wrlock_resume(t) ==
  /\ rw_mutex = NoThread /\ pc[t] = "wr_wake"
  /\ IF rw_refcount # 0
     THEN /\ Goto(t, "wr_wait")
          /\ UNCHANGED <<rw_refcount, rw_nwaitwriters>>
     ELSE /\ rw_nwaitwriters' = rw_nwaitwriters - 1
          /\ rw_refcount' = -1
          /\ Goto(t, "writing")
  /\ UNCHANGED <<rw_mutex, rw_nwaitreaders>>

pthread_rwlock_trywrlock(t) ==
  /\ rw_mutex = NoThread /\ t \in Writers \cap Trying /\ pc[t] = "idle"
  /\ IF rw_refcount # 0                               \* EBUSY
     THEN UNCHANGED <<rw_refcount, pc>>
     ELSE rw_refcount' = -1 /\ Goto(t, "writing")
  /\ UNCHANGED <<rw_mutex, rw_nwaitreaders, rw_nwaitwriters>>

-----------------------------------------------------------------------------
(* Unlocking.                                                              *)

\* Whom an unlock wakes, n being the new rw_refcount, the caller at home:
\* one waiting writer once the lock is free, all readers if no writer waits.
WakeWaiters_ReadersFirst(n, home) ==   \* mutation: readers get preference
  IF rw_nwaitreaders > 0
  THEN pc' = [t \in Threads |-> IF home[t] = "rd_wait" THEN "rd_wake" ELSE home[t]]
  ELSE IF n = 0 /\ \E t \in Threads : home[t] = "wr_wait"
  THEN \E t \in Threads : home[t] = "wr_wait" /\ pc' = [home EXCEPT ![t] = "wr_wake"]
  ELSE pc' = home

WakeWaiters_OneReader(n, home) ==      \* mutation: signal instead of broadcast
  IF rw_nwaitwriters > 0
  THEN IF n = 0 /\ \E t \in Threads : home[t] = "wr_wait"
       THEN \E t \in Threads : home[t] = "wr_wait" /\ pc' = [home EXCEPT ![t] = "wr_wake"]
       ELSE pc' = home
  ELSE IF \E t \in Threads : home[t] = "rd_wait"
       THEN \E t \in Threads : home[t] = "rd_wait" /\ pc' = [home EXCEPT ![t] = "rd_wake"]
       ELSE pc' = home

WakeWaiters(n, home) ==
  IF rw_nwaitwriters > 0
  THEN IF n = 0 /\ \E t \in Threads : home[t] = "wr_wait"
       THEN \E t \in Threads : home[t] = "wr_wait" /\ pc' = [home EXCEPT ![t] = "wr_wake"]
       ELSE pc' = home
  ELSE pc' = [t \in Threads |-> IF rw_nwaitreaders > 0 /\ home[t] = "rd_wait"
                                THEN "rd_wake" ELSE home[t]]

\* With rw_refcount 0 the call returns -1 and leaves rw_mutex locked.
pthread_rwlock_unlock(t) ==
  /\ rw_mutex = NoThread /\ pc[t] \in {"reading", "writing"}
  /\ LET home == [pc EXCEPT ![t] = "idle"]
         n == IF rw_refcount > 0 THEN rw_refcount - 1 ELSE 0
     IN  IF rw_refcount > 0 \/ rw_refcount = -1
         THEN rw_refcount' = n /\ WakeWaiters(n, home) /\ UNCHANGED rw_mutex
         ELSE rw_mutex' = t /\ pc' = home /\ UNCHANGED rw_refcount
  /\ UNCHANGED <<rw_nwaitreaders, rw_nwaitwriters>>

\* pthread_cond_wait returns without a signal.
SpuriousWake(t) ==
  /\ t \in Spurious /\ pc[t] \in {"rd_wait", "wr_wait"}
  /\ Goto(t, IF pc[t] = "rd_wait" THEN "rd_wake" ELSE "wr_wake")
  /\ UNCHANGED <<rw_mutex, rw_refcount, rw_nwaitreaders, rw_nwaitwriters>>

Resume(t) == rdlock_resume(t) \/ wrlock_resume(t)

Lock(t) ==
  \/ pthread_rwlock_rdlock(t) \/ pthread_rwlock_tryrdlock(t)
  \/ pthread_rwlock_wrlock(t) \/ pthread_rwlock_trywrlock(t)

Next == \E t \in Threads :
          Lock(t) \/ Resume(t) \/ pthread_rwlock_unlock(t) \/ SpuriousWake(t)

Spec == Init /\ [][Next]_vars

\* A woken thread gets rw_mutex in the end, and who holds the lock lets it go.
FairSpec == Spec /\ \A t \in Threads : WF_vars(Resume(t) \/ pthread_rwlock_unlock(t))

-----------------------------------------------------------------------------

TypeOK ==
  /\ rw_mutex \in Threads \cup {NoThread}
  /\ rw_refcount \in Int
  /\ rw_nwaitreaders \in Nat
  /\ rw_nwaitwriters \in Nat
  /\ pc \in [Threads -> Places]

\* A writer has the lock alone; readers have it together.
MutualExclusion ==
  \A t, u \in Threads : t # u /\ pc[t] = "writing" => pc[u] \notin {"reading", "writing"}

\* pthread_rwlock.h:11: -1 if a writer has the lock, else how many readers do.
RefcountExact ==
  rw_refcount = IF At({"writing"}) # {} THEN -1 ELSE Cardinality(At({"reading"}))

\* The error return of unlock that keeps rw_mutex locked (line 21) is not
\* reached by threads that unlock what they locked.
MutexNeverLeaked == rw_mutex = NoThread

\* The two counters count the threads that wait, woken ones included until
\* they have rw_mutex again; unlock wakes nobody a counter does not show.
WaitCountsExact ==
  /\ rw_nwaitreaders = Cardinality(At({"rd_wait", "rd_wake"}))
  /\ rw_nwaitwriters = Cardinality(At({"wr_wait", "wr_wake"}))

CountersExact == RefcountExact /\ WaitCountsExact

\* Nobody sleeps on when the lock is free, unless a writer is on its way to it.
NoLostWakeup ==
  rw_refcount = 0 /\ At({"rd_wait", "wr_wait"}) # {} => At({"wr_wake"}) # {}

\* rdlock.c:14 "give preference to waiting writers": no reader gets the lock
\* while a writer waits for it, woken or not.
WritersFirst ==
  [][\A t \in Threads : pc[t] # "reading" /\ pc'[t] = "reading"
       => At({"wr_wait", "wr_wake"}) = {}]_vars

\* Readers that keep coming do not starve the writers: when one waits, the
\* writers have the lock in the end.
WritersServed == At({"wr_wait", "wr_wake"}) # {} ~> At({"writing"}) # {}
=============================================================================
