----------------------------- MODULE PxSemMmap -----------------------------
(***************************************************************************)
(* The Posix semaphore of pxsem/my_pxsem_mmap once it is open: sem_wait,   *)
(* sem_trywait and sem_post on a sem_t in a mapped file, with one mutex    *)
(* and one condition variable.  Each call holds sem_mutex from its first   *)
(* to its last access of sem_count, except in pthread_cond_wait.  No name  *)
(* here is one of MqOpen, which has the opening, so that MappedSem can     *)
(* extend both.                                                            *)
(***************************************************************************)
EXTENDS Integers, FiniteSets

CONSTANTS Threads,
          Waiters,         \* those that call sem_wait
          Trying,          \* those that call sem_trywait
          Posters,         \* those that call sem_post
          Value,           \* the initial value
          MaxPosts         \* bound: sem_post is not called more often

ASSUME SemAssumption ==
  /\ IsFiniteSet(Threads)
  /\ Waiters \subseteq Threads /\ Trying \subseteq Threads /\ Posters \subseteq Threads
  /\ Value \in Nat /\ MaxPosts \in Nat

VARIABLES sem_count,
          thread,          \* thread -> "idle", asleep ("wait") or woken ("wake")
          posts, waits     \* the calls that have completed (history)

callvars == <<sem_count, thread, posts, waits>>

NoCalls ==
  /\ thread = [t \in Threads |-> "idle"]
  /\ posts = 0 /\ waits = 0

CallsInit == sem_count = Value /\ NoCalls

\* sem_count--, and sem_wait or sem_trywait returns 0.
Take(t) ==
  /\ sem_count' = sem_count - 1
  /\ waits' = waits + 1
  /\ thread' = [thread EXCEPT ![t] = "idle"]
  /\ UNCHANGED posts

Sleep(t) ==
  /\ thread' = [thread EXCEPT ![t] = "wait"]
  /\ UNCHANGED <<sem_count, posts, waits>>

sem_wait(t) ==
  /\ t \in Waiters /\ thread[t] = "idle"
  /\ \/ sem_count = 0 /\ Sleep(t)
     \/ sem_count # 0 /\ Take(t)

\* Mutation: an if instead of the while around pthread_cond_wait.
sem_wait_resume_If(t) == thread[t] = "wake" /\ Take(t)

\* Back from pthread_cond_wait, with sem_mutex locked again.
sem_wait_resume(t) ==
  /\ thread[t] = "wake"
  /\ \/ sem_count = 0 /\ Sleep(t)
     \/ sem_count # 0 /\ Take(t)

sem_trywait(t) ==
  /\ t \in Trying /\ thread[t] = "idle"
  /\ \/ sem_count > 0 /\ Take(t)
     \/ ~(sem_count > 0) /\ UNCHANGED callvars        \* EAGAIN

\* pthread_cond_signal on sem_cond: any one sleeper.  Once a post has
\* incremented sem_cond the effect is undefined: the signal may be lost.
CondSignal ==
  \/ \E t \in Threads : thread[t] = "wait" /\ thread' = [thread EXCEPT ![t] = "wake"]
  \/ (posts > 0 \/ \A t \in Threads : thread[t] # "wait") /\ UNCHANGED thread

\* The signal, and sem_cond++: the condition variable is incremented, not
\* sem_count.
sem_post(t) ==
  /\ t \in Posters /\ thread[t] = "idle" /\ posts < MaxPosts
  /\ IF sem_count = 0 THEN CondSignal ELSE UNCHANGED thread
  /\ posts' = posts + 1
  /\ UNCHANGED <<sem_count, waits>>

\* pthread_cond_wait returns without a signal.
SpuriousWake(t) ==
  /\ thread[t] = "wait"
  /\ thread' = [thread EXCEPT ![t] = "wake"]
  /\ UNCHANGED <<sem_count, posts, waits>>

semcall(t) ==
  sem_wait(t) \/ sem_wait_resume(t) \/ sem_trywait(t) \/ sem_post(t) \/ SpuriousWake(t)

CallsSpec == CallsInit /\ [][\E t \in Threads : semcall(t)]_callvars

\* A woken thread gets sem_mutex in the end.
FairCallsSpec == CallsSpec /\ \A t \in Threads : WF_callvars(sem_wait_resume(t))
-----------------------------------------------------------------------------

CallsTypeOK ==
  /\ sem_count \in Nat
  /\ thread \in [Threads -> {"idle", "wait", "wake"}]
  /\ posts \in 0..MaxPosts /\ waits \in Nat

\* A wait completes only against the initial value or a post, each used once,
\* and sem_count, which is unsigned, does not wrap below 0.
NoOverdraft == sem_count >= 0 /\ waits <= Value + posts

\* semaphore.h:8 "the actual semaphore value": sem_count is the value of a
\* counting semaphore, which a post raises by one and a completed wait lowers
\* by one.
Sem == INSTANCE Semaphore WITH value <- sem_count
ImplementsSemaphore == Sem!SemSpec
=============================================================================
