----------------------------- MODULE MappedSem -----------------------------
(***************************************************************************)
(* A semaphore of pxsem/my_pxsem_mmap from its creation on: processes open *)
(* it (MqOpen), those that have it mapped call sem_wait, sem_trywait and   *)
(* sem_post (PxSemMmap), others still race to open, remove or re-create    *)
(* it, and any of them may be killed.  A name may lead to several files    *)
(* one after the other; the calls are followed on one of them.  In a       *)
(* behaviour about the queue nobody makes these calls.                     *)
(***************************************************************************)
EXTENDS MqOpen, PxSemMmap

CONSTANT Followed       \* the file whose sem_t the calls are about

ASSUME MappedSemAssumption == Followed \in Inodes /\ Threads = Procs

allvars == <<vars, callvars>>

\* sem_open writes an empty sem_t into a new file: its value is 0 until the
\* creator has mapped and initialized it.
MappedInit == Init /\ sem_count = 0 /\ NoCalls

SetValue ==
  sem_count' = IF Followed \in inited' \ inited THEN Value ELSE sem_count

opening(p) ==
  \/ mq_open(p) /\ UNCHANGED callvars
  \/ sem_open(p) /\ SetValue /\ UNCHANGED <<thread, posts, waits>>

\* Every opener stamps the magic number itself (sem_open.c:118), also on a
\* file that is not initialized, so the calls look at sem_count in any file
\* that has its size.
calling(p) ==
  /\ lib = "sem" /\ pc[p] = "opened" /\ mapped[p] = Followed /\ Followed \in sized
  /\ semcall(p)
  /\ UNCHANGED vars

\* A killed sleeper stays on the condition variable, and may get a signal.
ending(p) ==
  /\ CreatorFails(p) \/ Die(p) \/ (thread[p] = "idle" /\ mq_unlink(p))
  /\ UNCHANGED <<lib, callvars>>

MappedNext == \E p \in Procs : opening(p) \/ calling(p) \/ ending(p)

MappedSpec == MappedInit /\ [][MappedNext]_allvars

\* As in MqOpen, an opener only has to be scheduled; nothing is asked of the
\* calls.
FairMappedSpec == MappedSpec /\ \A p \in Procs : WF_allvars(opening(p))
-----------------------------------------------------------------------------

\* Nobody sleeps beside a positive value.  A caller that got into the file
\* before its value was set would sleep through the initialization, which
\* signals nobody: the bit keeps it out, unless the file lost its name.
AsleepAtZero ==
  \A p \in Procs : thread[p] = "wait" => sem_count = 0 \/ Followed \in removed
=============================================================================
