---------------------------- MODULE SharedCounter ----------------------------
(***************************************************************************)
(* The programs that increment a number they share, by reading and then    *)
(* writing it: lockmain, several processes on a file, linked with one of   *)
(* four versions of my_lock; incr1 to incr3, a parent and a child; and     *)
(* client1 of pxshm, several processes on a shared memory object and a     *)
(* named semaphore that server1 makes anew whenever it is run.  Pxshm is   *)
(* linked with one of the libraries of NamedSem; semcreate may run beside. *)
(* A behaviour is one run of one program.                                  *)
(***************************************************************************)
EXTENDS NamedSem

CONSTANTS Servers, Tools, Clients,  \* runs of server1, of semcreate, and the
                                    \* processes that increment
          Casts,                    \* the sets of processes that run together
          Mortal,                   \* processes that may be killed
          File,                     \* the file of lockmain, the count of incr2 and incr3
          NLoops                    \* iterations of each process

ASSUME CounterAssumption ==
  /\ Servers \cup Tools \cup Clients = Procs /\ Mortal \subseteq Procs
  /\ Casts \subseteq SUBSET Procs
  /\ Excl = Servers /\ Creat = Servers \cup Tools
  /\ File \notin Procs /\ None \notin Procs \cup {File}
  /\ NLoops \in Nat \ {0}

VARIABLES
  prog,                   \* the program; it stays
  shm,                    \* the shared memory object of that name: the server that made it
  reg,                    \* process -> where the number it increments is
  count,                  \* the number there
  local,                  \* process -> seqno, or the operand of ++
  left,                   \* process -> iterations to go
  lockfile,               \* holder of the record lock, or creator of the lock file
  initflag,               \* processes in which my_lock is initialized
  writes,                 \* increments done to each number (history)
  locks,                  \* locks ever held by those that increment it (history)
  stranded                \* locks whose holder, or creator, died, or that were
                          \* given back to another FIFO (history)

counts == <<reg, count, local, left, writes>>
hists == <<locks, stranded>>
vars == <<lib, pc, semvars, prog, shm, counts, lockfile, initflag, hists>>

Regions == Procs \cup {File, None}

\* Names of locks in "locks" beside the semaphores.
Unlocked == 0
TheFile == -1

Programs == {"locknone", "lockfcntl", "lockopen", "locksvsem",
             "incr1", "incr2", "incr3", "client1"}
LockMain == prog \in {"locknone", "lockfcntl", "lockopen", "locksvsem"}
Incr == prog \in {"incr1", "incr2", "incr3"}

\* incr1 to incr3 fork with the semaphore open and the number 0; incr1's
\* number is in each process's own memory.
Init ==
  /\ prog \in Programs
  /\ lib \in IF prog = "client1" THEN {"fifo", "svsem"} ELSE {"kernel"}
  /\ path = None /\ bykey = [k \in Keys |-> None] /\ twice = {} /\ gone = {}
  /\ \E s \in Sems, C \in Casts : LET P == C \cap Clients IN
       /\ Incr => Cardinality(P) = 2
       /\ made = IF Incr THEN {s} ELSE {}
       /\ ready = made
       /\ val = [x \in Sems |-> IF x \in made THEN 1 ELSE 0]
       /\ sem = [p \in Procs |-> IF Incr /\ p \in P THEN [Closed EXCEPT !.rd = s, !.wr = s]
                                 ELSE Closed]
       /\ pc = [p \in Procs |->
                  CASE p \in P -> IF prog = "client1" THEN "attach" ELSE "lock"
                    [] p \in C \cap Servers /\ prog = "client1" -> "shm_unlink"
                    [] p \in C \cap Tools /\ prog = "client1" -> OpenFrom(p)
                    [] OTHER -> "done"]
  /\ reg = [p \in Procs |-> CASE prog = "client1" -> None
                              [] prog = "incr1" -> p
                              [] OTHER -> File]
  /\ shm = None /\ count = [r \in Regions |-> 0] /\ local = [p \in Procs |-> 0]
  /\ left = [p \in Procs |-> NLoops]
  /\ lockfile = None /\ initflag = {}
  /\ writes = [r \in Regions |-> 0] /\ locks = [r \in Regions |-> {}] /\ stranded = {}
-----------------------------------------------------------------------------
(* my_lock and sem_wait.                                                   *)

\* The process goes on to its critical region, with the lock named.
Enter(p, lock) ==
  /\ Goto(p, "lock", "read")
  /\ locks' = [locks EXCEPT ![reg[p]] = @ \cup {lock}]
  /\ UNCHANGED <<lib, prog, shm, counts, stranded>>

lock_none(p) ==
  /\ prog = "locknone" /\ Enter(p, Unlocked)
  /\ UNCHANGED <<semvars, lockfile, initflag>>

lock_fcntl(p) ==
  /\ prog = "lockfcntl" /\ lockfile = None
  /\ Enter(p, TheFile)
  /\ lockfile' = p
  /\ UNCHANGED <<semvars, initflag>>

lock_open_NoExcl(p) ==     \* mutation: open without O_EXCL
  /\ prog = "lockopen"
  /\ Enter(p, TheFile)
  /\ lockfile' = p
  /\ UNCHANGED <<semvars, initflag>>

lock_open(p) ==
  /\ prog = "lockopen" /\ lockfile = None
  /\ Enter(p, TheFile)
  /\ lockfile' = p
  /\ UNCHANGED <<semvars, initflag>>

\* my_lock of locksvsem before initflag is set: the set is made, or looked up.
TheKey == CHOOSE k \in Keys : TRUE

svsem_get(p) ==
  /\ pc[p] = "lock" /\ prog = "locksvsem" /\ p \notin initflag
  /\ IF bykey[TheKey] = None
     THEN \E s \in Sems \ made :
            /\ Goto(p, "lock", "lock_setval")
            /\ bykey' = [bykey EXCEPT ![TheKey] = s]
            /\ made' = made \cup {s}
            /\ sem' = [sem EXCEPT ![p].rd = s, ![p].wr = s, ![p].created = TRUE]
     ELSE /\ Goto(p, "lock", "lock_stat")
          /\ sem' = [sem EXCEPT ![p].rd = bykey[TheKey], ![p].wr = bykey[TheKey],
                                ![p].tries = 0]
          /\ UNCHANGED <<bykey, made>>
  /\ UNCHANGED <<lib, path, val, ready, twice, gone, prog, shm, counts, lockfile, initflag, hists>>

svsem_setval(p) ==
  /\ Goto(p, "lock_setval", "lock")
  /\ val' = [val EXCEPT ![sem[p].rd] = 1]
  /\ initflag' = initflag \cup {p}
  /\ UNCHANGED <<lib, names, ready, made, twice, gone, sem, prog, shm, counts, lockfile, hists>>

\* IPC_STAT; after MAX_TRIES my_lock returns without the lock.
svsem_stat(p) ==
  /\ pc[p] = "lock_stat"
  /\ \/ /\ sem[p].rd \in ready
        /\ Goto(p, "lock_stat", "lock")
        /\ initflag' = initflag \cup {p}
        /\ UNCHANGED <<sem, locks>>
     \/ /\ sem[p].rd \notin ready
        /\ sem' = [sem EXCEPT ![p].tries = @ + 1]
        /\ IF sem[p].tries + 1 = MAX_TRIES
           THEN /\ Goto(p, "lock_stat", "read")
                /\ locks' = [locks EXCEPT ![reg[p]] = @ \cup {Unlocked}]
           ELSE Goto(p, "lock_stat", "lock_stat") /\ UNCHANGED locks
        /\ UNCHANGED initflag
  /\ UNCHANGED <<lib, names, values, prog, shm, counts, lockfile, stranded>>

svsem_down(p) ==
  /\ pc[p] = "lock" /\ prog = "locksvsem" /\ p \in initflag
  /\ Enter(p, sem[p].rd)
  /\ val[sem[p].rd] > 0 /\ val' = [val EXCEPT ![sem[p].rd] = @ - 1]
  /\ ready' = ready \cup {sem[p].rd}
  /\ UNCHANGED <<names, made, twice, gone, sem, lockfile, initflag>>

\* sem_wait of incr1 to incr3 and client1, which do not look at its result.
wait_mutex(p) ==
  /\ pc[p] = "lock"
  /\ Incr \/ prog = "client1"
  /\ \/ sem_wait(p) /\ Enter(p, sem[p].rd)
     \/ sem_wait_fails(p) /\ Enter(p, Unlocked)
  /\ UNCHANGED <<lockfile, initflag>>
-----------------------------------------------------------------------------
(* The increment.                                                          *)

\* rewind and read, or the first half of ++.
read_seqno(p) ==
  /\ reg[p] # None
  /\ Goto(p, "read", "write")
  /\ local' = [local EXCEPT ![p] = count[reg[p]]]
  /\ UNCHANGED <<lib, semvars, prog, shm, reg, count, left, writes, lockfile, initflag, hists>>

write_seqno(p) ==
  /\ Goto(p, "write", "unlock")
  /\ count' = [count EXCEPT ![reg[p]] = local[p] + 1]
  /\ writes' = [writes EXCEPT ![reg[p]] = @ + 1]
  /\ UNCHANGED <<lib, semvars, prog, shm, reg, local, left, lockfile, initflag, hists>>

\* my_unlock or sem_post, and the next iteration.
Again(p) ==
  /\ Goto(p, "unlock", IF left[p] = 1 THEN "exit" ELSE "lock")
  /\ left' = [left EXCEPT ![p] = @ - 1]
  /\ UNCHANGED <<lib, prog, shm, reg, count, local, writes, initflag, locks>>

unlock_file(p) ==
  /\ prog \in {"locknone", "lockfcntl", "lockopen"} /\ Again(p)
  /\ lockfile' = None
  /\ UNCHANGED <<semvars, stranded>>

\* SEM_UNDO is the kernel's; postop is still all zero if my_lock gave up, and
\* semop then waits for the value 0.
unlock_svsem(p) ==
  /\ pc[p] = "unlock" /\ prog = "locksvsem" /\ Again(p)
  /\ IF p \in initflag
     THEN val' = [val EXCEPT ![sem[p].wr] = @ + 1]
     ELSE val[sem[p].wr] = 0 /\ UNCHANGED val
  /\ ready' = ready \cup {sem[p].wr}
  /\ UNCHANGED <<names, made, twice, gone, sem, lockfile, stranded>>

post_mutex(p) ==
  /\ pc[p] = "unlock"
  /\ Incr \/ prog = "client1"
  /\ lib = "fifo" => HasReader(sem[p].wr)
  /\ Again(p) /\ sem_post(p)
  /\ stranded' = stranded \cup ({sem[p].rd} \ {sem[p].wr})
  /\ UNCHANGED lockfile
-----------------------------------------------------------------------------
(* Beginnings and ends.                                                    *)

others == <<lib, prog, counts, lockfile, initflag, hists>>

\* server1: a new shared memory object (its size is set in the same step), ...
server_shm_unlink(p) ==
  /\ Goto(p, "shm_unlink", "shm_open")
  /\ shm' = None
  /\ UNCHANGED <<semvars, others>>

server_shm_open(p) ==
  /\ Goto(p, "shm_open", "sem_unlink")
  /\ shm' = IF shm = None THEN p ELSE shm
  /\ UNCHANGED <<semvars, others>>

\* ... and a new semaphore.
server_sem_unlink(p) ==
  /\ Goto(p, "sem_unlink", OpenFrom(p))
  /\ sem_unlink
  /\ UNCHANGED <<shm, others>>

\* client1 maps the object, if there is one, before it opens the semaphore.
client_attach(p) ==
  /\ Goto(p, "attach", OpenFrom(p))
  /\ reg' = [reg EXCEPT ![p] = shm]
  /\ UNCHANGED <<lib, semvars, prog, shm, count, local, left, writes, lockfile, initflag, hists>>

open_semaphore(p) == sem_open(p) /\ UNCHANGED <<shm, others>>

client_opened(p) ==
  /\ p \in Clients /\ Goto(p, "opened", "lock")
  /\ UNCHANGED <<semvars, shm, others>>

\* server1 and semcreate close the semaphore at once; a process that ends has
\* its descriptors closed.
end(p) ==
  /\ \/ p \notin Clients /\ Goto(p, "opened", "done")
     \/ Goto(p, "exit", "done")
  /\ sem_close(p)
  /\ UNCHANGED <<shm, others>>

\* The lock p has.
Held(p) ==
  IF pc[p] \notin {"read", "write", "unlock"} THEN {}
  ELSE CASE prog \in {"lockfcntl", "lockopen"} -> {TheFile}
         [] prog = "locksvsem" -> {sem[p].rd : x \in initflag \cap {p}}
         [] Incr \/ prog = "client1" -> {sem[p].rd}
         [] OTHER -> {}

Undone_Not(p) == {}        \* mutation: sem_flg is 0

\* locksvsem's operations have SEM_UNDO.
Undone(p) == IF prog = "locksvsem" THEN Held(p) ELSE {}

\* A process dies: the kernel gives back a record lock and what has SEM_UNDO;
\* a lock file and the other semaphores stay taken.
Die(p, from) ==
  /\ Goto(p, from, "dead")
  /\ lockfile' = IF prog = "lockfcntl" /\ lockfile = p THEN None ELSE lockfile
  /\ val' = [s \in Sems |-> IF s \in Emptied(p) THEN 0
                            ELSE val[s] + Cardinality({s} \cap Undone(p))]
  /\ Discard(p)
  /\ stranded' = stranded \cup
       (IF prog \in {"lockfcntl", "locksvsem"} THEN {} ELSE Held(p)) \cup
       (IF from \in {"lock_setval", "increment", "init"} THEN {sem[p].rd} ELSE {})
  /\ UNCHANGED <<lib, names, ready, made, twice, prog, shm, counts, initflag, locks>>

\* By a signal of its own: sem_wait or sem_close of SEM_FAILED, an access to
\* an object that could not be mapped, a write to a FIFO without readers.
crash(p) ==
  \/ Die(p, "failed")
  \/ reg[p] = None /\ Die(p, "read")
  \/ \E from \in {"init", "unlock"} :
       lib = "fifo" /\ pc[p] = from /\ ~HasReader(sem[p].wr) /\ Die(p, from)

kill(p) == p \in Mortal /\ pc[p] \notin {"done", "dead"} /\ Die(p, pc[p])

my_lock(p) ==
  \/ lock_none(p) \/ lock_fcntl(p) \/ lock_open(p)
  \/ svsem_get(p) \/ svsem_setval(p) \/ svsem_stat(p) \/ svsem_down(p)
my_unlock(p) == unlock_file(p) \/ unlock_svsem(p)

Step(p) ==
  \/ my_lock(p) \/ wait_mutex(p) \/ read_seqno(p) \/ write_seqno(p)
  \/ my_unlock(p) \/ post_mutex(p)
  \/ server_shm_unlink(p) \/ server_shm_open(p) \/ server_sem_unlink(p)
  \/ client_attach(p) \/ open_semaphore(p) \/ client_opened(p) \/ end(p) \/ crash(p)

Next == \E p \in Procs : Step(p) \/ kill(p)

Spec == Init /\ [][Next]_vars

\* While a process can take its next step, one of them does: since each takes
\* finitely many, all go as far as they can.
FairSpec == Spec /\ WF_vars(\E p \in Procs : Step(p))
-----------------------------------------------------------------------------

\* No increment is lost as long as all that touched the number came with one
\* and the same lock: not with the new semaphore to the old shared memory or
\* the reverse, not after my_lock gave up, not with a semaphore removed by a
\* process that gave up waiting for it.
OneLock(r) ==
  /\ Unlocked \notin locks[r] /\ Cardinality(locks[r]) <= 1
  /\ locks[r] \cap twice = {}
NoUpdateLost == \A r \in Regions \ {None} : OneLock(r) => count[r] = writes[r]

\* What a process that never finishes waits for.
Stuck(p) ==
  \/ pc[p] = "lock" /\ prog = "lockopen" /\ TheFile \in stranded
  \/ pc[p] = "lock" /\ sem[p].rd \in gone \cup stranded
  \/ pc[p] = "lock" /\ sem[p].rd \in Sems \ ready
  \/ pc[p] = "unlock" /\ prog = "locksvsem" /\ p \notin initflag

\* Every process finishes.
AllFinish == <>[](\A p \in Procs : pc[p] \in {"done", "dead"} \/ Stuck(p))
=============================================================================
