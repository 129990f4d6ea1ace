------------------------------ MODULE NamedSem ------------------------------
(***************************************************************************)
(* The two semaphore libraries of pxsem that leave the value to the        *)
(* kernel: my_pxsem_fifo, where it is the number of bytes in a FIFO, and   *)
(* my_pxsem_svsem, where it is that of a System V semaphore set with one   *)
(* member.  The calls of one process, each system call one action; who     *)
(* calls what is in SharedCounter.  All callers pass the initial value 1.  *)
(***************************************************************************)
EXTENDS Integers, FiniteSets

CONSTANTS Procs,
          Creat,          \* processes that pass O_CREAT to sem_open
          Excl,           \* those of them that pass O_EXCL too
          Sems,           \* the FIFOs or sets that can be made (bounds re-creation)
          Keys,           \* what ftok may make of the pathname's file
          None,
          MAX_TRIES

ASSUME NamedSemAssumption ==
  /\ Excl \subseteq Creat /\ Creat \subseteq Procs
  /\ IsFiniteSet(Procs) /\ IsFiniteSet(Sems)
  /\ None \notin Sems /\ None \notin Keys /\ Keys # {}
  /\ MAX_TRIES \in Nat \ {0}

VARIABLES
  lib,                    \* the library; it stays
  path,                   \* the FIFO at the pathname, or the key of the file there
  bykey,                  \* key -> the set made with it
  val,                    \* bytes in the FIFO, or semval
  ready,                  \* given their initial value: for sets, sem_otime is not 0
  made,                   \* made so far
  twice,                  \* given a value that nobody took from them (history)
  gone,                   \* sets removed; FIFOs that lost bytes at the last close
  pc,
  sem                     \* process -> its sem_t and the locals of its sem_open

names == <<path, bykey>>
values == <<val, ready, made, twice, gone>>
semvars == <<names, values, sem>>

\* sem_fd[0] and sem_fd[1], or sem_semid in both.
Closed == [rd |-> None, wr |-> None, key |-> None, tries |-> 0, created |-> FALSE]

SemInit ==
  /\ path = None /\ bykey = [k \in Keys |-> None]
  /\ val = [s \in Sems |-> 0] /\ ready = {} /\ made = {}
  /\ twice = {} /\ gone = {}
  /\ sem = [p \in Procs |-> Closed]

Goto(p, from, to) == pc[p] = from /\ pc' = [pc EXCEPT ![p] = to]
-----------------------------------------------------------------------------
(* FIFOs.                                                                  *)

HasReader(s) == \E q \in Procs : sem[q].rd = s
HasWriter(s) == \E q \in Procs : sem[q].wr = s

mkfifo(p) ==
  /\ Goto(p, "mkfifo", IF path # None /\ p \in Excl THEN "failed" ELSE "open_rd")
  /\ IF path = None
     THEN \E s \in Sems \ made :
            /\ path' = s /\ made' = made \cup {s}
            /\ sem' = [sem EXCEPT ![p].created = TRUE]
     ELSE UNCHANGED <<path, made, sem>>
  /\ UNCHANGED <<bykey, val, ready, twice, gone>>

\* open with O_RDONLY|O_NONBLOCK.
open_rd(p) ==
  /\ Goto(p, "open_rd", IF path = None THEN "error" ELSE "open_wr")
  /\ sem' = [sem EXCEPT ![p].rd = path]
  /\ UNCHANGED <<names, values>>

\* open with O_WRONLY|O_NONBLOCK, by name again: ENXIO if nobody reads.
open_wr(p) ==
  /\ pc[p] = "open_wr"
  /\ IF path # None /\ HasReader(path)
     THEN /\ Goto(p, "open_wr", IF sem[p].created THEN "init" ELSE "opened")
          /\ sem' = [sem EXCEPT ![p].wr = path]
     ELSE Goto(p, "open_wr", "error") /\ UNCHANGED sem
  /\ UNCHANGED <<names, values>>

\* The creator writes the initial value, into the FIFO it has opened, which may
\* have lost its reader (crash of SharedCounter).
write_value(p) ==
  /\ Goto(p, "init", "opened") /\ HasReader(sem[p].wr)
  /\ val' = [val EXCEPT ![sem[p].wr] = @ + 1]
  /\ ready' = ready \cup {sem[p].wr}
  /\ twice' = twice \cup ({sem[p].wr} \cap ready)
  /\ UNCHANGED <<names, made, gone, sem>>

\* Closing the last descriptor of a FIFO discards its bytes.
Emptied(p) ==
  {s \in Sems \cap {sem[p].rd, sem[p].wr} :
     lib = "fifo" /\ \A q \in Procs \ {p} : s \notin {sem[q].rd, sem[q].wr}}

Discard(p) ==
  /\ gone' = gone \cup {s \in Emptied(p) : val[s] > 0}
  /\ sem' = [sem EXCEPT ![p] = Closed]

Release(p) ==
  /\ val' = [s \in Sems |-> IF s \in Emptied(p) THEN 0 ELSE val[s]]
  /\ Discard(p)

\* error: unlink by name if this process created a FIFO; close.
fifo_error(p) ==
  /\ Goto(p, "error", "failed")
  /\ path' = IF sem[p].created THEN None ELSE path
  /\ Release(p)
  /\ UNCHANGED <<bykey, ready, made, twice>>
-----------------------------------------------------------------------------
(* System V semaphores.                                                    *)

\* open(pathname, oflag, mode): an old key may come back with a new file.
open_file(p) ==
  /\ Goto(p, "open", IF path # None /\ p \in Excl THEN "failed" ELSE "ftok_create")
  /\ IF path = None THEN path' \in Keys ELSE UNCHANGED path
  /\ UNCHANGED <<bykey, values, sem>>

ftok(p, from, to) ==
  /\ Goto(p, from, IF path = None THEN "failed" ELSE to)
  /\ sem' = [sem EXCEPT ![p].key = path]
  /\ UNCHANGED <<names, values>>

\* semget(key, 1, IPC_CREAT|IPC_EXCL): the new set has semval and sem_otime 0.
semget_create(p) ==
  /\ pc[p] = "semget_create"
  /\ IF bykey[sem[p].key] = None
     THEN \E s \in Sems \ made :
            /\ Goto(p, "semget_create", "setval")
            /\ bykey' = [bykey EXCEPT ![sem[p].key] = s]
            /\ made' = made \cup {s}
            /\ sem' = [sem EXCEPT ![p].rd = s, ![p].wr = s, ![p].created = TRUE]
     ELSE /\ Goto(p, "semget_create", IF p \in Excl THEN "failed" ELSE "ftok")
          /\ UNCHANGED <<bykey, made, sem>>
  /\ UNCHANGED <<path, val, ready, twice, gone>>

Removed(s) == lib = "svsem" /\ s \in gone

\* SETVAL 0, then semop by the value, which sets sem_otime.
setval(p) ==
  /\ Goto(p, "setval", IF Removed(sem[p].rd) THEN "rmid" ELSE "increment")
  /\ UNCHANGED semvars

increment(p) ==
  /\ pc[p] = "increment"
  /\ IF Removed(sem[p].rd)
     THEN Goto(p, "increment", "rmid") /\ UNCHANGED <<val, ready>>
     ELSE /\ Goto(p, "increment", "opened")
          /\ val' = [val EXCEPT ![sem[p].rd] = @ + 1]
          /\ ready' = ready \cup {sem[p].rd}
  /\ UNCHANGED <<names, made, twice, gone, sem>>

semget(p) ==
  /\ pc[p] = "semget"
  /\ Goto(p, "semget", IF bykey[sem[p].key] = None THEN "failed" ELSE "stat")
  /\ sem' = [sem EXCEPT ![p].rd = bykey[sem[p].key], ![p].wr = bykey[sem[p].key]]
  /\ UNCHANGED <<names, values>>

\* IPC_STAT until sem_otime is set, at most MAX_TRIES times.
stat(p) ==
  /\ pc[p] = "stat"
  /\ CASE Removed(sem[p].rd) -> Goto(p, "stat", "rmid") /\ UNCHANGED sem
       [] sem[p].rd \in ready -> Goto(p, "stat", "opened") /\ UNCHANGED sem
       [] OTHER -> /\ Goto(p, "stat", IF sem[p].tries + 1 = MAX_TRIES THEN "rmid" ELSE "stat")
                   /\ sem' = [sem EXCEPT ![p].tries = @ + 1]
  /\ UNCHANGED <<names, values>>

\* err: IPC_RMID, whoever made the set.
rmid(p) ==
  /\ Goto(p, "rmid", "failed")
  /\ gone' = gone \cup {sem[p].rd}
  /\ bykey' = [k \in Keys |-> IF bykey[k] = sem[p].rd THEN None ELSE bykey[k]]
  /\ sem' = [sem EXCEPT ![p] = Closed]
  /\ UNCHANGED <<path, val, ready, made, twice>>
-----------------------------------------------------------------------------
(* The calls.                                                              *)

\* The first system call of sem_open.
OpenFrom(p) ==
  IF lib = "fifo" THEN (IF p \in Creat THEN "mkfifo" ELSE "open_rd")
                  ELSE (IF p \in Creat THEN "open" ELSE "ftok")

sem_open(p) ==
  \/ mkfifo(p) \/ open_rd(p) \/ open_wr(p) \/ write_value(p) \/ fifo_error(p)
  \/ open_file(p) \/ ftok(p, "ftok_create", "semget_create") \/ semget_create(p)
  \/ setval(p) \/ increment(p) \/ ftok(p, "ftok", "semget") \/ semget(p) \/ stat(p) \/ rmid(p)

\* unlink.  my_pxsem_svsem then looks for the set under ftok(pathname, 1), a
\* key that sem_open never uses, and so leaves the set.
sem_unlink ==
  /\ path' = None
  /\ UNCHANGED <<bykey, values, sem>>

\* read of one byte or semop -1: takes one of the value.
sem_wait(p) ==
  /\ ~Removed(sem[p].rd) /\ val[sem[p].rd] > 0
  /\ val' = [val EXCEPT ![sem[p].rd] = @ - 1]
  /\ UNCHANGED <<names, ready, made, twice, gone, sem>>

\* It returns empty-handed: EIDRM, or end of file because no process has the
\* FIFO open for writing.
sem_wait_fails(p) ==
  /\ \/ Removed(sem[p].rd)
     \/ lib = "fifo" /\ val[sem[p].rd] = 0 /\ ~HasWriter(sem[p].rd)
  /\ UNCHANGED semvars

\* sem_open may have opened two FIFOs of that name, one to read, one to write.
sem_post(p) ==
  /\ val' = IF Removed(sem[p].wr) THEN val ELSE [val EXCEPT ![sem[p].wr] = @ + 1]
  /\ twice' = twice \cup ({sem[p].wr} \ {sem[p].rd})
  /\ UNCHANGED <<names, ready, made, gone, sem>>

\* sem_close, or the end of a process.
sem_close(p) ==
  /\ Release(p)
  /\ UNCHANGED <<names, ready, made, twice>>
=============================================================================
