------------------------ MODULE SharedCounterProofs ------------------------
(***************************************************************************)
(* Proofs about SharedCounter, for any number of processes, iterations,    *)
(* semaphores and keys: no update is lost of a number that was incremented *)
(* under one lock only, because two processes are then never between the   *)
(* lock and the unlock at the same time, whoever opens, closes, gives up   *)
(* or dies meanwhile.                                                      *)
(***************************************************************************)
EXTENDS SharedCounter, FiniteSetTheorems, TLAPS

\* Between the lock and the unlock.
Crit == {"read", "write", "unlock"}

\* In sem_open, of my_pxsem_fifo or of my_pxsem_svsem.
OpenFifo == {"mkfifo", "open_rd", "open_wr", "init", "error"}
OpenSvsem == {"open", "ftok_create", "semget_create", "setval", "increment",
              "ftok", "semget", "stat", "rmid"}

\* Before, or in place of, the lock.
Begin == {"shm_unlink", "shm_open", "sem_unlink", "attach", "opened", "failed"}

\* About to give the set just made its value.
Setting == {"setval", "increment", "lock_setval"}

\* The programs whose lock is a semaphore.
WithSem == {"locksvsem", "incr1", "incr2", "incr3", "client1"}

LockNames == Sems \cup {Unlocked, TheFile}
SemT == [rd : Sems \cup {None}, wr : Sems \cup {None}, key : Keys \cup {None},
         tries : Nat, created : BOOLEAN]

TypeInv ==
  /\ prog \in Programs
  /\ lib \in IF prog = "client1" THEN {"fifo", "svsem"} ELSE {"kernel"}
  /\ path \in IF lib = "fifo" THEN made \cup {None} ELSE Keys \cup {None}
  /\ bykey \in [Keys -> made \cup {None}]
  /\ val \in [Sems -> Nat] /\ ready \subseteq made /\ made \subseteq Sems
  /\ pc = [p \in Procs |-> pc[p]]
  /\ sem \in [Procs -> SemT]
  /\ shm \in Procs \cup {None} /\ reg \in [Procs -> Regions]
  /\ count \in [Regions -> Int] /\ writes \in [Regions -> Int] /\ local \in [Procs -> Int]
  /\ locks \in [Regions -> SUBSET LockNames]

\* The program and library that each place belongs to.
PlaceOK(p) ==
  /\ pc[p] \in OpenFifo => lib = "fifo"
  /\ pc[p] \in OpenSvsem => lib = "svsem"
  /\ pc[p] \in Begin => prog = "client1"
  /\ pc[p] \in {"lock_setval", "lock_stat"} => prog = "locksvsem" /\ p \notin initflag

\* What a process has open, or has found, at the places where it uses it.
SemOK(p) ==
  /\ lib # "fifo" => sem[p].rd = sem[p].wr
  /\ pc[p] \in {"semget_create", "semget"} => sem[p].key \in Keys
  /\ pc[p] \in {"open_wr", "init", "opened", "stat", "lock_stat"} \cup Setting => sem[p].rd \in made
  /\ pc[p] \in {"init", "opened"} => sem[p].wr \in made
  /\ pc[p] \in {"lock"} \cup Crit =>
       \/ prog \notin WithSem
       \/ prog = "locksvsem" /\ pc[p] = "lock" /\ p \notin initflag
       \/ {sem[p].rd, sem[p].wr} \subseteq made

\* Who gives a set its value is the only one to do so; under my_pxsem_svsem
\* nobody finds the set ready before.
SetterOK(p) ==
  pc[p] \in Setting =>
    /\ pc[p] # "lock_setval" => sem[p].rd \notin ready
    /\ \A q \in Procs \ {p} : pc[q] \in Setting => sem[q].rd # sem[p].rd

\* The lock that a process asks for.
LockOf(p) ==
  IF prog = "locknone" THEN Unlocked
  ELSE IF prog \in WithSem THEN sem[p].rd ELSE TheFile

\* Between the lock and the unlock the lock is noted among those of the
\* number, or that there was none; a record lock or lock file is p's.
LockOK(p) ==
  pc[p] \in Crit =>
    /\ Unlocked \in locks[reg[p]] \/ LockOf(p) \in locks[reg[p]]
    /\ prog = "locksvsem" /\ p \notin initflag => Unlocked \in locks[reg[p]]
    /\ prog \in {"lockfcntl", "lockopen"} => lockfile = p

\* p has taken the value of s: it is between the lock and the unlock with s,
\* unless it got there without, because my_lock gave up or sem_wait failed.
\* Then the number has Unlocked among its locks, and s was removed or is not
\* the FIFO that p writes to.
Holds(p, s) ==
  /\ pc[p] \in Crit /\ prog \in WithSem /\ sem[p].rd = s
  /\ IF prog = "locksvsem" THEN p \in initflag
     ELSE ~(Unlocked \in locks[reg[p]] /\ (Removed(s) \/ sem[p].wr # s))

\* s has yet to get its value.
Unset(s) ==
  IF prog = "locksvsem"
  THEN s \notin made \/ \E p \in Procs : pc[p] = "lock_setval" /\ sem[p].rd = s
  ELSE s \notin ready

\* A semaphore has the value 1, or one process has it, or neither.
TokenOK(s) ==
  /\ val[s] <= 1
  /\ \A p, q \in Procs : Holds(p, s) /\ Holds(q, s) => p = q
  /\ (\E p \in Procs : Holds(p, s)) \/ Unset(s) => val[s] = 0
  /\ Unset(s) => \A p \in Procs : ~Holds(p, s)

\* What a process has read is still the number, if one lock was used.
LocalOK(p) == pc[p] = "write" /\ OneLock(reg[p]) => local[p] = count[reg[p]]

IInv ==
  /\ TypeInv
  /\ \A p \in Procs : PlaceOK(p) /\ SemOK(p) /\ SetterOK(p) /\ LockOK(p) /\ LocalOK(p)
  /\ \A s \in Sems \ twice : TokenOK(s)
  /\ NoUpdateLost

\* What a step of p leaves alone: the program, what the other processes have
\* and where they are; and what only grows.
Frame(p) ==
  /\ prog' = prog /\ lib' = lib
  /\ made \subseteq made' /\ ready \subseteq ready'
  /\ gone \subseteq gone' /\ twice \subseteq twice'
  /\ \A r \in Regions : locks[r] \subseteq locks'[r]
  /\ \A q \in Procs \ {p} :
       /\ pc'[q] = pc[q] /\ sem'[q] = sem[q] /\ reg'[q] = reg[q] /\ local'[q] = local[q]
       /\ q \in initflag' <=> q \in initflag

Move(p) == Step(p) \/ kill(p)

\* What a step does to the descriptors of p and the locals of its sem_open.
SemStep(p) ==
  \/ UNCHANGED sem
  \/ sem' = [sem EXCEPT ![p].created = TRUE]
  \/ sem' = [sem EXCEPT ![p].tries = @ + 1]
  \/ sem' = [sem EXCEPT ![p] = Closed]
  \/ \E k \in Keys \cup {None} : sem' = [sem EXCEPT ![p].key = k]
  \/ \E s \in Sems \cup {None} :
       \/ sem' = [sem EXCEPT ![p].rd = s]
       \/ sem' = [sem EXCEPT ![p].wr = s]
       \/ sem' = [sem EXCEPT ![p].rd = s, ![p].wr = s]
       \/ sem' = [sem EXCEPT ![p].rd = s, ![p].wr = s, ![p].tries = 0]
       \/ sem' = [sem EXCEPT ![p].rd = s, ![p].wr = s, ![p].created = TRUE]

\* They keep their types.
LEMMA SemTyping ==
  ASSUME sem \in [Procs -> SemT], NEW p \in Procs, SemStep(p)
  PROVE  sem' \in [Procs -> SemT]
<1> DEFINE S == sem[p]
<1>1. S \in SemT /\ Closed \in SemT
  BY DEF SemT, Closed
<1>2. \A r \in SemT : [r EXCEPT !.created = TRUE] \in SemT
  BY DEF SemT
<1>3. \A r \in SemT : [r EXCEPT !.tries = 0] \in SemT
  BY DEF SemT
<1>4. \A r \in SemT : [r EXCEPT !.tries = r.tries + 1] \in SemT
  BY DEF SemT
<1>5. \A r \in SemT, k \in Keys \cup {None} : [r EXCEPT !.key = k] \in SemT
  BY DEF SemT
<1>6. \A r \in SemT, s \in Sems \cup {None} : [r EXCEPT !.rd = s] \in SemT
  BY DEF SemT
<1>7. \A r \in SemT, s \in Sems \cup {None} : [r EXCEPT !.wr = s] \in SemT
  BY DEF SemT
<1>8. ASSUME NEW s \in Sems \cup {None}
      PROVE  /\ [S EXCEPT !.rd = s, !.wr = s] \in SemT
             /\ [S EXCEPT !.rd = s, !.wr = s, !.tries = 0] \in SemT
             /\ [S EXCEPT !.rd = s, !.wr = s, !.created = TRUE] \in SemT
  <2> DEFINE S1 == [S EXCEPT !.rd = s]
             S2 == [S1 EXCEPT !.wr = s]
  <2>1. S1 \in SemT /\ S2 \in SemT
    BY <1>1, <1>6, <1>7
  <2> QED BY <2>1, <1>2, <1>3
<1>9. [S EXCEPT !.tries = S.tries + 1] \in SemT
  BY <1>1, <1>4
<1>10. CASE UNCHANGED sem \/ sem' = [sem EXCEPT ![p] = Closed]
  BY <1>1, <1>10
<1>11. CASE sem' = [sem EXCEPT ![p].created = TRUE]
  BY <1>1, <1>2, <1>11
<1>12. CASE sem' = [sem EXCEPT ![p].tries = @ + 1]
  BY <1>9, <1>12
<1>13. CASE \E k \in Keys \cup {None} : sem' = [sem EXCEPT ![p].key = k]
  BY <1>1, <1>5, <1>13
<1>14. ASSUME NEW s \in Sems \cup {None},
              \/ sem' = [sem EXCEPT ![p].rd = s]
              \/ sem' = [sem EXCEPT ![p].wr = s]
       PROVE  sem' \in [Procs -> SemT]
  BY <1>1, <1>6, <1>7, <1>14
<1>15. ASSUME NEW s \in Sems \cup {None},
              \/ sem' = [sem EXCEPT ![p].rd = s, ![p].wr = s]
              \/ sem' = [sem EXCEPT ![p].rd = s, ![p].wr = s, ![p].tries = 0]
              \/ sem' = [sem EXCEPT ![p].rd = s, ![p].wr = s, ![p].created = TRUE]
       PROVE  sem' \in [Procs -> SemT]
  BY <1>8, <1>15
<1> QED BY <1>10, <1>11, <1>12, <1>13, <1>14, <1>15 DEF SemStep

-----------------------------------------------------------------------------
(* Types, places and descriptors.                                          *)

\* A step of sem_open keeps the type invariant, and what it says of p.
LEMMA OpenStep ==
  ASSUME TypeInv, NEW p \in Procs, PlaceOK(p), SemOK(p), open_semaphore(p)
  PROVE  TypeInv' /\ Frame(p) /\ PlaceOK(p)' /\ SemOK(p)'
<1> USE NamedSemAssumption DEF TypeInv, Goto, names, values, others, counts, hists
<1>0. UNCHANGED <<shm, others>> /\ sem_open(p)
  BY DEF open_semaphore
<1>1. CASE mkfifo(p)
  <2>1. SemStep(p)
    BY <1>1 DEF mkfifo, SemStep
  <2>2. TypeInv'
    BY <1>0, <1>1, <2>1, SemTyping DEF mkfifo, PlaceOK, OpenFifo
  <2>3. Frame(p)
    BY <1>0, <1>1 DEF mkfifo, Frame
  <2>4. PlaceOK(p)'
    BY <1>0, <1>1 DEF mkfifo, PlaceOK, OpenFifo, OpenSvsem
  <2>5. SemOK(p)'
    BY <1>0, <1>1 DEF mkfifo, PlaceOK, SemOK, OpenFifo, Crit, Setting
  <2> QED BY <2>2, <2>3, <2>4, <2>5
<1>2. CASE open_rd(p)
  <2>1. SemStep(p)
    BY <1>2 DEF open_rd, SemStep, PlaceOK, OpenFifo
  <2>2. TypeInv'
    BY <1>0, <1>2, <2>1, SemTyping DEF open_rd
  <2>3. Frame(p)
    BY <1>0, <1>2 DEF open_rd, Frame
  <2>4. PlaceOK(p)'
    BY <1>0, <1>2 DEF open_rd, PlaceOK, OpenFifo, OpenSvsem
  <2>5. SemOK(p)'
    BY <1>0, <1>2 DEF open_rd, PlaceOK, SemOK, OpenFifo, Crit, Setting
  <2> QED BY <2>2, <2>3, <2>4, <2>5
<1>3. CASE open_wr(p)
  <2>1. SemStep(p)
    BY <1>3 DEF open_wr, SemStep, PlaceOK, OpenFifo
  <2>2. TypeInv'
    BY <1>0, <1>3, <2>1, SemTyping DEF open_wr
  <2>3. Frame(p)
    BY <1>0, <1>3 DEF open_wr, Frame
  <2>4. PlaceOK(p)'
    BY <1>0, <1>3 DEF open_wr, PlaceOK, OpenFifo, OpenSvsem
  <2>5. SemOK(p)'
    BY <1>0, <1>3 DEF open_wr, SemT, PlaceOK, SemOK, OpenFifo, Crit
  <2> QED BY <2>2, <2>3, <2>4, <2>5
<1>4. CASE write_value(p)
  <2>0. sem[p].wr \in made
    BY <1>0, <1>4 DEF write_value, SemOK
  <2>1. val' \in [Sems -> Nat]
    BY <1>0, <1>4, <2>0 DEF write_value
  <2>2. TypeInv'
    BY <1>0, <1>4, <2>0, <2>1 DEF write_value
  <2>3. Frame(p)
    BY <1>0, <1>4 DEF write_value, Frame
  <2>4. PlaceOK(p)'
    BY <1>0, <1>4 DEF write_value, PlaceOK, OpenFifo, OpenSvsem
  <2>5. SemOK(p)'
    BY <1>0, <1>4 DEF write_value, SemOK
  <2> QED BY <2>2, <2>3, <2>4, <2>5
<1>5. CASE fifo_error(p)
  <2>1. SemStep(p)
    BY <1>5 DEF fifo_error, Release, Discard, SemStep
  <2>2. TypeInv'
    BY <1>0, <1>5, <2>1, SemTyping DEF fifo_error, Release
  <2>3. Frame(p)
    BY <1>0, <1>5 DEF fifo_error, Release, Discard, Frame
  <2>4. PlaceOK(p)'
    BY <1>0, <1>5 DEF fifo_error, PlaceOK, OpenFifo, OpenSvsem
  <2>5. SemOK(p)'
    BY <1>0, <1>5 DEF fifo_error, PlaceOK, SemOK, OpenFifo, Crit, Setting
  <2> QED BY <2>2, <2>3, <2>4, <2>5
<1>6. CASE open_file(p)
  <2>1. TypeInv'
    BY <1>0, <1>6 DEF open_file, PlaceOK, OpenSvsem
  <2>2. Frame(p)
    BY <1>0, <1>6 DEF open_file, Frame
  <2>3. PlaceOK(p)'
    BY <1>0, <1>6 DEF open_file, PlaceOK, OpenFifo, OpenSvsem
  <2>4. SemOK(p)'
    BY <1>0, <1>6 DEF open_file, SemOK, Crit, Setting
  <2> QED BY <2>1, <2>2, <2>3, <2>4
<1>7. CASE ftok(p, "ftok_create", "semget_create") \/ ftok(p, "ftok", "semget")
  <2>1. SemStep(p)
    BY <1>7 DEF ftok, SemStep, PlaceOK, OpenSvsem
  <2>2. TypeInv'
    BY <1>0, <1>7, <2>1, SemTyping DEF ftok
  <2>3. Frame(p)
    BY <1>0, <1>7 DEF ftok, Frame
  <2>4. PlaceOK(p)'
    BY <1>0, <1>7 DEF ftok, PlaceOK, OpenFifo, OpenSvsem
  <2>5. SemOK(p)'
    BY <1>7 DEF ftok, SemT, PlaceOK, SemOK, OpenSvsem, Crit, Setting
  <2> QED BY <2>2, <2>3, <2>4, <2>5
<1>8. CASE semget_create(p)
  <2>1. lib = "svsem" /\ sem[p].key \in Keys
    BY <1>8 DEF semget_create, PlaceOK, SemOK, OpenSvsem
  <2>2. CASE bykey[sem[p].key] # None
    <3>1. TypeInv'
      <4> HIDE DEF TypeInv, Goto, names, values, others, counts, hists
      <4>1. /\ Goto(p, "semget_create", IF p \in Excl THEN "failed" ELSE "ftok")
            /\ UNCHANGED <<lib, path, bykey, val, ready, made, twice, gone, sem>>
        BY <1>0, <1>8, <2>2 DEF semget_create, others
      <4>2. pc' = [q \in Procs |-> pc'[q]]
        BY <4>1 DEF TypeInv, Goto
      <4>3. UNCHANGED <<prog, shm, reg, count, writes, local, locks>>
        BY <1>0 DEF others, counts, hists
      <4> QED BY <4>1, <4>2, <4>3 DEF TypeInv
    <3>2. Frame(p)
      BY <1>0, <1>8 DEF semget_create, Frame
    <3>3. PlaceOK(p)'
      BY <1>0, <1>8, <2>1 DEF semget_create, PlaceOK, OpenFifo
    <3>4. SemOK(p)'
      BY <1>8, <2>1, <2>2 DEF semget_create, SemOK, Setting, Crit
    <3> QED BY <3>1, <3>2, <3>3, <3>4
  <2>3. CASE bykey[sem[p].key] = None
    <3>1. PICK s \in Sems \ made :
            /\ Goto(p, "semget_create", "setval")
            /\ bykey' = [bykey EXCEPT ![sem[p].key] = s]
            /\ made' = made \cup {s}
            /\ sem' = [sem EXCEPT ![p].rd = s, ![p].wr = s, ![p].created = TRUE]
      BY <1>0, <1>8, <2>3 DEF semget_create
    <3>2. sem' \in [Procs -> SemT]
      BY <3>1, SemTyping DEF SemStep
    <3>3. TypeInv'
      BY <1>0, <1>8, <3>1, <3>2 DEF semget_create
    <3>4. Frame(p)
      BY <1>0, <1>8 DEF semget_create, Frame
    <3>5. PlaceOK(p)'
      BY <1>0, <2>1, <3>1 DEF PlaceOK, OpenFifo
    <3>6. SemOK(p)'
      BY <3>1 DEF SemOK
    <3> QED BY <3>3, <3>4, <3>5, <3>6
  <2> QED BY <2>2, <2>3
<1>9. CASE setval(p)
  <2>1. TypeInv'
    BY <1>0, <1>9 DEF setval, semvars
  <2>2. Frame(p)
    BY <1>0, <1>9 DEF setval, semvars, Frame
  <2>3. PlaceOK(p)'
    BY <1>0, <1>9 DEF setval, PlaceOK, OpenFifo, OpenSvsem
  <2>4. SemOK(p)'
    BY <1>0, <1>9 DEF setval, semvars, SemOK, Crit, Setting
  <2> QED BY <2>1, <2>2, <2>3, <2>4
<1>10. CASE increment(p)
  <2>1. TypeInv'
    BY <1>0, <1>10 DEF increment, SemOK, Setting
  <2>2. Frame(p)
    BY <1>0, <1>10 DEF increment, Frame
  <2>3. PlaceOK(p)'
    BY <1>0, <1>10 DEF increment, PlaceOK, OpenFifo, OpenSvsem
  <2>4. SemOK(p)'
    BY <1>10 DEF increment, PlaceOK, SemOK, OpenSvsem, Setting
  <2> QED BY <2>1, <2>2, <2>3, <2>4
<1>11. CASE semget(p)
  <2>1. SemStep(p)
    BY <1>11 DEF semget, SemStep, SemOK
  <2>2. TypeInv'
    BY <1>0, <1>11, <2>1, SemTyping DEF semget
  <2>3. Frame(p)
    BY <1>0, <1>11 DEF semget, Frame
  <2>4. PlaceOK(p)'
    BY <1>0, <1>11 DEF semget, PlaceOK, OpenFifo, OpenSvsem
  <2>5. SemOK(p)'
    BY <1>11 DEF semget, SemOK, Crit, Setting
  <2> QED BY <2>2, <2>3, <2>4, <2>5
<1>12. CASE stat(p)
  <2>1. SemStep(p)
    BY <1>12 DEF stat, SemStep
  <2>2. TypeInv'
    BY <1>0, <1>12, <2>1, SemTyping DEF stat
  <2>3. Frame(p)
    BY <1>0, <1>12 DEF stat, Frame
  <2>4. PlaceOK(p)'
    BY <1>0, <1>12 DEF stat, PlaceOK, OpenFifo, OpenSvsem
  <2>5. SemOK(p)'
    BY <1>0, <1>12 DEF stat, SemT, PlaceOK, SemOK, OpenSvsem
  <2> QED BY <2>2, <2>3, <2>4, <2>5
<1>13. CASE rmid(p)
  <2>1. SemStep(p)
    BY <1>13 DEF rmid, SemStep
  <2>2. TypeInv'
    BY <1>0, <1>13, <2>1, SemTyping DEF rmid
  <2>3. Frame(p)
    BY <1>0, <1>13 DEF rmid, Frame
  <2>4. PlaceOK(p)'
    BY <1>0, <1>13 DEF rmid, PlaceOK, OpenFifo, OpenSvsem
  <2>5. SemOK(p)'
    BY <1>13 DEF rmid, Closed, SemOK, Crit, Setting
  <2> QED BY <2>2, <2>3, <2>4, <2>5
<1> QED BY <1>0, <1>1, <1>2, <1>3, <1>4, <1>5, <1>6, <1>7, <1>8, <1>9, <1>10, <1>11,
          <1>12, <1>13 DEF sem_open

\* A step of my_lock does.
LEMMA LockStep ==
  ASSUME TypeInv, NEW p \in Procs, PlaceOK(p), SemOK(p), my_lock(p)
  PROVE  TypeInv' /\ Frame(p) /\ PlaceOK(p)' /\ SemOK(p)'
<1> USE NamedSemAssumption, CounterAssumption
    DEF TypeInv, Goto, names, values, semvars, others, counts, hists
<1>1. CASE lock_none(p)
  <2>1. TypeInv'
    BY <1>1 DEF lock_none, Enter, LockNames
  <2>2. Frame(p)
    BY <1>1 DEF lock_none, Enter, Frame, Regions
  <2>3. PlaceOK(p)'
    BY <1>1 DEF lock_none, Enter, PlaceOK, OpenFifo, OpenSvsem, Begin
  <2>4. SemOK(p)'
    BY <1>1 DEF lock_none, Enter, SemOK, Setting
  <2> QED BY <2>1, <2>2, <2>3, <2>4
<1>2. CASE lock_fcntl(p)
  <2>1. TypeInv'
    BY <1>2 DEF lock_fcntl, Enter, LockNames
  <2>2. Frame(p)
    BY <1>2 DEF lock_fcntl, Enter, Frame, Regions
  <2>3. PlaceOK(p)'
    BY <1>2 DEF lock_fcntl, Enter, PlaceOK, OpenFifo, OpenSvsem, Begin
  <2>4. SemOK(p)'
    BY <1>2 DEF lock_fcntl, Enter, SemOK, Setting
  <2> QED BY <2>1, <2>2, <2>3, <2>4
<1>3. CASE lock_open(p)
  <2>1. TypeInv'
    BY <1>3 DEF lock_open, Enter, LockNames
  <2>2. Frame(p)
    BY <1>3 DEF lock_open, Enter, Frame, Regions
  <2>3. PlaceOK(p)'
    BY <1>3 DEF lock_open, Enter, PlaceOK, OpenFifo, OpenSvsem, Begin
  <2>4. SemOK(p)'
    BY <1>3 DEF lock_open, Enter, SemOK, Setting
  <2> QED BY <2>1, <2>2, <2>3, <2>4
<1>4. CASE svsem_get(p)
  <2>1. TheKey \in Keys /\ prog = "locksvsem" /\ lib = "kernel"
    BY <1>4 DEF TheKey, svsem_get
  <2>2. CASE bykey[TheKey] # None
    <3>1. sem' = [sem EXCEPT ![p].rd = bykey[TheKey], ![p].wr = bykey[TheKey], ![p].tries = 0]
      BY <1>4, <2>1, <2>2 DEF svsem_get
    <3>2. bykey[TheKey] \in made
      BY <2>1, <2>2
    <3>3. sem' \in [Procs -> SemT]
      BY <3>1, <3>2, SemTyping DEF SemStep
    <3>4. TypeInv'
      BY <1>4, <2>1, <2>2, <3>3 DEF svsem_get
    <3>5. Frame(p)
      BY <1>4, <2>2 DEF svsem_get, Frame
    <3>6. PlaceOK(p)'
      BY <1>4, <2>2 DEF svsem_get, PlaceOK, OpenFifo, OpenSvsem, Begin
    <3>7. sem'[p].rd = bykey[TheKey] /\ sem'[p].wr = bykey[TheKey]
      BY <3>1 DEF SemT
    <3>8. SemOK(p)'
      BY <1>4, <2>2, <3>2, <3>7 DEF svsem_get, SemOK
    <3> QED BY <3>4, <3>5, <3>6, <3>8
  <2>3. CASE bykey[TheKey] = None
    <3>1. PICK s \in Sems \ made :
            /\ Goto(p, "lock", "lock_setval")
            /\ bykey' = [bykey EXCEPT ![TheKey] = s]
            /\ made' = made \cup {s}
            /\ sem' = [sem EXCEPT ![p].rd = s, ![p].wr = s, ![p].created = TRUE]
      BY <1>4, <2>3 DEF svsem_get
    <3>2. sem' \in [Procs -> SemT]
      BY <3>1, SemTyping DEF SemStep
    <3>3. bykey' \in [Keys -> made' \cup {None}]
      BY <2>1, <3>1
    <3>4. /\ ready' \subseteq made' /\ made' \subseteq Sems
          /\ path' \in IF lib' = "fifo" THEN made' \cup {None} ELSE Keys \cup {None}
      BY <1>4, <3>1 DEF svsem_get
    <3>5. UNCHANGED <<prog, lib, val, shm, reg, count, writes, local, locks>>
      BY <1>4 DEF svsem_get
    <3>6. pc' = [q \in Procs |-> pc'[q]]
      BY <3>1
    <3>7. TypeInv'
      BY <3>2, <3>3, <3>4, <3>5, <3>6
    <3>8. Frame(p)
      BY <1>4, <2>1, <3>1 DEF svsem_get, Frame
    <3>9. PlaceOK(p)'
      BY <1>4, <3>1 DEF svsem_get, PlaceOK, OpenFifo, OpenSvsem, Begin
    <3>10. sem'[p].rd = s /\ sem'[p].wr = s
      BY <3>1 DEF SemT
    <3>11. SemOK(p)'
      BY <3>1, <3>10 DEF SemOK
    <3> QED BY <3>7, <3>8, <3>9, <3>11
  <2> QED BY <2>2, <2>3
<1>5. CASE svsem_setval(p)
  <2>1. {sem[p].rd, sem[p].wr} \subseteq made
    BY <1>5 DEF svsem_setval, PlaceOK, SemOK, Setting
  <2>2. TypeInv'
    BY <1>5 DEF svsem_setval
  <2>3. Frame(p)
    BY <1>5, <2>1 DEF svsem_setval, Frame, Regions
  <2>4. PlaceOK(p)'
    BY <1>5 DEF svsem_setval, PlaceOK, OpenFifo, OpenSvsem, Begin
  <2>5. SemOK(p)'
    BY <1>5, <2>1 DEF svsem_setval, SemOK
  <2> QED BY <2>2, <2>3, <2>4, <2>5
<1>6. CASE svsem_stat(p)
  <2>1. SemStep(p)
    BY <1>6 DEF svsem_stat, SemStep, PlaceOK, SemOK
  <2>2. TypeInv'
    BY <1>6, <2>1, SemTyping DEF svsem_stat, LockNames
  <2>3. Frame(p)
    BY <1>6 DEF svsem_stat, Frame, Regions
  <2>4. PlaceOK(p)'
    BY <1>6 DEF svsem_stat, PlaceOK, OpenFifo, OpenSvsem, Begin
  <2>5. SemOK(p)'
    BY <1>6 DEF svsem_stat, SemT, PlaceOK, SemOK, WithSem
  <2> QED BY <2>2, <2>3, <2>4, <2>5
<1>7. CASE svsem_down(p)
  <2>1. {sem[p].rd, sem[p].wr} \subseteq made
    BY <1>7 DEF svsem_down, SemOK, WithSem
  <2>2. /\ {sem[p].rd, sem[p].wr} \subseteq made
        /\ val' \in [Sems -> Nat] /\ ready' \subseteq made'
    BY <1>7, <2>1 DEF svsem_down, Enter
  <2>3. TypeInv'
    BY <1>7, <2>2 DEF svsem_down, Enter, LockNames
  <2>4. Frame(p)
    BY <1>7 DEF svsem_down, Enter, Frame
  <2>5. PlaceOK(p)'
    BY <1>7 DEF svsem_down, Enter, PlaceOK, OpenFifo, OpenSvsem, Begin
  <2>6. SemOK(p)'
    BY <1>7, <2>2 DEF svsem_down, Enter, SemOK
  <2> QED BY <2>3, <2>4, <2>5, <2>6
<1> QED BY <1>1, <1>2, <1>3, <1>4, <1>5, <1>6, <1>7 DEF my_lock

\* A step of the increment, of sem_wait or of giving back the lock does.
LEMMA IncrementStep ==
  ASSUME TypeInv, NEW p \in Procs, PlaceOK(p), SemOK(p),
         wait_mutex(p) \/ read_seqno(p) \/ write_seqno(p) \/ my_unlock(p) \/ post_mutex(p)
  PROVE  TypeInv' /\ Frame(p) /\ PlaceOK(p)' /\ SemOK(p)'
<1> USE NamedSemAssumption, CounterAssumption
    DEF TypeInv, Goto, names, values, semvars, others, counts, hists
<1>1. CASE wait_mutex(p)
  <2>1. {sem[p].rd, sem[p].wr} \subseteq made
    BY <1>1 DEF wait_mutex, SemOK, WithSem, Incr
  <2>2. TypeInv'
    BY <1>1, <2>1 DEF wait_mutex, sem_wait, sem_wait_fails, Enter, LockNames
  <2>3. Frame(p)
    BY <1>1 DEF wait_mutex, sem_wait, sem_wait_fails, Enter, Frame
  <2>4. PlaceOK(p)'
    BY <1>1 DEF wait_mutex, Enter, PlaceOK, OpenFifo, OpenSvsem, Begin
  <2>5. SemOK(p)'
    BY <1>1, <2>1 DEF wait_mutex, sem_wait, sem_wait_fails, Enter, SemOK
  <2> QED BY <2>2, <2>3, <2>4, <2>5
<1>2. CASE read_seqno(p)
  <2>1. TypeInv'
    BY <1>2 DEF read_seqno
  <2>2. Frame(p)
    BY <1>2 DEF read_seqno, Frame, Regions
  <2>3. PlaceOK(p)'
    BY <1>2 DEF read_seqno, PlaceOK, OpenFifo, OpenSvsem, Begin
  <2>4. SemOK(p)'
    BY <1>2 DEF read_seqno, SemOK, Crit, Setting
  <2> QED BY <2>1, <2>2, <2>3, <2>4
<1>3. CASE write_seqno(p)
  <2>1. reg[p] \in Regions /\ local[p] + 1 \in Int /\ writes[reg[p]] + 1 \in Int
    OBVIOUS
  <2>2. TypeInv'
    BY <1>3, <2>1 DEF write_seqno
  <2>3. Frame(p)
    BY <1>3, <2>1 DEF write_seqno, Frame, Regions
  <2>4. PlaceOK(p)'
    BY <1>3 DEF write_seqno, PlaceOK, OpenFifo, OpenSvsem, Begin
  <2>5. SemOK(p)'
    BY <1>3 DEF write_seqno, SemOK, Crit, Setting
  <2> QED BY <2>2, <2>3, <2>4, <2>5
<1>4. CASE unlock_file(p)
  <2>1. TypeInv'
    <3>1. pc' = [q \in Procs |-> pc'[q]]
      BY <1>4 DEF unlock_file, Again
    <3>2. UNCHANGED <<prog, lib, path, bykey, val, ready, made, sem>>
      BY <1>4 DEF unlock_file, Again
    <3>3. UNCHANGED <<shm, reg, count, writes, local, locks>>
      BY <1>4 DEF unlock_file, Again
    <3> QED BY <3>1, <3>2, <3>3
  <2>2. Frame(p)
    BY <1>4 DEF unlock_file, Again, Frame, Regions
  <2>3. PlaceOK(p)'
    BY <1>4 DEF unlock_file, Again, PlaceOK, OpenFifo, OpenSvsem, Begin
  <2>4. SemOK(p)'
    BY <1>4 DEF unlock_file, Again, SemOK, Setting, WithSem
  <2> QED BY <2>1, <2>2, <2>3, <2>4
<1>5. CASE unlock_svsem(p)
  <2>1. {sem[p].rd, sem[p].wr} \subseteq made
    BY <1>5 DEF unlock_svsem, SemOK, Crit, WithSem
  <2>2. /\ {sem[p].rd, sem[p].wr} \subseteq made
        /\ val' \in [Sems -> Nat] /\ ready' \subseteq made'
    BY <1>5, <2>1 DEF unlock_svsem, Again
  <2>3. UNCHANGED <<prog, lib, path, bykey, made, sem, shm, reg, count, writes, local, locks>>
    BY <1>5 DEF unlock_svsem, Again
  <2>4. TypeInv'
    <3>1. pc' = [q \in Procs |-> pc'[q]]
      BY <1>5 DEF unlock_svsem, Again
    <3> QED BY <2>2, <2>3, <3>1
  <2>5. Frame(p)
    BY <1>5 DEF unlock_svsem, Again, Frame
  <2>6. PlaceOK(p)'
    BY <1>5 DEF unlock_svsem, Again, PlaceOK, OpenFifo, OpenSvsem, Begin
  <2>7. SemOK(p)'
    BY <1>5, <2>2 DEF unlock_svsem, Again, SemOK
  <2> QED BY <2>4, <2>5, <2>6, <2>7
<1>6. CASE post_mutex(p)
  <2>1. {sem[p].rd, sem[p].wr} \subseteq made
    BY <1>6 DEF post_mutex, SemOK, Crit, WithSem, Incr
  <2>2. /\ {sem[p].rd, sem[p].wr} \subseteq made
        /\ val' \in [Sems -> Nat] /\ ready' \subseteq made'
    BY <1>6, <2>1 DEF post_mutex, sem_post
  <2>3. UNCHANGED <<prog, lib, path, bykey, made, sem, shm, reg, count, writes, local, locks>>
    BY <1>6 DEF post_mutex, sem_post, Again
  <2>4. TypeInv'
    <3>1. pc' = [q \in Procs |-> pc'[q]]
      BY <1>6 DEF post_mutex, Again
    <3> QED BY <2>2, <2>3, <3>1
  <2>5. Frame(p)
    BY <1>6 DEF post_mutex, sem_post, Again, Frame
  <2>6. PlaceOK(p)'
    BY <1>6 DEF post_mutex, Again, PlaceOK, OpenFifo, OpenSvsem, Begin
  <2>7. SemOK(p)'
    BY <1>6, <2>2 DEF post_mutex, sem_post, Again, SemOK
  <2> QED BY <2>4, <2>5, <2>6, <2>7
<1> QED BY <1>1, <1>2, <1>3, <1>4, <1>5, <1>6 DEF my_unlock

\* The other steps of a program do.
LEMMA EndStep ==
  ASSUME TypeInv, NEW p \in Procs, PlaceOK(p), SemOK(p),
         \/ server_shm_unlink(p) \/ server_shm_open(p) \/ server_sem_unlink(p)
         \/ client_attach(p) \/ client_opened(p) \/ end(p)
  PROVE  TypeInv' /\ Frame(p) /\ PlaceOK(p)' /\ SemOK(p)'
<1> USE NamedSemAssumption, CounterAssumption
    DEF TypeInv, Goto, names, values, semvars, others, counts, hists
<1>1. CASE server_shm_unlink(p)
  <2>1. TypeInv'
    BY <1>1 DEF server_shm_unlink
  <2>2. Frame(p)
    BY <1>1 DEF server_shm_unlink, Frame, Regions
  <2>3. PlaceOK(p)'
    BY <1>1 DEF server_shm_unlink, PlaceOK, OpenFifo, OpenSvsem, Begin
  <2>4. SemOK(p)'
    BY <1>1 DEF server_shm_unlink, SemOK, Crit, Setting
  <2> QED BY <2>1, <2>2, <2>3, <2>4
<1>2. CASE server_shm_open(p)
  <2>1. TypeInv'
    BY <1>2 DEF server_shm_open
  <2>2. Frame(p)
    BY <1>2 DEF server_shm_open, Frame, Regions
  <2>3. PlaceOK(p)'
    BY <1>2 DEF server_shm_open, PlaceOK, OpenFifo, OpenSvsem, Begin
  <2>4. SemOK(p)'
    BY <1>2 DEF server_shm_open, SemOK, Crit, Setting
  <2> QED BY <2>1, <2>2, <2>3, <2>4
<1>3. CASE server_sem_unlink(p)
  <2>1. TypeInv'
    BY <1>3 DEF server_sem_unlink, sem_unlink
  <2>2. Frame(p)
    BY <1>3 DEF server_sem_unlink, sem_unlink, Frame
  <2>3. PlaceOK(p)'
    BY <1>3 DEF server_sem_unlink, OpenFrom, PlaceOK, OpenFifo, OpenSvsem, Begin
  <2>4. SemOK(p)'
    BY <1>3 DEF server_sem_unlink, sem_unlink, OpenFrom, SemOK, Crit, Setting
  <2> QED BY <2>1, <2>2, <2>3, <2>4
<1>4. CASE client_attach(p)
  <2>1. TypeInv'
    BY <1>4 DEF client_attach, Regions
  <2>2. Frame(p)
    BY <1>4 DEF client_attach, OpenFrom, Frame, Regions
  <2>3. PlaceOK(p)'
    BY <1>4 DEF client_attach, OpenFrom, PlaceOK, OpenFifo, OpenSvsem, Begin
  <2>4. SemOK(p)'
    BY <1>4 DEF client_attach, OpenFrom, SemOK, Crit, Setting
  <2> QED BY <2>1, <2>2, <2>3, <2>4
<1>5. CASE client_opened(p)
  <2>1. TypeInv'
    BY <1>5 DEF client_opened
  <2>2. Frame(p)
    BY <1>5 DEF client_opened, Frame, Regions
  <2>3. PlaceOK(p)'
    BY <1>5 DEF client_opened, PlaceOK, OpenFifo, OpenSvsem, Begin
  <2>4. SemOK(p)'
    BY <1>5 DEF client_opened, SemOK
  <2> QED BY <2>1, <2>2, <2>3, <2>4
<1>6. CASE end(p)
  <2>1. SemStep(p)
    BY <1>6 DEF end, sem_close, Release, Discard, SemStep
  <2>2. TypeInv'
    BY <1>6, <2>1, SemTyping DEF end, sem_close, Release
  <2>3. Frame(p)
    BY <1>6 DEF end, sem_close, Release, Discard, Frame
  <2>4. PlaceOK(p)'
    BY <1>6 DEF end, PlaceOK, OpenFifo, OpenSvsem, Begin
  <2>5. SemOK(p)'
    BY <1>6 DEF end, sem_close, Release, Discard, Closed, SemOK, Crit, Setting
  <2> QED BY <2>2, <2>3, <2>4, <2>5
<1> QED BY <1>1, <1>2, <1>3, <1>4, <1>5, <1>6 DEF TypeInv

\* What a process's death gives back.
LEMMA Returned ==
  ASSUME NEW p \in Procs, NEW s \in Sems
  PROVE  Cardinality({s} \cap Undone(p)) = IF s \in Undone(p) THEN 1 ELSE 0
<1>1. CASE s \in Undone(p)
  <2>1. {s} \cap Undone(p) = {s}
    BY <1>1
  <2> QED BY <1>1, <2>1, FS_Singleton
<1>2. CASE s \notin Undone(p)
  <2>1. {s} \cap Undone(p) = {}
    BY <1>2
  <2> QED BY <1>2, <2>1, FS_EmptySet
<1> QED BY <1>1, <1>2

\* The death of a process keeps them.
LEMMA DieStep ==
  ASSUME TypeInv, NEW p \in Procs, Die(p, pc[p])
  PROVE  TypeInv' /\ Frame(p) /\ PlaceOK(p)' /\ SemOK(p)'
<1> USE NamedSemAssumption, CounterAssumption
    DEF TypeInv, Goto, names, values, semvars, others, counts, hists, Die, Discard
<1>1. SemStep(p)
  BY DEF SemStep
<1>2. sem' \in [Procs -> SemT]
  BY <1>1, SemTyping
<1>3. val' \in [Sems -> Nat]
  BY Returned
<1>4. TypeInv'
  <2>1. UNCHANGED <<prog, lib, path, bykey, ready, made, shm, reg, count, writes, local, locks>>
    OBVIOUS
  <2>2. pc' = [q \in Procs |-> pc'[q]]
    OBVIOUS
  <2> QED BY <1>2, <1>3, <2>1, <2>2
<1>5. Frame(p)
  BY DEF Frame
<1>6. PlaceOK(p)'
  BY DEF PlaceOK, OpenFifo, OpenSvsem, Begin
<1>7. SemOK(p)'
  BY DEF SemOK, SemT, Closed, Setting, Crit
<1> QED BY <1>4, <1>5, <1>6, <1>7

\* A crash, or a signal, is the death of the process where it stands.
LEMMA Moves ==
  ASSUME NEW p \in Procs, Move(p)
  PROVE  \/ my_lock(p)
         \/ wait_mutex(p) \/ read_seqno(p) \/ write_seqno(p) \/ my_unlock(p) \/ post_mutex(p)
         \/ \/ server_shm_unlink(p) \/ server_shm_open(p) \/ server_sem_unlink(p)
            \/ client_attach(p) \/ client_opened(p) \/ end(p)
         \/ open_semaphore(p)
         \/ Die(p, pc[p])
<1>1. ASSUME NEW a, Die(p, a) PROVE Die(p, pc[p])
  BY <1>1 DEF Die, Goto
<1>2. crash(p) \/ kill(p) => Die(p, pc[p])
  BY <1>1 DEF crash, kill
<1> QED BY <1>2 DEF Move, Step

\* A move of p keeps the types and p's own part of the invariant, and leaves
\* the other processes theirs.
LEMMA MoveStep ==
  ASSUME TypeInv, NEW p \in Procs, PlaceOK(p), SemOK(p), Move(p)
  PROVE  TypeInv' /\ Frame(p) /\ PlaceOK(p)' /\ SemOK(p)'
  BY Moves, OpenStep, LockStep, IncrementStep, EndStep, DieStep

\* The other processes keep theirs.
LEMMA OthersKept ==
  ASSUME TypeInv, TypeInv', NEW p \in Procs, Frame(p), NEW q \in Procs \ {p}, PlaceOK(q), SemOK(q)
  PROVE  PlaceOK(q)' /\ SemOK(q)'
<1>1. PlaceOK(q)'
  BY DEF PlaceOK, Frame
<1>2. SemOK(q)'
  BY DEF SemOK, Frame
<1> QED BY <1>1, <1>2

\* Cardinality is about finite sets only.
LEMMA LocksFinite ==
  ASSUME NEW S \in SUBSET LockNames
  PROVE  IsFiniteSet(S)
<1>1. IsFiniteSet(Sems \cup {Unlocked})
  BY NamedSemAssumption, FS_AddElement
<1>2. IsFiniteSet((Sems \cup {Unlocked}) \cup {TheFile})
  BY <1>1, FS_AddElement
<1>3. LockNames = (Sems \cup {Unlocked}) \cup {TheFile}
  BY DEF LockNames
<1> QED BY <1>2, <1>3, FS_Subset

\* One lock is one name.
LEMMA OneLockName ==
  ASSUME TypeInv, NEW r \in Regions, OneLock(r), NEW a \in locks[r], NEW b \in locks[r]
  PROVE  a = b
<1>1. IsFiniteSet(locks[r])
  BY LocksFinite DEF TypeInv
<1>2. SUFFICES ASSUME a # b PROVE FALSE
  OBVIOUS
<1>3. Cardinality({a, b}) = 2
  <2>1. Cardinality({a}) = 1 /\ IsFiniteSet({a})
    BY FS_Singleton
  <2>2. {a, b} = {a} \cup {b}
    OBVIOUS
  <2>3. Cardinality({a} \cup {b}) = Cardinality({a}) + 1
    BY <1>2, <2>1, FS_AddElement
  <2> QED BY <2>1, <2>2, <2>3
<1>4. Cardinality({a, b}) <= Cardinality(locks[r]) /\ Cardinality(locks[r]) \in Nat
  BY <1>1, FS_Subset, FS_CardinalityType
<1> QED BY <1>3, <1>4 DEF OneLock

\* What came with several locks stays so.
LEMMA OneLockBefore ==
  ASSUME TypeInv, TypeInv', NEW p \in Procs, Frame(p), NEW r \in Regions, OneLock(r)'
  PROVE  OneLock(r)
<1>1. locks' \in [Regions -> SUBSET LockNames]
  BY DEF TypeInv, LockNames
<1>2. IsFiniteSet(locks'[r])
  BY <1>1, LocksFinite
<1>3. /\ locks[r] \subseteq locks'[r] /\ twice \subseteq twice'
      /\ Unlocked \notin locks'[r] /\ Cardinality(locks'[r]) <= 1 /\ locks'[r] \cap twice' = {}
  BY DEF OneLock, Frame
<1>4. /\ Cardinality(locks[r]) <= Cardinality(locks'[r])
      /\ Cardinality(locks[r]) \in Nat /\ Cardinality(locks'[r]) \in Nat
  BY <1>2, <1>3, FS_Subset, FS_CardinalityType
<1> QED BY <1>3, <1>4 DEF OneLock

\* Processes are in the critical region of one number, all with the same
\* lock, only one at a time.
LEMMA Exclusion ==
  ASSUME TypeInv, NEW p \in Procs, NEW q \in Procs,
         LockOK(p), LockOK(q), SemOK(p), SemOK(q), \A s \in Sems \ twice : TokenOK(s),
         pc[p] \in Crit, pc[q] \in Crit, reg[p] = reg[q], OneLock(reg[p])
  PROVE  p = q
<1>0. reg[p] \in Regions
  BY DEF TypeInv
<1>1. Unlocked \notin locks[reg[p]] /\ LockOf(p) \in locks[reg[p]] /\ LockOf(q) \in locks[reg[p]]
  BY DEF OneLock, LockOK
<1>2. LockOf(p) = LockOf(q)
  BY <1>0, <1>1, OneLockName
<1>3. CASE prog \in {"lockfcntl", "lockopen"}
  BY <1>3 DEF LockOK
<1>4. CASE prog = "locknone"
  BY <1>1, <1>4 DEF LockOf
<1>5. CASE prog \in WithSem
  <2> DEFINE s == sem[p].rd
  <2>1. s = sem[q].rd /\ s \in locks[reg[p]]
    BY <1>1, <1>2, <1>5 DEF LockOf, WithSem
  <2>2. s \in Sems \ twice
    BY <1>5, <2>1 DEF TypeInv, SemOK, OneLock, Crit
  <2>3. Holds(p, s) /\ Holds(q, s)
    BY <1>1, <1>5, <2>1 DEF Holds, LockOK
  <2> QED BY <2>2, <2>3 DEF TokenOK
<1> QED BY <1>3, <1>4, <1>5 DEF TypeInv, Programs, WithSem

-----------------------------------------------------------------------------
(* Locks.                                                                  *)

\* Who is in its critical region after a step of its own.
LEMMA IntoCrit ==
  ASSUME TypeInv, NEW p \in Procs, Move(p), pc'[p] \in Crit
  PROVE  \/ lock_none(p) \/ lock_fcntl(p) \/ lock_open(p) \/ svsem_stat(p) \/ svsem_down(p)
         \/ wait_mutex(p) \/ read_seqno(p) \/ write_seqno(p)
<1> USE DEF TypeInv, Goto, Crit
<1>1. ~svsem_get(p) /\ ~svsem_setval(p)
  BY DEF svsem_get, svsem_setval
<1>2. ~unlock_file(p) /\ ~unlock_svsem(p) /\ ~post_mutex(p)
  BY DEF unlock_file, unlock_svsem, post_mutex, Again
<1>3. ~server_shm_unlink(p) /\ ~server_shm_open(p) /\ ~server_sem_unlink(p)
  BY DEF server_shm_unlink, server_shm_open, server_sem_unlink, OpenFrom
<1>4. ~client_attach(p) /\ ~client_opened(p) /\ ~end(p)
  BY DEF client_attach, client_opened, end, OpenFrom
<1>5. ~mkfifo(p) /\ ~open_rd(p) /\ ~open_wr(p) /\ ~write_value(p) /\ ~fifo_error(p)
  BY DEF mkfifo, open_rd, open_wr, write_value, fifo_error
<1>6. ~open_file(p) /\ ~ftok(p, "ftok_create", "semget_create") /\ ~semget_create(p)
  BY DEF open_file, ftok, semget_create
<1>7. ~setval(p) /\ ~increment(p)
  BY DEF setval, increment
<1>8. ~ftok(p, "ftok", "semget") /\ ~semget(p) /\ ~stat(p) /\ ~rmid(p)
  BY DEF ftok, semget, stat, rmid
<1>9. ~open_semaphore(p)
  BY <1>5, <1>6, <1>7, <1>8 DEF open_semaphore, sem_open
<1>10. ~Die(p, pc[p])
  BY DEF Die
<1> QED BY <1>1, <1>2, <1>3, <1>4, <1>9, <1>10, Moves DEF my_lock, my_unlock

\* Whoever comes into its critical region comes with a lock, or none, that is
\* noted among those of its number.
LEMMA OwnLock ==
  ASSUME TypeInv, NEW p \in Procs, LockOK(p), PlaceOK(p), Move(p)
  PROVE  LockOK(p)'
<1> SUFFICES ASSUME pc'[p] \in Crit PROVE LockOK(p)'
  BY DEF LockOK
<1> USE DEF TypeInv, LockOK, LockOf, Goto, Crit, WithSem
<1>1. CASE lock_none(p) \/ lock_fcntl(p) \/ lock_open(p)
  BY <1>1 DEF lock_none, lock_fcntl, lock_open, Enter, counts
<1>2. CASE svsem_stat(p)
  BY <1>2 DEF svsem_stat, PlaceOK, counts
<1>3. CASE svsem_down(p)
  BY <1>3 DEF svsem_down, Enter, counts, names
<1>4. CASE wait_mutex(p)
  BY <1>4 DEF wait_mutex, sem_wait, Incr, Enter, counts
<1>5. CASE read_seqno(p)
  BY <1>5 DEF read_seqno, semvars, hists
<1>6. CASE write_seqno(p)
  BY <1>6 DEF write_seqno, semvars, hists
<1> QED BY <1>1, <1>2, <1>3, <1>4, <1>5, <1>6, IntoCrit

\* A record lock or lock file stays with whoever is in the critical region.
LEMMA FileKept ==
  ASSUME TypeInv, NEW p \in Procs, LockOK(p), Move(p), NEW q \in Procs \ {p},
         prog \in {"lockfcntl", "lockopen"}, lockfile = q
  PROVE  lockfile' = q
<1> USE CounterAssumption DEF TypeInv
<1>1. CASE my_lock(p)
  BY <1>1 DEF my_lock, lock_none, lock_fcntl, lock_open, svsem_get, svsem_setval,
    svsem_stat, svsem_down
<1>2. CASE wait_mutex(p) \/ read_seqno(p) \/ write_seqno(p) \/ post_mutex(p)
  BY <1>2 DEF wait_mutex, read_seqno, write_seqno, post_mutex
<1>3. CASE my_unlock(p)
  BY <1>3 DEF my_unlock, unlock_file, unlock_svsem, Again, Goto, LockOK, Crit
<1>4. CASE \/ server_shm_unlink(p) \/ server_shm_open(p) \/ server_sem_unlink(p)
           \/ client_attach(p) \/ client_opened(p) \/ end(p) \/ open_semaphore(p)
  BY <1>4 DEF server_shm_unlink, server_shm_open, server_sem_unlink, client_attach,
    client_opened, end, open_semaphore, others
<1>5. CASE Die(p, pc[p])
  BY <1>5 DEF Die
<1> QED BY <1>1, <1>2, <1>3, <1>4, <1>5, Moves

\* The others keep their locks.
LEMMA OthersLock ==
  ASSUME TypeInv, NEW p \in Procs, LockOK(p), Move(p), Frame(p), NEW q \in Procs \ {p}, LockOK(q)
  PROVE  LockOK(q)'
<1>1. reg[q] \in Regions /\ reg'[q] = reg[q]
  BY DEF TypeInv, Frame
<1>2. LockOf(q)' = LockOf(q) /\ locks[reg[q]] \subseteq locks'[reg[q]]
  BY <1>1 DEF LockOf, Frame
<1>3. pc'[q] = pc[q] /\ prog' = prog /\ (q \in initflag' <=> q \in initflag)
  BY DEF Frame
<1>4. prog \in {"lockfcntl", "lockopen"} /\ lockfile = q => lockfile' = q
  BY FileKept
<1> QED BY <1>1, <1>2, <1>3, <1>4 DEF LockOK

\* Only write_seqno changes a number.
LEMMA CountsKept ==
  ASSUME NEW p \in Procs, Move(p)
  PROVE  write_seqno(p) \/ UNCHANGED <<count, writes>>
<1> USE DEF counts
<1>1. CASE my_lock(p)
  BY <1>1 DEF my_lock, lock_none, lock_fcntl, lock_open, svsem_get, svsem_setval,
    svsem_stat, svsem_down, Enter
<1>2. CASE wait_mutex(p) \/ read_seqno(p) \/ post_mutex(p)
  BY <1>2 DEF wait_mutex, Enter, read_seqno, post_mutex, Again
<1>3. CASE my_unlock(p)
  BY <1>3 DEF my_unlock, unlock_file, unlock_svsem, Again
<1>4. CASE \/ server_shm_unlink(p) \/ server_shm_open(p) \/ server_sem_unlink(p)
           \/ client_attach(p) \/ client_opened(p) \/ end(p) \/ open_semaphore(p)
  BY <1>4 DEF server_shm_unlink, server_shm_open, server_sem_unlink, client_attach,
    client_opened, end, open_semaphore, others
<1>5. CASE Die(p, pc[p])
  BY <1>5 DEF Die
<1> QED BY <1>1, <1>2, <1>3, <1>4, <1>5, Moves

\* What a process has read is current until it writes, if all that touch the
\* number have one lock; so it writes one more than there is.
LEMMA CountStep ==
  ASSUME TypeInv, TypeInv', \A q \in Procs : LockOK(q) /\ SemOK(q) /\ LocalOK(q),
         \A s \in Sems \ twice : TokenOK(s), NoUpdateLost,
         NEW p \in Procs, Move(p), Frame(p)
  PROVE  NoUpdateLost' /\ \A q \in Procs : LocalOK(q)'
<1>1. ASSUME NEW r \in Regions, OneLock(r)' PROVE OneLock(r)
  BY <1>1, OneLockBefore
<1>2. CASE write_seqno(p)
  <2>1. /\ pc[p] = "write" /\ pc' = [pc EXCEPT ![p] = "unlock"]
        /\ count' = [count EXCEPT ![reg[p]] = local[p] + 1]
        /\ writes' = [writes EXCEPT ![reg[p]] = @ + 1]
        /\ UNCHANGED <<reg, local, locks, twice>>
    BY <1>2 DEF write_seqno, Goto, semvars, values, hists
  <2>2. NoUpdateLost'
    <3> SUFFICES ASSUME NEW r \in Regions \ {None}, OneLock(r)'
                 PROVE  count'[r] = writes'[r]
      BY DEF NoUpdateLost
    <3>1. OneLock(r) /\ count[r] = writes[r]
      BY <1>1 DEF NoUpdateLost
    <3>2. CASE r = reg[p]
      <4>1. local[p] = count[r]
        BY <2>1, <3>1, <3>2 DEF LocalOK
      <4> QED BY <2>1, <3>1, <4>1 DEF TypeInv
    <3>3. CASE r # reg[p]
      BY <2>1, <3>1, <3>3 DEF TypeInv
    <3> QED BY <3>2, <3>3
  <2>3. ASSUME NEW q \in Procs PROVE LocalOK(q)'
    <3> SUFFICES ASSUME pc'[q] = "write", OneLock(reg[q])'
                 PROVE  local'[q] = count'[reg'[q]]
      BY DEF LocalOK
    <3>1. q # p /\ pc[q] = "write" /\ reg'[q] = reg[q] /\ reg[q] \in Regions
      BY <2>1 DEF TypeInv
    <3>2. OneLock(reg[q])
      BY <2>1 DEF OneLock
    <3>3. reg[q] # reg[p]
      BY <2>1, <3>1, <3>2, Exclusion DEF Crit
    <3>4. local[q] = count[reg[q]]
      BY <3>1, <3>2 DEF LocalOK
    <3> QED BY <2>1, <3>1, <3>3, <3>4 DEF TypeInv
  <2> QED BY <2>2, <2>3
<1>3. CASE UNCHANGED <<count, writes>>
  <2>1. NoUpdateLost'
    BY <1>1, <1>3 DEF NoUpdateLost
  <2>2. ASSUME NEW q \in Procs PROVE LocalOK(q)'
    <3> SUFFICES ASSUME pc'[q] = "write", OneLock(reg[q])'
                 PROVE  local'[q] = count'[reg'[q]]
      BY DEF LocalOK
    <3>1. CASE q # p
      <4>1. pc[q] = "write" /\ reg'[q] = reg[q] /\ local'[q] = local[q] /\ reg[q] \in Regions
        BY <3>1 DEF Frame, TypeInv
      <4>2. PICK r \in Regions : r = reg'[q]
        BY <4>1
      <4>3. OneLock(r)'
        BY <4>2 DEF OneLock
      <4>4. OneLock(reg[q])
        BY <1>1, <4>1, <4>2, <4>3
      <4> QED BY <1>3, <4>1, <4>4 DEF LocalOK
    <3>2. CASE q = p
      <4>1. read_seqno(p)
        <5>1. pc'[p] \in Crit
          BY <3>2 DEF Crit
        <5> QED BY <3>2, <5>1, IntoCrit DEF TypeInv, Goto, lock_none, lock_fcntl,
                  lock_open, svsem_stat, svsem_down, wait_mutex, write_seqno, Enter
      <4> QED BY <3>2, <4>1 DEF read_seqno, TypeInv
    <3> QED BY <3>1, <3>2
  <2> QED BY <2>1, <2>2
<1> QED BY <1>2, <1>3, CountsKept

-----------------------------------------------------------------------------
(* The values of the semaphores.                                           *)

\* Where a step of p has it give a semaphore its value, p was doing so
\* already, or has just made it.
LEMMA IntoSetting ==
  ASSUME TypeInv, NEW p \in Procs, Move(p), pc'[p] \in Setting
  PROVE  \/ /\ pc[p] = "setval" /\ pc'[p] = "increment"
            /\ UNCHANGED <<sem, ready, made>>
         \/ pc'[p] # "increment" /\ sem'[p].rd \notin made /\ UNCHANGED ready
<1> USE DEF TypeInv, Goto, Setting
<1>1. ~lock_none(p) /\ ~lock_fcntl(p) /\ ~lock_open(p) /\ ~svsem_down(p)
  BY DEF lock_none, lock_fcntl, lock_open, svsem_down, Enter
<1>2. ~svsem_setval(p) /\ ~svsem_stat(p)
  BY DEF svsem_setval, svsem_stat
<1>3. ~wait_mutex(p) /\ ~read_seqno(p) /\ ~write_seqno(p)
  BY DEF wait_mutex, read_seqno, write_seqno, Enter
<1>4. ~unlock_file(p) /\ ~unlock_svsem(p) /\ ~post_mutex(p)
  BY DEF unlock_file, unlock_svsem, post_mutex, Again
<1>5. ~server_shm_unlink(p) /\ ~server_shm_open(p) /\ ~server_sem_unlink(p)
  BY DEF server_shm_unlink, server_shm_open, server_sem_unlink, OpenFrom
<1>6. ~client_attach(p) /\ ~client_opened(p) /\ ~end(p)
  BY DEF client_attach, client_opened, end, OpenFrom
<1>7. ~mkfifo(p) /\ ~open_rd(p) /\ ~open_wr(p) /\ ~write_value(p) /\ ~fifo_error(p)
  BY DEF mkfifo, open_rd, open_wr, write_value, fifo_error
<1>8. ~open_file(p) /\ ~ftok(p, "ftok_create", "semget_create") /\ ~increment(p)
  BY DEF open_file, ftok, increment
<1>9. ~ftok(p, "ftok", "semget") /\ ~semget(p) /\ ~stat(p) /\ ~rmid(p)
  BY DEF ftok, semget, stat, rmid
<1>10. ~Die(p, pc[p])
  BY DEF Die
<1>11. svsem_get(p) \/ setval(p) \/ semget_create(p)
  BY <1>1, <1>2, <1>3, <1>4, <1>5, <1>6, <1>7, <1>8, <1>9, <1>10, Moves DEF my_lock,
    my_unlock, open_semaphore, sem_open
<1>12. CASE setval(p)
  BY <1>12 DEF setval, semvars, values
<1>13. CASE svsem_get(p)
  <2>1. bykey[TheKey] = None
    BY <1>13 DEF svsem_get
  <2>2. PICK s \in Sems \ made :
          /\ pc' = [pc EXCEPT ![p] = "lock_setval"]
          /\ sem' = [sem EXCEPT ![p].rd = s, ![p].wr = s, ![p].created = TRUE]
    BY <1>13, <2>1 DEF svsem_get
  <2>3. sem'[p].rd = s
    BY <2>2 DEF SemT
  <2> QED BY <1>13, <2>2, <2>3 DEF svsem_get
<1>14. CASE semget_create(p)
  <2>1. bykey[sem[p].key] = None
    BY <1>14 DEF semget_create
  <2>2. PICK s \in Sems \ made :
          /\ pc' = [pc EXCEPT ![p] = "setval"]
          /\ sem' = [sem EXCEPT ![p].rd = s, ![p].wr = s, ![p].created = TRUE]
    BY <1>14, <2>1 DEF semget_create
  <2>3. sem'[p].rd = s
    BY <2>2 DEF SemT
  <2> QED BY <1>14, <2>2, <2>3 DEF semget_create
<1> QED BY <1>11, <1>12, <1>13, <1>14

\* Under my_pxsem_svsem only the creator's semop makes a set ready.
LEMMA ReadyStep ==
  ASSUME TypeInv, NEW p \in Procs, PlaceOK(p), Move(p), lib = "svsem"
  PROVE  \/ UNCHANGED ready
         \/ pc[p] = "increment" /\ ready' = ready \cup {sem[p].rd}
<1> USE DEF TypeInv, names, values, semvars
<1>1. CASE my_lock(p)
  BY <1>1 DEF my_lock, lock_none, lock_fcntl, lock_open, svsem_get, svsem_setval,
    svsem_stat, svsem_down
<1>2. CASE wait_mutex(p) \/ read_seqno(p) \/ write_seqno(p)
  BY <1>2 DEF wait_mutex, sem_wait, sem_wait_fails, read_seqno, write_seqno
<1>3. CASE my_unlock(p) \/ post_mutex(p)
  BY <1>3 DEF my_unlock, unlock_file, unlock_svsem, post_mutex, sem_post
<1>4. CASE \/ server_shm_unlink(p) \/ server_shm_open(p) \/ server_sem_unlink(p)
           \/ client_attach(p) \/ client_opened(p) \/ end(p)
  BY <1>4 DEF server_shm_unlink, server_shm_open, server_sem_unlink, sem_unlink,
    client_attach, client_opened, end, sem_close
<1>5. CASE mkfifo(p) \/ open_rd(p) \/ open_wr(p) \/ fifo_error(p)
  BY <1>5 DEF mkfifo, open_rd, open_wr, fifo_error
<1>6. CASE write_value(p)
  BY <1>6 DEF write_value, Goto, PlaceOK, OpenFifo
<1>7. CASE open_file(p) \/ ftok(p, "ftok_create", "semget_create") \/ semget_create(p)
           \/ setval(p) \/ ftok(p, "ftok", "semget") \/ semget(p) \/ stat(p) \/ rmid(p)
  BY <1>7 DEF open_file, ftok, semget_create, setval, semget, stat, rmid
<1>8. CASE increment(p)
  BY <1>8 DEF increment
<1>9. CASE Die(p, pc[p])
  BY <1>9 DEF Die
<1> QED BY <1>1, <1>2, <1>3, <1>4, <1>5, <1>6, <1>7, <1>8, <1>9, Moves
          DEF open_semaphore, sem_open

\* No two processes give one semaphore its value, nor one that has it.
LEMMA SetterStep ==
  ASSUME TypeInv, TypeInv', \A q \in Procs : PlaceOK(q) /\ SemOK(q) /\ SetterOK(q),
         NEW p \in Procs, Move(p), Frame(p), PlaceOK(p)'
  PROVE  \A q \in Procs : SetterOK(q)'
<1> DEFINE Sets(q) == pc[q] \in Setting
<1>1. ASSUME NEW q \in Procs \ {p}, Sets(q)'
      PROVE  Sets(q) /\ sem'[q].rd = sem[q].rd /\ sem[q].rd \in made
  BY <1>1 DEF Frame, SemOK
<1>2. ASSUME NEW q \in Procs \ {p}, Sets(p)', Sets(q)'
      PROVE  sem'[p].rd # sem'[q].rd
  <2>1. Sets(q) /\ sem'[q].rd = sem[q].rd /\ sem[q].rd \in made
    BY <1>1, <1>2
  <2>2. CASE sem'[p].rd \notin made
    BY <2>1, <2>2
  <2>3. CASE pc[p] = "setval" /\ UNCHANGED sem
    BY <2>1, <2>3 DEF SetterOK, Setting
  <2> QED BY <1>2, <2>2, <2>3, IntoSetting
<1>3. ASSUME NEW q \in Procs, NEW u \in Procs \ {q}, Sets(q)', Sets(u)'
      PROVE  sem'[u].rd # sem'[q].rd
  <2>1. CASE q = p \/ u = p
    BY <1>2, <1>3, <2>1
  <2>2. CASE q # p /\ u # p
    BY <1>1, <1>3, <2>2 DEF SetterOK
  <2> QED BY <2>1, <2>2
<1>4. ASSUME NEW q \in Procs, Sets(q)', pc'[q] # "lock_setval"
      PROVE  sem'[q].rd \notin ready'
  <2>1. CASE q = p
    <3>1. CASE pc[p] = "setval" /\ UNCHANGED <<sem, ready>>
      BY <2>1, <3>1 DEF SetterOK, Setting
    <3>2. CASE sem'[p].rd \notin made /\ UNCHANGED ready
      BY <2>1, <3>2 DEF TypeInv
    <3> QED BY <1>4, <2>1, <3>1, <3>2, IntoSetting
  <2>2. CASE q # p
    <3>1. Sets(q) /\ sem'[q].rd = sem[q].rd /\ pc[q] = pc'[q]
      BY <1>1, <1>4, <2>2 DEF Frame
    <3>2. lib = "svsem" /\ sem[q].rd \notin ready
      BY <1>4, <3>1 DEF PlaceOK, OpenSvsem, SetterOK, Setting
    <3>3. pc[p] = "increment" => sem[q].rd # sem[p].rd
      BY <2>2, <3>1 DEF SetterOK, Setting
    <3> QED BY <3>1, <3>2, <3>3, ReadyStep
  <2> QED BY <2>1, <2>2
<1> QED BY <1>3, <1>4 DEF SetterOK

\* What a step of p can do to a semaphore that got its value once: nothing
\* more, take from it, give back what p had, or give it its first value.
ValueStep(p, s) ==
  \/ val'[s] <= val[s] /\ (Holds(p, s)' => Holds(p, s))
  \/ val[s] > 0 /\ val'[s] = val[s] - 1
  \/ val'[s] <= val[s] + 1 /\ Holds(p, s) /\ ~Holds(p, s)'
  \/ Unset(s) /\ val'[s] <= 1 /\ ~Holds(p, s)' /\ ~Unset(s)'

\* So it is in sem_open ...
LEMMA OpenValue ==
  ASSUME TypeInv, \A q \in Procs : PlaceOK(q) /\ SemOK(q) /\ SetterOK(q),
         NEW p \in Procs, Move(p), open_semaphore(p), NEW s \in Sems, s \notin twice', TokenOK(s)
  PROVE  ValueStep(p, s)
<1> USE DEF TypeInv, Goto, values
<1>0. val[s] \in Nat /\ (Unset(s) => val[s] = 0) /\ sem_open(p)
  BY DEF TokenOK, open_semaphore
<1>1. ~Holds(p, s)'
  <2>1. pc[p] \in OpenFifo \cup OpenSvsem
    BY <1>0 DEF sem_open, mkfifo, open_rd, open_wr, write_value, fifo_error, open_file,
      ftok, semget_create, setval, increment, semget, stat, rmid, OpenFifo, OpenSvsem
  <2>2. pc'[p] \notin Crit
    BY <2>1, IntoCrit DEF OpenFifo, OpenSvsem, lock_none, lock_fcntl, lock_open,
      svsem_stat, svsem_down, wait_mutex, read_seqno, write_seqno, Enter
  <2> QED BY <2>2 DEF Holds
<1>2. CASE val'[s] <= val[s]
  BY <1>1, <1>2 DEF ValueStep
<1>3. CASE write_value(p)
  <2>1. CASE s = sem[p].wr
    <3>1. s \notin ready /\ s \in ready' /\ val'[s] = val[s] + 1
      BY <1>3, <2>1 DEF write_value
    <3>2. lib = "fifo"
      BY <1>3 DEF write_value, PlaceOK, OpenFifo
    <3>3. Unset(s) /\ ~Unset(s)'
      BY <3>1, <3>2 DEF Unset, open_semaphore, others
    <3> QED BY <1>0, <1>1, <3>1, <3>3 DEF ValueStep
  <2>2. CASE s # sem[p].wr
    BY <1>0, <1>2, <1>3, <2>2 DEF write_value
  <2> QED BY <2>1, <2>2
<1>4. CASE increment(p)
  <2>1. CASE s = sem[p].rd /\ ~Removed(s)
    <3>1. s \in ready' /\ val'[s] = val[s] + 1
      BY <1>4, <2>1 DEF increment
    <3>2. lib = "svsem" /\ s \notin ready
      BY <1>4, <2>1 DEF increment, PlaceOK, OpenSvsem, SetterOK, Setting
    <3>3. Unset(s) /\ ~Unset(s)'
      BY <3>1, <3>2 DEF Unset, open_semaphore, others
    <3> QED BY <1>0, <1>1, <3>1, <3>3 DEF ValueStep
  <2>2. CASE s # sem[p].rd \/ Removed(s)
    BY <1>0, <1>2, <1>4, <2>2 DEF increment
  <2> QED BY <2>1, <2>2
<1>5. CASE fifo_error(p)
  BY <1>0, <1>2, <1>5 DEF fifo_error, Release
<1>6. CASE \/ mkfifo(p) \/ open_rd(p) \/ open_wr(p) \/ open_file(p)
           \/ ftok(p, "ftok_create", "semget_create") \/ ftok(p, "ftok", "semget")
           \/ semget_create(p) \/ setval(p) \/ semget(p) \/ stat(p) \/ rmid(p)
  <2>1. UNCHANGED val
    BY <1>6 DEF mkfifo, open_rd, open_wr, open_file, ftok, semget_create, setval,
      semget, stat, rmid, semvars
  <2> QED BY <1>0, <1>2, <2>1
<1> QED BY <1>0, <1>3, <1>4, <1>5, <1>6 DEF sem_open

\* ... in my_lock ...
LEMMA LockValue ==
  ASSUME TypeInv, \A q \in Procs : PlaceOK(q) /\ SemOK(q) /\ SetterOK(q),
         NEW p \in Procs, Move(p), my_lock(p), NEW s \in Sems, TokenOK(s), Frame(p), LockOK(p)
  PROVE  ValueStep(p, s)
<1> USE DEF TypeInv, Goto, values
<1>0. val[s] \in Nat /\ (Unset(s) => val[s] = 0)
  BY DEF TokenOK
<1>1. CASE lock_none(p) \/ lock_fcntl(p) \/ lock_open(p)
  BY <1>1 DEF lock_none, lock_fcntl, lock_open, semvars, Enter, Holds, WithSem,
    ValueStep
<1>2. CASE svsem_get(p)
  <2>1. UNCHANGED val /\ pc'[p] \notin Crit
    BY <1>2 DEF svsem_get, Crit
  <2> QED BY <1>0, <2>1 DEF ValueStep, Holds
<1>3. CASE svsem_setval(p)
  <2>1. /\ pc[p] = "lock_setval" /\ pc'[p] = "lock" /\ prog = "locksvsem"
        /\ sem' = sem /\ sem[p].rd \in made
    BY <1>3 DEF svsem_setval, PlaceOK, SemOK, Setting
  <2>2. CASE s = sem[p].rd
    <3>1. val'[s] = 1
      BY <1>3, <2>2 DEF svsem_setval
    <3>2. Unset(s)
      BY <2>1, <2>2 DEF Unset
    <3>3. \A q \in Procs : ~(pc'[q] = "lock_setval" /\ sem'[q].rd = s)
      BY <2>1, <2>2 DEF Frame, SetterOK, Setting
    <3>4. ~Unset(s)'
      BY <2>1, <2>2, <3>3 DEF Unset, Frame
    <3> QED BY <2>1, <3>1, <3>2, <3>4 DEF ValueStep, Holds, Crit
  <2>3. CASE s # sem[p].rd
    BY <1>3, <2>3 DEF svsem_setval, ValueStep, Holds
  <2> QED BY <2>2, <2>3
<1>4. CASE svsem_stat(p)
  <2>1. UNCHANGED val /\ prog' = "locksvsem" /\ (pc'[p] \in Crit => p \notin initflag')
    BY <1>4 DEF svsem_stat, PlaceOK, Crit
  <2> QED BY <1>0, <2>1 DEF ValueStep, Holds
<1>5. CASE svsem_down(p)
  <2>1. CASE s = sem[p].rd
    BY <1>0, <1>5, <2>1 DEF svsem_down, ValueStep
  <2>2. CASE s # sem[p].rd
    BY <1>5 DEF svsem_down, ValueStep, Holds
  <2> QED BY <2>1, <2>2
<1> QED BY <1>1, <1>2, <1>3, <1>4, <1>5 DEF my_lock

\* ... from sem_wait to sem_post or my_unlock ...
LEMMA IncrementValue ==
  ASSUME TypeInv, NEW p \in Procs, SemOK(p),
         \/ wait_mutex(p) \/ read_seqno(p) \/ write_seqno(p) \/ my_unlock(p) \/ post_mutex(p),
         NEW s \in Sems, s \notin twice', TokenOK(s)
  PROVE  ValueStep(p, s)
<1> USE DEF TypeInv, Goto, values
<1>0. val[s] \in Nat
  OBVIOUS
<1>1. CASE wait_mutex(p)
  <2>0. prog # "locksvsem" /\ pc'[p] = "read" /\ UNCHANGED <<prog, lib, gone, sem, reg>>
    BY <1>1 DEF wait_mutex, Incr, Enter, counts, sem_wait, sem_wait_fails, semvars
  <2>1. CASE sem_wait(p)
    <3>1. CASE s = sem[p].rd
      BY <1>0, <2>1, <3>1 DEF sem_wait, ValueStep
    <3>2. CASE s # sem[p].rd
      BY <2>1 DEF sem_wait, ValueStep, Holds
    <3> QED BY <3>1, <3>2
  <2>2. CASE sem_wait_fails(p) /\ Enter(p, Unlocked)
    <3>1. UNCHANGED val
      BY <2>2 DEF sem_wait_fails, semvars
    <3>2. Unlocked \in locks'[reg'[p]]
      BY <2>0, <2>2 DEF Enter
    <3>3. sem[p].rd = s => Removed(s) \/ sem[p].wr # s
      BY <2>2 DEF sem_wait_fails, HasWriter
    <3>4. ~Holds(p, s)'
      BY <2>0, <3>2, <3>3 DEF Holds, Removed
    <3> QED BY <1>0, <3>1, <3>4 DEF ValueStep
  <2> QED BY <1>1, <2>1, <2>2 DEF wait_mutex
<1>2. CASE read_seqno(p) \/ write_seqno(p)
  <2>1. UNCHANGED <<val, prog, lib, gone, sem, reg, locks, initflag>>
    BY <1>2 DEF read_seqno, write_seqno, semvars, hists
  <2>2. pc[p] \in Crit
    BY <1>2 DEF read_seqno, write_seqno, Crit
  <2> QED BY <2>1, <2>2 DEF ValueStep, Holds, Removed
<1>3. CASE unlock_file(p)
  BY <1>3 DEF unlock_file, semvars, Again, Holds, WithSem, ValueStep
<1>4. CASE unlock_svsem(p)
  <2>0. pc[p] = "unlock" /\ ~Holds(p, s)' /\ sem[p].rd = sem[p].wr /\ prog = "locksvsem"
    BY <1>4 DEF unlock_svsem, Again, Holds, Crit, SemOK
  <2>1. CASE p \in initflag /\ s = sem[p].wr
    <3>1. Holds(p, s)
      BY <2>0, <2>1 DEF Holds, Crit, WithSem
    <3> QED BY <1>4, <2>0, <3>1 DEF unlock_svsem, ValueStep
  <2>2. CASE ~(p \in initflag /\ s = sem[p].wr)
    BY <1>4, <2>0, <2>2 DEF unlock_svsem, ValueStep
  <2> QED BY <2>1, <2>2
<1>5. CASE post_mutex(p)
  <2>0. pc[p] = "unlock" /\ ~Holds(p, s)' /\ prog \in WithSem /\ prog # "locksvsem"
    BY <1>5 DEF post_mutex, Again, Holds, Crit, Incr, WithSem
  <2>1. CASE s = sem[p].wr /\ ~Removed(s)
    <3>1. sem[p].rd = s
      BY <1>5, <2>1 DEF post_mutex, sem_post
    <3>2. Holds(p, s)
      BY <2>0, <2>1, <3>1 DEF Holds, Crit
    <3> QED BY <1>5, <2>0, <3>2 DEF post_mutex, sem_post, ValueStep
  <2>2. CASE s # sem[p].wr \/ Removed(s)
    BY <1>5, <2>0, <2>2 DEF post_mutex, sem_post, ValueStep
  <2> QED BY <2>1, <2>2
<1> QED BY <1>1, <1>2, <1>3, <1>4, <1>5 DEF my_unlock

\* ... and at the beginning and the end.
LEMMA EndValue ==
  ASSUME TypeInv, NEW p \in Procs,
         \/ server_shm_unlink(p) \/ server_shm_open(p) \/ server_sem_unlink(p)
         \/ client_attach(p) \/ client_opened(p) \/ end(p) \/ Die(p, pc[p]),
         NEW s \in Sems
  PROVE  ValueStep(p, s)
<1> USE DEF TypeInv, Goto, values
<1>0. val[s] \in Nat
  OBVIOUS
<1>1. CASE \/ server_shm_unlink(p) \/ server_shm_open(p) \/ server_sem_unlink(p)
           \/ client_attach(p) \/ client_opened(p)
  <2>1. UNCHANGED val /\ pc'[p] \notin Crit
    BY <1>1 DEF server_shm_unlink, server_shm_open, server_sem_unlink, client_attach,
      client_opened, sem_unlink, OpenFrom, semvars, Crit
  <2> QED BY <1>0, <2>1 DEF ValueStep, Holds
<1>2. CASE end(p)
  <2>1. val'[s] <= val[s] /\ pc'[p] \notin Crit
    BY <1>2 DEF end, sem_close, Release, Crit
  <2> QED BY <1>0, <2>1 DEF ValueStep, Holds
<1>3. CASE Die(p, pc[p])
  <2>1. /\ pc'[p] = "dead"
        /\ val'[s] = IF s \in Emptied(p) THEN 0 ELSE val[s] + Cardinality({s} \cap Undone(p))
    BY <1>3 DEF Die
  <2>2. ~Holds(p, s)'
    BY <2>1 DEF Holds, Crit
  <2>3. CASE s \in Undone(p)
    <3>1. prog = "locksvsem" /\ pc[p] \in Crit /\ s \in Held(p)
      BY <2>3 DEF Undone, Held, Crit
    <3>2. Held(p) = {sem[p].rd : x \in initflag \cap {p}}
      BY <3>1 DEF Held, Crit, Incr
    <3>3. Holds(p, s)
      BY <3>1, <3>2 DEF Holds, WithSem
    <3> QED BY <2>1, <2>2, <3>3, Returned DEF ValueStep
  <2>4. CASE s \notin Undone(p)
    BY <2>1, <2>2, <2>4, Returned DEF ValueStep
  <2> QED BY <2>3, <2>4
<1> QED BY <1>1, <1>2, <1>3

\* Nobody comes to have a semaphore by another process's step.
LEMMA OthersHolds ==
  ASSUME TypeInv, NEW p \in Procs, Frame(p), NEW q \in Procs \ {p}, NEW s \in Sems, Holds(q, s)'
  PROVE  Holds(q, s)
<1>1. /\ pc'[q] = pc[q] /\ sem'[q] = sem[q] /\ reg'[q] = reg[q] /\ reg[q] \in Regions
      /\ prog' = prog /\ (q \in initflag' <=> q \in initflag)
      /\ locks[reg[q]] \subseteq locks'[reg[q]]
  BY DEF Frame, TypeInv
<1>2. Removed(s) => Removed(s)'
  BY DEF Frame, Removed
<1> QED BY <1>1, <1>2 DEF Holds

\* Once a semaphore has its value, it has it.
LEMMA UnsetBefore ==
  ASSUME TypeInv, NEW p \in Procs, Move(p), Frame(p), NEW s \in Sems, Unset(s)'
  PROVE  Unset(s)
<1>1. CASE prog # "locksvsem"
  BY <1>1 DEF Frame, Unset
<1>2. CASE prog = "locksvsem" /\ s \notin made'
  BY <1>2 DEF Frame, Unset
<1>3. CASE prog = "locksvsem" /\ s \in made'
  <2>1. PICK q \in Procs : pc'[q] = "lock_setval" /\ sem'[q].rd = s
    BY <1>3 DEF Frame, Unset
  <2>2. CASE q # p
    BY <1>3, <2>1, <2>2 DEF Frame, Unset
  <2>3. CASE q = p
    <3>1. s \notin made
      BY <2>1, <2>3, IntoSetting DEF Setting
    <3> QED BY <1>3, <3>1 DEF Unset
  <2> QED BY <2>2, <2>3
<1> QED BY <1>1, <1>2, <1>3

\* A semaphore that got its value once is had by one process at most, and its
\* value is then 0.
LEMMA TokenStep ==
  ASSUME TypeInv, TypeInv', \A q \in Procs : PlaceOK(q) /\ SemOK(q) /\ SetterOK(q) /\ LockOK(q),
         NEW p \in Procs, Move(p), Frame(p), NEW s \in Sems, s \notin twice', TokenOK(s)
  PROVE  TokenOK(s)'
<1>1. ValueStep(p, s)
  BY Moves, OpenValue, LockValue, IncrementValue, EndValue
<1>2. \A q \in Procs \ {p} : Holds(q, s)' => Holds(q, s)
  BY OthersHolds
<1>3. Unset(s)' => Unset(s)
  BY UnsetBefore
<1>4. val[s] \in Nat /\ val'[s] \in Nat
  BY DEF TypeInv
<1>5. CASE val'[s] <= val[s] /\ (Holds(p, s)' => Holds(p, s))
  <2>1. \A q \in Procs : Holds(q, s)' => Holds(q, s)
    BY <1>2, <1>5
  <2> QED BY <1>3, <1>4, <1>5, <2>1 DEF TokenOK
<1>6. CASE val[s] > 0 /\ val'[s] = val[s] - 1
  <2>1. ~Unset(s) /\ val[s] = 1
    BY <1>4, <1>6 DEF TokenOK
  <2> QED BY <1>2, <1>3, <1>6, <2>1 DEF TokenOK
<1>7. CASE val'[s] <= val[s] + 1 /\ Holds(p, s) /\ ~Holds(p, s)'
  <2>1. val[s] = 0 /\ ~Unset(s) /\ \A q \in Procs \ {p} : ~Holds(q, s)
    BY <1>7 DEF TokenOK
  <2>2. \A q \in Procs : ~Holds(q, s)'
    BY <1>2, <1>7, <2>1
  <2> QED BY <1>3, <1>7, <2>2 DEF TokenOK
<1>8. CASE Unset(s) /\ val'[s] <= 1 /\ ~Holds(p, s)' /\ ~Unset(s)'
  <2>1. \A q \in Procs : ~Holds(q, s)'
    BY <1>2, <1>8 DEF TokenOK
  <2> QED BY <1>8, <2>1 DEF TokenOK
<1> QED BY <1>1, <1>5, <1>6, <1>7, <1>8 DEF ValueStep

-----------------------------------------------------------------------------
(* The theorems.                                                           *)

\* The invariant holds when a program starts: the semaphore of incr1 to incr3 has the
\* value 1, nobody is in a critical region.
LEMMA InitInv == Init => IInv
<1> SUFFICES ASSUME Init PROVE IInv
  OBVIOUS
<1>1. PICK s \in Sems, C \in Casts :
        /\ made = IF Incr THEN {s} ELSE {}
        /\ ready = made
        /\ val = [x \in Sems |-> IF x \in made THEN 1 ELSE 0]
        /\ sem = [p \in Procs |-> IF Incr /\ p \in C \cap Clients
                                  THEN [Closed EXCEPT !.rd = s, !.wr = s] ELSE Closed]
        /\ pc = [p \in Procs |->
                   CASE p \in C \cap Clients -> IF prog = "client1" THEN "attach" ELSE "lock"
                     [] p \in C \cap Servers /\ prog = "client1" -> "shm_unlink"
                     [] p \in C \cap Tools /\ prog = "client1" -> OpenFrom(p)
                     [] OTHER -> "done"]
  BY Zenon DEF Init
<1> USE NamedSemAssumption, CounterAssumption
<1>2. sem \in [Procs -> SemT]
  BY <1>1 DEF SemT, Closed
<1>3. TypeInv
  BY <1>2 DEF Init, TypeInv, Regions
<1>4. ASSUME NEW p \in Procs
      PROVE  /\ pc[p] = "lock" => prog # "client1" /\ p \in C \cap Clients
             /\ pc[p] \in {"lock", "attach", "shm_unlink", "done"} \/ pc[p] = OpenFrom(p)
             /\ pc[p] \in {"attach", "shm_unlink", OpenFrom(p)} => prog = "client1"
  BY <1>1 DEF OpenFrom
<1>5. ASSUME NEW p \in Procs PROVE pc[p] \notin Crit \cup Setting
  BY <1>4 DEF OpenFrom, Crit, Setting
<1>6. ASSUME NEW p \in Procs PROVE PlaceOK(p)
  BY <1>3, <1>4 DEF PlaceOK, OpenFrom, OpenFifo, OpenSvsem, Begin, TypeInv
<1>7. ASSUME NEW p \in Procs PROVE SemOK(p)
  BY <1>5 DEF SemOK, Closed, OpenFrom, WithSem, Incr, Init
<1>8. ASSUME NEW p \in Procs PROVE SetterOK(p) /\ LockOK(p) /\ LocalOK(p)
  BY <1>5 DEF SetterOK, LockOK, LocalOK, Crit
<1>9. ASSUME NEW x \in Sems PROVE TokenOK(x)
  BY <1>1, <1>5 DEF TokenOK, Holds, Unset
<1>10. NoUpdateLost
  BY DEF Init, NoUpdateLost
<1> QED BY <1>3, <1>6, <1>7, <1>8, <1>9, <1>10 DEF IInv

\* Every step keeps it.
LEMMA NextInv == IInv /\ [Next]_vars => IInv'
<1> SUFFICES ASSUME IInv, [Next]_vars PROVE IInv'
  OBVIOUS
<1>1. ASSUME NEW p \in Procs, Move(p) PROVE IInv'
  <2>1. TypeInv' /\ Frame(p) /\ PlaceOK(p)' /\ SemOK(p)'
    BY <1>1, MoveStep DEF IInv
  <2>2. ASSUME NEW q \in Procs PROVE PlaceOK(q)' /\ SemOK(q)'
    BY <2>1, OthersKept DEF IInv
  <2>3. ASSUME NEW q \in Procs PROVE LockOK(q)'
    <3>1. CASE q = p
      BY <1>1, <3>1, OwnLock DEF IInv
    <3>2. CASE q # p
      BY <1>1, <2>1, <3>2, OthersLock DEF IInv
    <3> QED BY <3>1, <3>2
  <2>4. \A q \in Procs : SetterOK(q)'
    BY <1>1, <2>1, SetterStep DEF IInv
  <2>5. NoUpdateLost' /\ \A q \in Procs : LocalOK(q)'
    BY <1>1, <2>1, CountStep DEF IInv
  <2>6. \A s \in Sems \ twice' : TokenOK(s)'
    <3> SUFFICES ASSUME NEW s \in Sems \ twice' PROVE TokenOK(s)'
      OBVIOUS
    <3>1. TokenOK(s)
      BY <2>1 DEF IInv, Frame
    <3> QED BY <1>1, <2>1, <3>1, TokenStep DEF IInv
  <2> QED BY <2>1, <2>2, <2>3, <2>4, <2>5, <2>6 DEF IInv
<1>2. CASE UNCHANGED vars
  <2> USE <1>2 DEF vars, semvars, names, values, counts, hists
  <2>1. TypeInv'
    BY DEF IInv, TypeInv
  <2>2. ASSUME NEW q \in Procs PROVE PlaceOK(q)' /\ SemOK(q)' /\ SetterOK(q)' /\ LockOK(q)'
    BY DEF IInv, PlaceOK, SemOK, SetterOK, LockOK, LockOf
  <2>3. ASSUME NEW q \in Procs PROVE LocalOK(q)'
    BY DEF IInv, LocalOK, OneLock
  <2>4. ASSUME NEW s \in Sems \ twice PROVE TokenOK(s)'
    BY DEF IInv, TokenOK, Holds, Unset, Removed
  <2>5. NoUpdateLost'
    BY DEF IInv, NoUpdateLost, OneLock
  <2> QED BY <2>1, <2>2, <2>3, <2>4, <2>5 DEF IInv
<1> QED BY <1>1, <1>2 DEF Next, Move

\* The invariant holds in every reachable state.
THEOREM Invariance == Spec => []IInv
  BY InitInv, NextInv, PTL DEF Spec

\* No increment is lost of a number that was incremented under one lock: not of
\* a lock that my_lock gave up, of a semaphore removed by who gave up waiting
\* for it, or of a semaphore and a number that were made at different times.
THEOREM CounterCorrect == Spec => []NoUpdateLost
<1>1. IInv => NoUpdateLost
  BY DEF IInv
<1> QED BY <1>1, Invariance, PTL

\* Two processes are between the lock and the unlock of a number only if it
\* came with several locks, or with none.
MutualExclusion ==
  \A p, q \in Procs :
    p # q /\ pc[p] \in Crit /\ pc[q] \in Crit /\ reg[p] = reg[q] => ~OneLock(reg[p])

\* my_lock and sem_wait exclude the other processes, by whichever of the locks.
THEOREM OneAtATime == Spec => []MutualExclusion
<1>1. IInv => MutualExclusion
  BY Exclusion DEF IInv, MutualExclusion
<1> QED BY <1>1, Invariance, PTL
=============================================================================
