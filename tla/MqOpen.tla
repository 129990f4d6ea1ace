------------------------------ MODULE MqOpen -------------------------------
(***************************************************************************)
(* How a queue of my_pxmsg_mmp comes to exist: mq_open and mq_unlink; and  *)
(* how a semaphore of pxsem/my_pxsem_mmap does: sem_open and sem_unlink,   *)
(* which differ in that an opener maps the file before it looks at the     *)
(* bit.  A behaviour is about one of the two.  Processes race to create    *)
(* the file; the first one initializes it, with the user-execute bit set   *)
(* until it is done, and the others wait for that bit to be cleared.  Each *)
(* system call is one action.  A file is an inode; the pathname leads to   *)
(* at most one inode at a time, and open descriptors and mappings keep an  *)
(* inode that lost its name.                                               *)
(***************************************************************************)
EXTENDS Integers, FiniteSets

CONSTANTS Libs,       \* the libraries considered: "mq", "sem"
          Procs,      \* processes, each makes one call of mq_open or sem_open
          Creat,      \* those that pass O_CREAT
          Excl,       \* those of them that pass O_EXCL too
          Faulty,     \* those whose initialization may fail
          Mortal,     \* those that may be killed
          Unlinkers,  \* those that may unlink the name once their call returned
          Inodes,     \* the files that can be created (bounds re-creation)
          NoFile,     \* no inode
          MAX_TRIES

ASSUME MqOpenAssumption ==
  /\ Libs \subseteq {"mq", "sem"}
  /\ Creat \subseteq Procs /\ Excl \subseteq Creat
  /\ Faulty \subseteq Procs /\ Mortal \subseteq Procs /\ Unlinkers \subseteq Procs
  /\ NoFile \notin Inodes
  /\ MAX_TRIES \in Nat \ {0}

VARIABLES
  lib,         \* the library; it stays
  path,        \* the inode the pathname leads to
  xbit,        \* the inodes with the user-execute bit
  sized,       \* the inodes that have their full size
  inited,      \* the inodes whose header, lists, mutex and condvar are ready
  made,        \* the inodes ever created
  removed,     \* the inodes whose name was removed (history)
  pc,          \* process -> where it is in its call
  fd,          \* process -> the inode it has opened
  created,     \* process -> it created a file
  tries,       \* process -> i, how often it found the bit set
  mapped       \* process -> the inode its mq_info or sem_t lies in

files == <<path, xbit, sized, inited, made, removed>>
vars == <<lib, path, xbit, sized, inited, made, removed, pc, fd, created, tries, mapped>>

Places == {"again", "size", "init", "chmod", "exists", "stat", "map", "err",
           "opened", "failed", "killed"}

TypeOK ==
  /\ lib \in Libs
  /\ path \in Inodes \cup {NoFile}
  /\ xbit \subseteq made /\ sized \subseteq made /\ inited \subseteq sized
  /\ removed \subseteq made /\ made \subseteq Inodes
  /\ pc \in [Procs -> Places]
  /\ fd \in [Procs -> Inodes \cup {NoFile}]
  /\ created \in [Procs -> BOOLEAN]
  /\ tries \in [Procs -> 0..MAX_TRIES]
  /\ mapped \in [Procs -> Inodes \cup {NoFile}]

Init ==
  /\ lib \in Libs
  /\ path = NoFile
  /\ xbit = {} /\ sized = {} /\ inited = {} /\ made = {} /\ removed = {}
  /\ pc = [p \in Procs |-> IF p \in Creat THEN "again" ELSE "exists"]
  /\ fd = [p \in Procs |-> NoFile]
  /\ created = [p \in Procs |-> FALSE]
  /\ tries = [p \in Procs |-> 0]
  /\ mapped = [p \in Procs |-> NoFile]

Goto(p, place) == pc' = [pc EXCEPT ![p] = place]

-----------------------------------------------------------------------------
(* The creator.                                                            *)

Create_JoinsAnyway(p) ==     \* mutation: O_EXCL is forgotten on EEXIST
  /\ pc[p] = "again"
  /\ IF path = NoFile
     THEN \E i \in Inodes \ made :
            /\ path' = i /\ made' = made \cup {i}
            /\ xbit' = xbit \cup {i}
            /\ fd' = [fd EXCEPT ![p] = i]
            /\ created' = [created EXCEPT ![p] = TRUE]
            /\ Goto(p, "size")
     ELSE /\ Goto(p, "exists")
          /\ UNCHANGED <<path, xbit, made, fd, created>>
  /\ UNCHANGED <<sized, inited, removed, tries, mapped>>

Create_Clobbers(p) ==        \* mutation: O_EXCL is left out of the open
  /\ pc[p] = "again"
  /\ \E i \in Inodes \ made :
       /\ path' = i /\ made' = made \cup {i}
       /\ xbit' = xbit \cup {i}
       /\ fd' = [fd EXCEPT ![p] = i]
       /\ created' = [created EXCEPT ![p] = TRUE]
       /\ Goto(p, "size")
  /\ UNCHANGED <<sized, inited, removed, tries, mapped>>

\* open(pathname, O_CREAT|O_EXCL|O_RDWR, mode|S_IXUSR).
Create(p) ==
  /\ pc[p] = "again"
  /\ IF path = NoFile
     THEN \E i \in Inodes \ made :
            /\ path' = i /\ made' = made \cup {i}
            /\ xbit' = xbit \cup {i}
            /\ fd' = [fd EXCEPT ![p] = i]
            /\ created' = [created EXCEPT ![p] = TRUE]
            /\ Goto(p, "size")
     ELSE /\ Goto(p, IF p \in Excl THEN "failed" ELSE "exists")
          /\ UNCHANGED <<path, xbit, made, fd, created>>
  /\ UNCHANGED <<sized, inited, removed, tries, mapped>>

\* lseek and write of the last byte, or write of an empty sem_t.
SetSize_SeekOnly(p) ==       \* mutation: lseek without the write
  /\ pc[p] = "size"
  /\ Goto(p, "init")
  /\ UNCHANGED <<files, fd, created, tries, mapped>>

SetSize(p) ==
  /\ pc[p] = "size"
  /\ sized' = sized \cup {fd[p]}
  /\ Goto(p, "init")
  /\ UNCHANGED <<path, xbit, inited, made, removed, fd, created, tries, mapped>>

\* mmap; the header and the free list, or the value; mutex and condvar.
Initialize(p) ==
  /\ pc[p] = "init"
  /\ inited' = inited \cup {fd[p]}
  /\ mapped' = [mapped EXCEPT ![p] = fd[p]]
  /\ Goto(p, "chmod")
  /\ UNCHANGED <<path, xbit, sized, made, removed, fd, created, tries>>

\* fchmod clears the bit; the call returns.
Publish(p) ==
  /\ pc[p] = "chmod"
  /\ xbit' = xbit \ {fd[p]}
  /\ Goto(p, "opened")
  /\ UNCHANGED <<path, sized, inited, made, removed, fd, created, tries, mapped>>

\* A bad mq_attr, or any of the creator's calls fails.
CreatorFails(p) ==
  /\ p \in Faulty /\ pc[p] \in {"size", "init", "chmod"}
  /\ Goto(p, "err")
  /\ UNCHANGED <<files, fd, created, tries, mapped>>

-----------------------------------------------------------------------------
(* The others.                                                             *)

\* open(pathname, O_RDWR).
OpenExisting(p) ==
  /\ pc[p] = "exists"
  /\ IF path = NoFile
     THEN /\ Goto(p, IF p \in Creat THEN "again" ELSE "err")
          /\ UNCHANGED <<fd, tries>>
     ELSE /\ fd' = [fd EXCEPT ![p] = path]
          /\ tries' = [tries EXCEPT ![p] = 0]
          /\ Goto(p, IF lib = "mq" THEN "stat" ELSE "map")
  /\ UNCHANGED <<files, created, mapped>>

\* sem_open maps before it looks at the bit, mq_open after.
AfterStat == IF lib = "mq" THEN "map" ELSE "opened"

\* stat(pathname): the bit of whatever file has the name now.
Stat_Once(p) ==         \* mutation: goes on whatever the bit says
  /\ pc[p] = "stat"
  /\ IF path = NoFile
     THEN /\ Goto(p, IF p \in Creat THEN "again" ELSE "err")
          /\ fd' = IF p \in Creat THEN [fd EXCEPT ![p] = NoFile] ELSE fd
     ELSE Goto(p, AfterStat) /\ UNCHANGED fd
  /\ UNCHANGED <<files, created, tries, mapped>>

Stat_Forever(p) ==      \* mutation: the number of tries is not bounded
  /\ pc[p] = "stat"
  /\ \/ /\ path = NoFile
        /\ Goto(p, IF p \in Creat THEN "again" ELSE "err")
        /\ fd' = IF p \in Creat THEN [fd EXCEPT ![p] = NoFile] ELSE fd
     \/ /\ path # NoFile /\ path \notin xbit
        /\ Goto(p, AfterStat)
        /\ UNCHANGED fd
  /\ UNCHANGED <<files, created, tries, mapped>>

Stat(p) ==
  /\ pc[p] = "stat"
  /\ \/ /\ path = NoFile
        /\ Goto(p, IF p \in Creat THEN "again" ELSE "err")
        /\ fd' = IF p \in Creat THEN [fd EXCEPT ![p] = NoFile] ELSE fd
        /\ UNCHANGED tries
     \/ /\ path # NoFile /\ path \notin xbit
        /\ Goto(p, AfterStat)
        /\ UNCHANGED <<fd, tries>>
     \/ /\ path \in xbit
        /\ tries' = [tries EXCEPT ![p] = @ + 1]
        /\ Goto(p, IF tries[p] + 1 = MAX_TRIES THEN "err" ELSE "stat")
        /\ UNCHANGED fd
  /\ UNCHANGED <<files, created, mapped>>

\* mmap of the descriptor; mq_open returns, sem_open goes on to stat.
MapExisting(p) ==
  /\ pc[p] = "map"
  /\ mapped' = [mapped EXCEPT ![p] = fd[p]]
  /\ Goto(p, IF lib = "mq" THEN "opened" ELSE "stat")
  /\ UNCHANGED <<files, fd, created, tries>>

-----------------------------------------------------------------------------

\* unlink(pathname).
RemoveName == path' = NoFile /\ removed' = removed \cup ({path} \ {NoFile})

\* err: the file goes if this process created one, by its name.
Fail_AlwaysUnlinks(p) ==     \* mutation: created is not consulted
  /\ pc[p] = "err"
  /\ RemoveName
  /\ mapped' = [mapped EXCEPT ![p] = NoFile]
  /\ fd' = [fd EXCEPT ![p] = NoFile]
  /\ Goto(p, "failed")
  /\ UNCHANGED <<xbit, sized, inited, made, created, tries>>

Fail(p) ==
  /\ pc[p] = "err"
  /\ IF created[p] THEN RemoveName ELSE UNCHANGED <<path, removed>>
  /\ mapped' = [mapped EXCEPT ![p] = NoFile]
  /\ fd' = [fd EXCEPT ![p] = NoFile]
  /\ Goto(p, "failed")
  /\ UNCHANGED <<xbit, sized, inited, made, created, tries>>

\* So does sem_unlink.
mq_unlink(p) ==
  /\ p \in Unlinkers /\ pc[p] \in {"opened", "failed"}
  /\ RemoveName
  /\ UNCHANGED <<xbit, sized, inited, made, pc, fd, created, tries, mapped>>

\* A process is killed; what it did to the file stays.
Die(p) ==
  /\ p \in Mortal /\ pc[p] # "killed"
  /\ Goto(p, "killed")
  /\ mapped' = [mapped EXCEPT ![p] = NoFile]
  /\ fd' = [fd EXCEPT ![p] = NoFile]
  /\ UNCHANGED <<files, created, tries>>

call(p) ==
  \/ Create(p) \/ SetSize(p) \/ Initialize(p) \/ Publish(p)
  \/ OpenExisting(p) \/ Stat(p) \/ MapExisting(p) \/ Fail(p)

mq_open(p) == lib = "mq" /\ call(p) /\ UNCHANGED lib
sem_open(p) == lib = "sem" /\ call(p) /\ UNCHANGED lib

Next == \E p \in Procs :
  \/ mq_open(p) \/ sem_open(p)
  \/ UNCHANGED lib /\ (CreatorFails(p) \/ mq_unlink(p) \/ Die(p))

Spec == Init /\ [][Next]_vars

\* The calls do not wait for anyone: a process only has to be scheduled.
FairSpec == Spec /\ \A p \in Procs : WF_vars(mq_open(p) \/ sem_open(p))

-----------------------------------------------------------------------------

\* mq_open.c:153 "make certain initialization is complete": who has the queue
\* open has an initialized file mapped.
OpenedIsReady == \A p \in Procs : pc[p] = "opened" => mapped[p] \in inited

\* What the code ensures of it: the file is initialized unless its name was
\* removed, by its creator's error path or by mq_unlink.
ReadyOrRemoved ==
  \A p \in Procs : pc[p] = "opened" => mapped[p] \in inited \cup removed

\* All processes that have the name open share one queue, the one the name
\* leads to, unless theirs was removed since.
OneQueue == \A p \in Procs : pc[p] = "opened" => mapped[p] \in removed \cup {path}

\* O_EXCL: a call that asks for it succeeds only by creating the queue, so two
\* succeed only if the queue of one was removed.
ExclusiveCreates ==
  \A p, q \in Excl : pc[p] = "opened" /\ pc[q] = "opened" =>
    created[p] /\ (p = q \/ {mapped[p], mapped[q]} \cap removed # {})

\* The error path removes the file that the failing process created, and
\* another one only if mq_unlink had removed its own before.
FailRemovesOwn ==
  [][\A p \in Procs : pc[p] = "err" /\ pc'[p] = "failed" /\ path' # path
       => created[p] /\ (path = fd[p] \/ fd[p] \in removed)]_vars

\* Every call returns, whatever happens to the other processes: a creator that
\* dies with the bit set costs the others MAX_TRIES looks at it.
CallsReturn == \A p \in Procs : <>(pc[p] \in {"opened", "failed", "killed"})
=============================================================================
