# Interprocess communication exercises: a TLA+ development

The repository works through the second volume of *UNIX Network Programming*.
Its author re-implements Posix message queues, Posix semaphores and read-write
locks on top of more primitive facilities (memory-mapped files, FIFOs, System V
semaphores, Pthread mutexes and condition variables) and writes small programs
that use pipes, FIFOs, message queues, semaphores, record locks and shared
memory. This directory models the parts that carry logic of their own,
model-checks them with TLC and proves theorems about them with TLAPS.

Contents: how the source is read; inventory; modules; runs, with bounds and
fairness; findings; proofs; what is not modelled; plan.

## How the source is read

Much of the code was typed in and never compiled. A misspelt identifier
(`pthread_cond_wai`, `PORT_WRITE`, `mghdr`, `msqhdr`, `mqi_flas`,
`pthread_mutext_unlock`, ...) is read as the identifier it stands for. What the
code *does*, right or wrong, is not corrected. `sem_post.c:23` is such a line: it increments
`sem_cond`, the condition variable, where its neighbours count in `sem_count`. Both are fields of
the structure, so nothing is misspelt, and the line is modelled as it stands: a post leaves
the value alone (finding 3). What the condition variable does after that is undefined, and the
model lets later signals reach somebody or nobody.

Where a comment of the repository says something the code does not do, the
disagreement is a run that TLC must refute and a finding, with one exception: the comment at
`mq_send.c:36` promises a check that a sender which slept does not make, and the property about it,
`SignalsExact`, exempts this case by name (`LateArrival`).

## Inventory

Modelled:

| part | state | operations | what is hard | what makes it correct |
|---|---|---|---|---|
| `my_pxmsg_mmp`: message queue over a mapped file | header (`mqh_head`, `mqh_free`, `mqh_nwait`, `mqh_pid`, `mqh_event`, `mqh_lock`, `mqh_wait`, `mq_curmsgs`), slots, one `mq_info` per descriptor | `mq_send`, `mq_receive`, `mq_notify`, `mq_setattr`, `mq_getattr`, `mq_close` | one condition variable for senders and receivers; one signal per transition from empty or full; linked lists by index; notification that yields to blocked receivers; deaths | the lists are intact, the mutex is given back, the counts are exact, priority and arrival order, nobody sleeps for nothing, a notification fires once and only when due |
| `mq_open`, `mq_unlink`, and `sem_open`, `sem_unlink` of `my_pxsem_mmap` | the file system: the name, the file's mode bit, size, contents | creation race, waiting for initialization, error path | races without a lock, retries, creators that fail or die | who succeeds has an initialized file, all have the same one, `O_EXCL` is exclusive, an error path removes only its own file, calls return |
| `mutex/my_rwlock`: read-write lock | `rw_refcount`, `rw_nwaitreaders`, `rw_nwaitwriters`, a mutex, two condition variables | `rdlock`, `tryrdlock`, `wrlock`, `trywrlock`, `unlock`, `init`, `destroy` | preference for writers, whom to wake, stale wake-ups | mutual exclusion, exact counters, no lost wake-up, writers first and not starved |
| `pxsem/my_pxsem_mmap`: semaphore over a mapped file | `sem_count`, a mutex, a condition variable | `sem_wait`, `sem_trywait`, `sem_post`, `sem_getvalue`, `sem_close` | posts that leave the value alone, wake-ups that promise nothing, callers beside openers | no wait completes without a value, the count does not wrap, nobody sleeps through the initialization; it is *not* a counting semaphore (finding 3) |
| `pxsem/prodcons1..4`, `mycat2` | circular buffer, indices, three semaphores | produce, consume | many producers and consumers, passing on the end, failing reads | no item is lost, repeated, overwritten or out of order; all threads return |
| `mutex/prodcons2, 3, 6` | array, `nput`, `nval`, `nready`, mutexes, a condition variable | produce, consume (afterwards, polling, or waiting) | the consumer reads the array without a lock | it reads only what was stored; it is woken; all values are in place |
| `svmsg/svmsgcliserv`, `svmsgmpxnq`; `pipe/fifoclieser`, `mainpipe`, `mainfifo`, `client_main` with `server_main` | queues, FIFOs, pipes; the server's loop and its children | request, reply, end, SIGCHLD, SIGPIPE, end of file | bounded queues, blocking opens, merged signals, killed clients | each client gets its own reply whole, no zombie stays, everybody is served |
| `pxshm/client2`, `server2`: message log | circular log, `nput`, `noverflow`, four semaphores, the server's index | send or count an overflow; print | a slot is taken under the mutex and filled after it | order with one client, exact overflow count, everybody is served |
| `pxmsg/mqnotifysigl`, `2` to `5`, `mqnotifythread1`, with `msqsend`, `mqreceive` | a queue, its registration, `SIGUSR1`, flag, pipe or threads | register, be told, register again, read | one notification per transition from empty, signals that merge, a second reader | a program that drains the queue forgets nothing |
| `pxsem/my_pxsem_fifo`: semaphore over a FIFO | the bytes in the FIFO, two descriptors per process | all five calls | two opens by name, bytes that vanish with the last descriptor | one lock is one lock, the value is there once |
| `pxsem/my_pxsem_svsem`: semaphore over a System V semaphore | `semval`, `sem_otime`, the key of a file | all but `sem_trywait` | initialization told by `sem_otime`, waiters that remove another's semaphore, `sem_unlink` that misses it | the same |
| `lock/lockmain` with four locks (`locknone`, `lockfcntl`, `lockopen`, `svsem/locksvsem`); `shm/incr1..3`; `pxshm/client1`, `server1`; `pxsem/semcreate` | a number in a file or in memory, the lock | lock, read, write, unlock; make everything anew | lost updates, two locks for one number, a lock its holder died with | no update is lost under one lock, everybody finishes |

How they interact: the queue and the semaphore over mapped files are libraries
whose callers share nothing but the mapping; `mq_open` and `sem_open` hand
over to the other operations through the cleared execute bit of the file; for the semaphore
`MappedSem` composes the two, so that callers and openers interleave.
The producer-consumer programs and `incr1..3` call the *system's* semaphores and
mutexes, the servers and the notified programs the system's queues and FIFOs.
`client1`, `server1` and `semcreate` are modelled on top of the two named semaphores of
this repository that leave the value to the kernel: `SharedCounter` extends `NamedSem`.

Not modelled, with what would be worth stating (reasons below, and in
`PROJECT.json`):

| part | hard behaviour |
|---|---|
| `pipe/pipemesg`, `pipe/mainpopen.c` | lengths taken from `strlen` of a block without a terminating null |
| `lock/onedaemon.c`, `test2.c`, `test3.c` | the order in which the kernel grants record locks |
| command-line tools (the rest of `pxmsg/mq*.c`, `pxsem/sem*.c`, `svmsg/*.c`, `svsem/*.c`, `svshm/*.c`, `pxshm/shm*.c`), `shm/test*.c`, `rtsignals`, `px_ipc.c` | none: one system call each, or a test of the kernel |

`unpipc.h` is a header of constants that the directories copy.

## Modules

| module | models | used with |
|---|---|---|
| `PrioQueue` | abstract: a bounded queue by priority, first in first out within one | `MsgQueue` implements it |
| `MsgQueue` | the operations on an open queue of `my_pxmsg_mmp` | `MCMsgQueue`, `MsgQueueProofs` |
| `MqOpen` | `mq_open`, `mq_unlink`, and the same of the mapped semaphore | `MCMqOpen`, `MappedSem` |
| `RWLock` | `my_rwlock` | `MCRWLock`, `RWLockProofs` |
| `Semaphore` | abstract: a counting semaphore, which `semaphore.h:8` promises | `PxSemMmap` does *not* implement it |
| `PxSemMmap` | `sem_wait`, `sem_trywait`, `sem_post` of `my_pxsem_mmap` | `MCPxSemMmap`, `MappedSem` |
| `MappedSem` | the two together: a mapped semaphore opened, used, removed and made anew | `MCMappedSem`, `MmapProofs` |
| `ProdConsSem` | `prodcons1` to `prodcons4`, `mycat2` of `pxsem`; `client2`, `server2` of `pxshm` | `MCProdConsSem`, `ProdConsSemProofs` |
| `ProdConsMutex` | `prodcons2`, `3`, `6` of `mutex` | `MCProdConsMutex`, `ProdConsMutexProofs` |
| `FileServers` | the six file servers | `MCFileServers`, `FileServersProofs` |
| `NotifyClients` | the programs that `mq_notify` tells of messages | `MCNotifyClients`, `NotifyClientsProofs` |
| `NamedSem` | `my_pxsem_fifo` and `my_pxsem_svsem`, one process's calls | `SharedCounter` extends it |
| `SharedCounter` | `lockmain` with four locks, `incr1` to `incr3`, `client1` with `server1` and `semcreate` | `MCSharedCounter`, `SharedCounterProofs` |

Variables have the names of the fields and globals they stand for; `pc` is where
a thread is in its call. A definition whose comment says *mutation* is a changed
form of its neighbour that a plausible bug would produce; it is no part of
`Next`.

**Atomicity.** A handler that holds one mutex from its first to its last access
of shared state is one action, split only at `pthread_cond_wait`
(`mq_send` / `mq_send_resume`, `rdlock` / `rdlock_resume`, ...). This is sound
because no other thread sees the state in between and the handler blocks nowhere
else. `"..._wait"` is asleep, `"..._wake"` is woken and about to lock the mutex
again: other threads may run first, which is where stale wake-ups come from. A
signal wakes any one sleeper. Spurious wake-ups are actions. Where the code has
no such mutex, an action is one system call (`MqOpen`, `FileServers`) or one
access of shared memory (`ProdConsSem`; in `ProdConsMutex` a store, an increment and
a read are separate steps).

**MsgQueue.** `msg_next[0]` is `mqh_head`, because `mq_send.c:82` treats the
address of the head as that of a message header. Slots are numbers instead of
offsets. A message is a priority and a body. The search for the place in the
list is `PlaceAfter`, stated by what its loop leaves; everything that writes a
link is kept (`Relinked`, `Unlinked`). A death leaves what the process wrote in
the file, `mqh_nwait` included, and is modelled outside critical sections. The
`kill(pid, 0)` of `mq_notify` is `pc[...] = "dead"`, so process ids are not
reused. The two returns that keep the mutex are modelled, by `mqh_lock`, and
shown unreachable.

**MqOpen.** A file is an inode; `path` is where the name leads; `removed` is a
history variable. `Stat` looks at the inode the *name* leads to and `MapExisting`
maps the one the descriptor leads to, as the code does. In `sem_open` the file is
mapped before its bit is examined. `Faulty` processes may fail in any step of
the initialization, `Mortal` ones may be killed anywhere, `Unlinkers` call
`mq_unlink` after their call.

**RWLock.** `init` and `destroy` are not raced with the other calls; `init` is
`Init`. Threads unlock only what they locked, which is what makes the error
return of `unlock`, the one that keeps the mutex, unreachable.

**PxSemMmap.** `posts` and `waits` are history variables: the calls that completed.
`sem_post` signals at value 0 and then increments `sem_cond`; `sem_count` it does not touch.
After the first post `CondSignal` may wake nobody. As any return from `pthread_cond_wait` may be
spurious, waiters are woken at a value that is still 0.

**MappedSem.** `MqOpen` and `PxSemMmap` share the processes; the composition says when each may do
what. `sem_count` is 0 from the empty `sem_t` that `sem_open` writes until `Initialize` sets it
(`SetValue`). A process calls once its `sem_open` has returned, on the file it has mapped, whether that is
initialized or not: it stamped the magic number itself (`sem_open.c:118`). While it sleeps it
unlinks nothing; it may be killed, and then still takes up a signal. Names may come and go; the
calls are followed on one file, `Followed`. A file is what its own openers make of it, so
one stands for all.

**ProdConsSem.** `Init` picks the program, `nitems` and the threads. `out` is a
history variable: what was printed or written. Semaphore operations are atomic.
In `prodcons4` at least one producer is created. In `mycat2` a read may fail. In
the message log (`client2`), the producers are processes: `client_slot` and `produce_count`
take a slot under the mutex, `client_copy` fills it afterwards, `client_full` finds
no room and `client_overflow`, `client_counted` add to `noverflow` in two halves. `server2` is the
consumer and never returns; the clients start when it waits for messages. Messages are
named by the place they take, so that `out` shows both order and stale slots.

**ProdConsMutex.** `wrong` says that the consumer has reported a value. The
poll of `prodcons3`, `consume_wait`, is one action: it locks, compares and
unlocks in a loop with no other effect.

**FileServers.** `Init` picks the program, the capacity of a queue or FIFO in
messages and the length of each reply. The two blocking opens of a FIFO are one
joint step, `FifoOpen` (and `FifoOpenFirst` for the second FIFO of the programs
with one client, where parent and child must open both in the same order).
`serving[c]` is where the server, or its child, is with client `c`. `up` becomes
`FALSE` when SIGPIPE ends a server, or when one that serves one client exits:
that is the end of file its client waits for. `got` is what a client has
printed (`mainpipe`, `mainfifo` and `client_main` then clear the buffer and write
as many zero bytes; this is not shown). The servers with many clients are up
when the clients start.

**NotifyClients.** The queue is reduced to how many messages it holds. A message that
arrives on the empty queue with no reader blocked uses up the registration
(`Notify`) and makes `SIGUSR1` pending, which is one bit, or starts a thread. `Deliver` is the
handler; where it may run is decided by `pc`: anywhere between the two
`sigprocmask` calls that unblock the signal, in `sigsuspend`, `sigwait` or `pause`. The
handler of `mqnotifysigl` reads the queue itself. `current` records that the queue was
empty at some time after the registration: messages that lay there before tell nobody,
which is the interface and no fault of the programs.

**NamedSem.** One action per system call, for both libraries. A FIFO is a member of
`Sems` and its value the bytes in it; `mkfifo`, the two `open`s by name and the initial write are four steps, so
that the name may be given to another FIFO in between; a creator whose FIFO has lost its reader dies of
SIGPIPE at that write (`crash`). A set is a member of `Sems` under a
key, `ready` says that `sem_otime` is not zero, `rmid` is the error path that
removes the set whoever made it. `sem_unlink` over System V asks for the key `ftok(.., 1)`
and therefore leaves the set. A new file may get an old file's key, as `ftok` does when an
inode is used again. `twice` and `gone` are history variables. `sem_wait` and
`sem_post` over a FIFO return 0 where they fail and -1 where they do not; no caller in the repository
looks.

**SharedCounter.** `Init` picks one of eight programs and the processes that run.
An increment is a read and a write (`read_seqno`, `write_seqno`). `server1` replaces
the shared memory object and the semaphore in three steps, whatever the clients do; `client1` does not check any of its calls, so that
it may crash (`crash`) on an object that is not there, with the semaphore taken. A
process in `Mortal` may be killed anywhere: the kernel then gives back a record
lock and what has `SEM_UNDO`, not a lock file or another semaphore. `locks[r]` is the
history of the locks that the incrementing processes of number `r` held; `stranded` that of the
locks whose holder died, or that were given back to another FIFO than they were
taken from.

## Runs

| run | configuration | states | what it shows |
|---|---|---|---|
| `mq_pair` | 1 sender, 1 receiver, 3 slots, 2 priorities, 2 bodies; fair; deadlock checked | 18 130 | `ImplementsPrioQueue`: the list in the file is the priority queue; `WaitsJustified`, `BlockedCallsReturn`: one condition variable for both sides is enough for *one* sender and *one* receiver |
| `mq_crowd` | 2 senders, 2 receivers, a fifth process, 2 slots; notification, `O_NONBLOCK`, close, reopen, deaths, spurious wake-ups | 189 734 | `EverySlotOnOneList`, `LockNeverLeaked`, `NwaitCounts`, `RegistrationKept`, `SignalsExact` |
| `mq_lost_receiver` | 1 sender, 2 receivers | violation | finding 1 |
| `mqopen_race` | 4 processes, 2 with `O_EXCL`, 1 without `O_CREAT`, 1 failing, 1 mortal, 1 unlinking; 3 inodes, 2 tries; both libraries; of the semaphore's openers 3 wait, 2 try, 2 post, value 1, 2 posts; fair (openers only) | 521 914 | `ReadyOrRemoved`, `OneQueue`, `ExclusiveCreates`, `FailRemovesOwn`, `CallsReturn`; `NoOverdraft`, `AsleepAtZero` |
| `mqopen_stale_fd` | 3 processes, 2 inodes | violation | finding 2 |
| `rwlock_threads` | 2 readers, 2 writers, 1 both; try calls; spurious wake-ups; fair; deadlock checked | 848 | `MutualExclusion`, `CountersExact`, `MutexNeverLeaked`, `NoLostWakeup`, `WritersFirst`, `WritersServed` |
| `sem_value` | 2 waiters, 1 that tries too, 1 that posts; value 1, 2 posts; fair | violation | finding 3 |
| `prodcons_sem` | up to 3 producers or clients, 2 consumers, 2 slots, up to 4 items, 2 failed reads; six programs; fair | 349 179 | `UnreadKept`, `InOrder`, `AllMoved`, `AllReturn` |
| `prodcons_mutex` | up to 3 producers, up to 4 items; fair | 53 580 | `ReadsStored`, `SleepsOnlyAtZero`, `AllMoved` |
| `file_servers` | 3 clients (1 in three of the programs), replies of 0 to 2 messages, capacity 1 to 3, 1 death; fair | 473 517 | `OwnReply`, `ZombiesReaped`, `Served` |
| `notify_clients` | a queue of 3, up to 3 messages in it at the start and 5 sent, a second reader; six programs; fair | 1 219 | `NoneForgotten`, `Drained` |
| `counters` | 2 or 3 that increment twice (1 mortal), or with 1 or 2 runs of `server1` and one of `semcreate`; 2 semaphores, 2 keys, 2 tries; eight programs, two libraries; fair | 593 534 | `NoUpdateLost`, `AllFinish` |

`TypeOK` is checked with the runs of `MqOpen`, `ProdConsSem`, `ProdConsMutex` and
`FileServers`, and proved for each module that has an `IInv` below.

**Bounds, and why they are enough.** Two processes of each kind are the least that
compete for one wake-up, and a third party can come between signal and return.
Two and three slots have a first, a middle and a last element and let the free
list be empty, partly and completely filled. Three inodes let the name be
removed and created again twice; two tries include one repetition. Up to four items
on two slots wrap the buffer twice. Of the mapped semaphore value 1 is the least that somebody can
take from a sleeper; two posts are one whose signal arrives and one whose signal may be lost; the
file followed may be the first, second or third to have the name, as inodes are taken in any order. Five messages on a queue of three let the queue fill, empty
and fill again after a notification. In `counters` two semaphores are what a run of `server1` beside an
old one needs; two iterations let a client come back to a lock that changed in between, and two
keys let an old one come back or not. The casts of processes are listed in `Casts`; one with two
clients beside both servers, one iteration each (7.5 million states), satisfies `NoUpdateLost` as well, and
is left out for its time. Capacity 1 to 3
against three clients includes the queue too small for all requests. One death
at any point covers each place of each program. The named bounds are `MaxPosts`,
`MaxItems`, `MaxErrors`, `MaxBlocks`, `MaxCap`, `MaxDeaths`, `MaxSent`, `NLoops`, `Sems`, `Inodes` and `MAX_TRIES`, which is
a constant of the code (10) and given a smaller value. `CHECK_DEADLOCK FALSE`
is given where the system may stop: threads return, processes die, or, in
`mq_crowd`, all live processes may be blocked because the others died.

**Fairness, and why the code justifies it.** It is weak fairness of threads that can
run: the system schedules a runnable thread in the end, and a mutex that is
free again and again is got in the end (critical sections are short and hold
no other lock). `MsgQueue` asks it only of woken threads, so
nobody is assumed to call `mq_send`, and `PxSemMmap` likewise; `RWLock` also of `unlock`, because a thread
that keeps a lock for ever blocks the others by right; `ProdConsSem`,
`ProdConsMutex` and `FileServers` of each thread's next step, never of a spurious
wake-up or a death; `MqOpen` and `MappedSem` of the steps of an open, which wait for nobody. `NotifyClients` asks it of the
program: it is started, its signals are delivered and it goes on, but nobody has
to send and the second reader may stop for ever. `SharedCounter` asks only that
*some* process takes a step while one can: each takes finitely many, so all go as far as they can.

**What the properties leave out because the code does not give it.**
`WaitsJustified` and `BlockedCallsReturn` are about a
lone waiter: with two, one signal per transition loses a wake-up (finding 1).
`ReadyOrRemoved`, `OneQueue` and `AsleepAtZero` except
files whose name was removed (finding 2). Nothing says that a waiter of the mapped semaphore returns: at
value 0 it sleeps for ever, whatever is posted (finding 3). `Served` makes no promise to the other
clients of an iterative server when one is killed, nor for a shared queue
smaller than the number of clients, where requests fill it and the server
sleeps in `msgsnd`. `SignalsExact` exempts a message whose sender slept for room and
finds the queue empty on waking (`LateArrival`): `mq_send` checks before its wait and not
after it (line 60), so that nobody is told, although the comment at line 36 promises the
check. It also promises no notification after a death, which leaves `mqh_nwait` too large.
`UnreadKept` and `InOrder` are about one client of the message log: with two, the `nstored` of the one
lets the server print the slot the other has not filled (`client2.c:55`). `NoneForgotten` and
`Drained` are about the programs that drain the queue: `mqnotifysigl` and `mqnotifysig2` read one message
per notification and leave the rest. `NoUpdateLost` is about numbers that were incremented under one lock
only: a client between the two halves of `server1`, a `my_lock` that gives up, or a semaphore
removed by a waiter that timed out, make two locks or none. `AllFinish` excuses
processes that wait for a lock whose holder died with it, or whose FIFO lost its
bytes (`Stuck`). In `mycat2` a read that fails for ever keeps both threads
going for ever.

## Findings

1. `mq_send.c:104` "wake up anyone blocked in mq_receive waiting for a message":
   one waiter is signalled, and only on the transition from empty. Two receivers
   asleep, two messages in a row: the second receiver sleeps on beside a message
   (`mq_lost_receiver`).
2. `mq_open.c:153` "make certain initialization is complete": the bit is read
   through the name, the mapping made through the descriptor; between the two the
   creator may have failed and another one created the name anew
   (`mqopen_stale_fd`).
3. `semaphore.h:8` "the actual semaphore value": `sem_post.c:23` increments `sem_cond` instead
   of `sem_count` (where `pthread_cond_t` is a structure, no compiler accepts the line). A post
   returns 0 and the value is what it was, so that the semaphore in the file is no counting semaphore, and a
   waiter that sleeps at 0 never gets what was posted (`sem_value`: the first post is no
   step of `Semaphore`).

## Proofs

For all values of the constants that satisfy the modules' assumptions: finite sets of
processes, threads and clients, at least one slot, natural priorities and bounds, and names that
stand for nobody (`NoProc`, `Nobody`, `NoMsg`) or for the server (`Server`; 1, the type of a request
and the pid of init) and are not those of a process, message or client; at least one key that `ftok` may
yield. `WaitsCorrect` alone assumes more of a constant, `OneEach`: at most one process calls
`mq_send` and at most one `mq_receive`, without which the statement is false (finding 1).

Each proof has the same form. A property is seldom inductive as it stands, so each
`...Proofs` module defines an `IInv`, a conjunction of named parts, which TLC checked on
the module's run before it was proved; one lemma per operation shows that the operation
keeps it, `NextInv` combines them by the disjuncts of `Next`, and `PTL` makes the temporal step.

**`MsgQueueProofs`**: `Invariance`, and from it `TypeCorrect`, `ListsCorrect`,
`LockCorrect`, `NwaitCorrect`, `RegistrationCorrect`, `SignalsCorrect`, `WaitsCorrect`, `Implementation`.
- *The lists.* `EverySlotOnOneList` says that the two lists
  cover the slots, not that none is listed twice. `TwoLists` adds
  that both lists have distinct elements and share none; `Counted` ties their
  lengths to `mq_curmsgs`; `ArgInv` says that a blocked sender still has its message. With them
  `PutLists` and `TakeLists` show that linking a slot in after any place
  and unlinking the first give two such lists again (the core of the
  development: which link is written, case by case), `PlaceExists` that the search of
  `mq_send` ends and what it returns, by the least position of lower priority,
  and `PutSafe` and `TakeSafe` that the returns which keep the mutex are not taken.
- *The counts.* `NwaitExact` needs that a signal moves a thread from its wait to its wake-up
  and no further (`SignalMoves`, `CountMoves`).
- *Notification.* `RegistrationKept` and `SignalsExact` speak of one step. They follow
  from the invariant operation by operation: who changes `mqh_pid`, and when a put finds
  the queue empty. `NwaitExact` turns the test `mqh_nwait == 0` of `mq_send` into "no receiver is
  blocked", which is why deaths are the exception.
- *Wake-ups.* `WaitsJustified` is inductive together with `CallerInv` (only a caller of
  `mq_receive` sleeps there): the one signal at the transition from empty finds the only receiver.
- *Refinement.* `ListUnique` says that links determine a list, hence `Queue`, the sequence
  that `PrioQueue` is instantiated with, is the list of `IInv` (`QueueIs`, `QueueIsNext`). `PutLists` gives the
  new list as the old one with a slot inserted after the `k` messages of at least its
  priority, which is what `PrioQueue` asks of a send; `TakeLists` its tail. All other steps leave the queue alone.

Induction over positions is done by `SetInduction` and `LeastNatural`, from the well-foundedness
of the naturals, because the library's induction theorems take an operator.

**`MmapProofs`**, of the two libraries over a mapped file. Creating and opening:
`Invariance`, `TypeCorrect`, `ReadyCorrect`, `OneQueueCorrect`, `ExclusiveCorrect`, `FailCorrect`. There is no lock; the argument is about the file system alone.
`NameInv`: every file ever made has the name or lost it for good. `OwnerInv`: two creators have
two files. `StageInv`: a file not yet initialized has its execute bit. `OpenerInv`
says what an opener knows after each system call: once it saw the bit cleared, its
descriptor's file is initialized or *was removed* (the bit was read through the name, which by then
may lead to another file). That disjunct is finding 2, and cannot be proved away.
With the calls on an open semaphore (`MappedSem`): `OpensAlone`, that the composition implements
`MqOpen`, so that the theorems above hold beside any calls; `MappedInvariance`, `OverdraftExcluded`,
`SleepersEarly`. `FreshInv`: a file is initialized once, by its creator. Hence `ValueInv`: the value is 0 until then, and
afterwards the initial one less the completed waits, since no post raises it. `InsideInv`: whoever is in
`sem_wait` came in when the file was initialized or removed (by `OpenerInv`), so that an initialization that finds
somebody asleep is that of a removed file.

**`RWLockProofs`**: `Invariance`, `TypeCorrect`, `Exclusive`, `CountersCorrect`,
`MutexReleased`, `WaitersWoken`, `WritersPreferred`. `MutualExclusion` alone is not
inductive; `HoldersInv` says what `rw_refcount` tells of the threads that hold the lock. `NoLostWakeup`
needs the exact waiting counts, because `unlock` decides by them whom to wake.
`AtMoves` does the counting: how many threads are at some places after a
step that moves one.

**`ProdConsSemProofs`**: `Invariance`, `TypeCorrect`, `OrderCorrect`, `UnreadCorrect`, `MovedCorrect`, for all six programs.
- `PlacesInv`: the places of the buffer are empty (`nempty`), being filled, filled (`nput - nget`) or being
  given back, at most `NBUFF` in all. Hence a producer that passed `nempty` stores beyond
  nothing that is unread: `UnreadKept`, with `ModApart` (places less than `NBUFF` apart do
  not share a slot).
- `TokensInv`: an item is about to be posted, posted, being fetched or fetched; each of these tokens is an
  item below `nput` but for those by which `prodcons4` and `mycat2` tell the consumers of the
  end. Hence a consumer that passed `nstored` fetches what was stored.
- `MutexInv`, `SoloInv`: who is between the operations of a mutex, or is the only one of its kind.
- `ItemsInv` says what the buffer holds; `LogInv` ties `nput + noverflow` of the message log
  to the messages its clients have begun; `ReadInv` and `BlocksInv` say for
  `mycat2` that the blocks in the buffer are the next ones of the file, with failed reads between them,
  by a witness function: how many blocks went before each place.

- `MovedInv`, a second invariant on top of the first, is about the end (`AllMoved`). `EndInv`: the last
  consumer to return has seen `nget` at `nitems`, or the end of the file with nothing left before it
  (`StopsAtEnd`, from `BlocksInv` and `TokensInv`). `LastInv`: `mycat2` tells of the end only when
  it has read everything. `ServedInv`: no message of the log is forgotten on its way to the
  server. `SumInv`: the counts of all producers (consumers) add up to `nput` (`nget`), less those
  that have yet to count their last item. `Total`, the sum, is defined as a number of pairs
  (thread, which of its items), so that no induction over the set of threads is needed.

`AtMoves`, `ProducerFlow` and `ConsumerFlow` do the counting: which of the sums a step
from one place to another changes, and by how much.

**`ProdConsMutexProofs`**: `Invariance`, `TypeCorrect`, `ReadsCorrect`, `SleepCorrect`, `NothingWrong` (the consumer
never complains), `ReturnCorrect` (once the producers have returned the array is full). `StoredInv` and
`MutexInv` say that the array holds the values below `nput`, and the place `nput` while one producer is
about to count; `ReadyInv` that in `prodcons6` the items announced, to be announced and taken add up to
`nput`; `BehindInv` that the consumer is behind.

**`FileServersProofs`**: `Invariance`, `TypeCorrect`, `RepliesCorrect`, `ChildrenReaped`, for all six
programs. `OwnReply` speaks of what was read; `Answered` adds what is under way: of the reply for a client
`k` messages were sent, the first `Len(got)` were read, and the others are in one
channel, each once and in ascending order, among the messages for others. `MessageInv` says that the type
of a message tells whose it is, so that `msgrcv` takes the right one out of the middle
(`RemoveMine`, `MineIs`); `RequestInv` that a client is not served while its request waits, so that no reply
begins twice; `Opens` that a client does not outrun a server that exits. `ZombiesReaped` is
inductive by itself; that there are never more zombies than clients is not, and follows from `ChildrenInv`.

**`NotifyClientsProofs`**: `Invariance`, `TypeCorrect`, `NothingForgotten`. `NoneForgotten` is not
inductive: it says that a program that waits beside messages has been told, and must know
why. `Expecting` adds that a program which waits and has not been told is
still registered, so that the next arrival on the empty queue tells it;
`Places` says which places each program may be in, and that one which drains never blocks in
`mq_receive`, where an arrival would use no registration. It holds for any size of the
queue and any number of messages.

**`SharedCounterProofs`**: `Invariance`, `CounterCorrect` (`NoUpdateLost`) and `OneAtATime`
(`MutualExclusion`: two processes are never between lock and unlock with one number and one lock), for the
eight programs, both libraries, and any number of processes, iterations, tries, semaphores and keys.
An increment is a read and a write. None is lost because nobody else is inside with the same lock, so
that the number is still the one read (`LocalOK`, `Exclusion`), and because a number that came with two locks
or none is promised nothing and stays so (`OneLockBefore`). The work is to show that a lock keeps others out.
- *Semaphores.* `TokenOK`: the value is 1, or one process holds it, or neither, until it is
  given its value. This needs that it is given once, by its creator, and that no opener takes it before
  (`SetterOK`, `Unset`).
- *Those who hold nothing.* `sem_wait` and `my_lock` return without the semaphore when it was
  removed, its FIFO has no writer or the tries are used up; the callers go on, and post what they
  never took. `Holds` leaves them out. That their post cannot let a second process in is the core of the argument
  (`IncrementValue`): it fails on a removed semaphore, and on a FIFO it goes to another one than was
  read, whose value then is no longer of one origin (`twice`).
- *Files.* `LockOK`: who is inside owns the record lock, or made the lock file; death gives back the one and
  leaves the other.

`OpenStep`, `LockStep`, `IncrementStep`, `EndStep` and `DieStep` go through the actions. `Frame` says what a step of
one process leaves alone of the others, `ValueStep` what any step can do to a semaphore; the parts of
the invariant that relate two processes follow from these two without a case for each place.

**Only model-checked.**
- Liveness (`BlockedCallsReturn`, `CallsReturn`, `WritersServed`, `AllReturn`,
  `AllMoved` of `ProdConsMutex`, `Served`, `Drained`, `AllFinish`): fairness is out of the prover's reach.

All other properties of the passing runs are stated by a theorem.

## Not modelled, and why

- A process killed *inside* a critical section. The mutexes are not robust:
  everybody else blocks for ever, and a list may be half linked. It is listed as a
  hazard; no property of the code could hold.
- `pthread_rwlock_destroy` beside other calls, a thread that takes two read
  locks, cancellation in a wait: hazards without a property, for the same reason.
- Sizes and bytes of messages (`mq_maxmsg` apart), `EMSGSIZE`, permissions and modes,
  failing `malloc`, descriptors that never carried the magic number.
- `errno = ENOENT && ...` in `sem_open.c:93` assigns instead of comparing, so that any
  failure of the second open starts the call again. In the model the open fails
  only because the name is gone, where the two readings agree.
- The "semget error" return of `locksvsem.c:43`: a `semget` that fails for permissions or a limit of the
  kernel, not because the set exists. `mycat2` does not check the `open` of its
  output file, whose failure only makes its writes fail.
- A file that is mapped before it has its size: `sem_open` then faults at line 118. In
  the model nobody calls on such a file.
- `pthread_rwlock_init` and the `sem_close` of the mapped semaphore; `sem_trywait` over System V,
  which no program modelled here calls.
- `sem_open.c:33` of `my_pxsem_fifo` writes `sem_fd[-1]`, one `int` before the block, and leaves
  `sem_fd[1]` as `malloc` gave it, which `error` then closes: what this does depends on the allocator. The
  model closes what was opened.
- The start of `server2` beside its clients: the name is visible before the size is set and the semaphores
  are initialized, and a client that comes then uses them as they are.
- `pipe/pipemesg`: its server sends `strlen` of a block with no terminating null, so what it sends
  depends on bytes the program never wrote. `mainpopen` lets the shell do the work.
- The rest of the second table of the inventory: one system call each, with nothing to
  interleave.

## Plan

The calls of `NamedSem` that have no caller in the repository (`sem_trywait`, other initial values
than 1) would be next, with programs of their own to make them.
