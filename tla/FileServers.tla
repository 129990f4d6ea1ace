---------------------------- MODULE FileServers ----------------------------
(***************************************************************************)
(* The file servers.  Three serve many clients: pipe/fifoclieser, an       *)
(* iterative server over FIFOs; svmsg/svmsgcliserv, an iterative server on *)
(* one System V queue that clients and server share; svmsg/svmsgmpxnq, a   *)
(* server that forks a child per request, with a queue per client.  Three  *)
(* serve one client and exit: pipe/mainpipe, over pipes, pipe/mainfifo and *)
(* the pair pipe/client_main and pipe/server_main, over FIFOs.  A client   *)
(* asks for a file and reads the reply to its end.  The server with many   *)
(* clients is up when they start.                                          *)
(***************************************************************************)
EXTENDS Integers, Sequences, SequencesExt, FiniteSets

CONSTANTS Clients,
          MaxBlocks,        \* bound: messages in a reply
          MaxCap,           \* bound: messages a queue or FIFO holds
          MaxDeaths         \* bound: clients that are killed

ASSUME FileServersAssumption ==
  /\ IsFiniteSet(Clients)
  /\ MaxBlocks \in Nat /\ MaxCap \in Nat \ {0} /\ MaxDeaths \in Nat

VARIABLES prog, cap, file,  \* the program, the capacity of a queue, and how many
                            \* messages each reply takes (an error takes one)
          chan,             \* the queues and FIFOs
          pc, got,          \* of the clients: got is what they have printed
          serving,          \* client -> the next block for it, see below
          up,               \* is the server alive
          zombies, sigchld  \* children not waited for, SIGCHLD pending

args == <<prog, cap, file>>
\* The client and the server of mainfifo are parent and child; the pair of
\* programs client_main and server_main does the same.
OneClient == {"mainpipe", "mainfifo", "client_server"}
ManyClients == {"fifoclieser", "svmsgcliserv", "svmsgmpxnq"}
children == <<zombies, sigchld>>
vars == <<args, chan, pc, got, serving, up, children>>

\* serving: by the iterative server or by a child, else these two.
NotServed == -1
Opening == 0                \* the server opens the FIFO for the reply
OpeningFirst == -2          \* or FIFO1, in the programs with one client

Server == "server"          \* the well-known queue or FIFO
\* A reply's messages are <<c, n>>, numbered from 1; 0 is that of length 0.
End(c) == <<c, 0>>
Pathname(c) == <<c, -1>>
ReplyChan(c) == IF prog = "svmsgcliserv" THEN Server ELSE c
\* mesg_type: 1 in a request, the client's pid in a reply on the shared queue.
Request == 1
\* No client has the pid 1, nor a queue or FIFO by the server's name.
ASSUME NamesAssumption == Request \notin Clients /\ Server \notin Clients
ReplyType(c) == IF prog = "svmsgcliserv" THEN c ELSE Request

\* Where a server with one client starts: both sides open FIFO1, then FIFO2.
ServerOpensAt == IF prog = "mainpipe" THEN NotServed ELSE OpeningFirst
ClientOpensAt == IF prog = "mainpipe" THEN "ask" ELSE "open_first"

InitMany ==
  /\ prog \in ManyClients /\ file \in [Clients -> 0..MaxBlocks]
  /\ pc = [c \in Clients |-> "ask"]
  /\ serving = [c \in Clients |-> NotServed]

InitOne ==
  /\ prog \in OneClient
  /\ \E c \in Clients, n \in 0..MaxBlocks :
       /\ file = [d \in Clients |-> IF d = c THEN n ELSE 0]
       /\ pc = [d \in Clients |-> IF d = c THEN ClientOpensAt ELSE "absent"]
       /\ serving = [d \in Clients |-> IF d = c THEN ServerOpensAt ELSE NotServed]

Init ==
  /\ InitMany \/ InitOne
  /\ cap \in 1..MaxCap
  /\ chan = [q \in Clients \cup {Server} |-> <<>>]
  /\ got = [c \in Clients |-> <<>>]
  /\ up = TRUE /\ zombies = 0 /\ sigchld = FALSE

mesg_send_NoWait(q, type, body) ==       \* mutation: IPC_NOWAIT is set
  chan' = IF Len(chan[q]) < cap
          THEN [chan EXCEPT ![q] = Append(@, [type |-> type, body |-> body])] ELSE chan

\* msgsnd, or write on a FIFO: blocks while the channel is full.
mesg_send(q, type, body) ==
  /\ Len(chan[q]) < cap
  /\ chan' = [chan EXCEPT ![q] = Append(@, [type |-> type, body |-> body])]

mesg_recv_Any(q, type, body) ==          \* mutation: msgrcv takes any type
  /\ chan[q] # <<>> /\ body = Head(chan[q]).body
  /\ chan' = [chan EXCEPT ![q] = Tail(@)]

\* msgrcv: the first message of the type, or blocks.
mesg_recv(q, type, body) ==
  LET k == SelectInSeq(chan[q], LAMBDA m : m.type = type)
  IN  /\ k # 0 /\ body = chan[q][k].body
      /\ chan' = [chan EXCEPT ![q] = RemoveAt(@, k)]

client_ask(c) ==
  /\ pc[c] = "ask"
  /\ mesg_send(Server, Request, Pathname(c))
  /\ pc' = [pc EXCEPT ![c] = IF prog = "fifoclieser" THEN "open" ELSE "read"]
  /\ UNCHANGED <<got, serving, up, children>>

\* FIFO1 of the programs with one client: its two opens meet.
FifoOpenFirst(c) ==
  /\ pc[c] = "open_first" /\ serving[c] = OpeningFirst
  /\ pc' = [pc EXCEPT ![c] = "open"]
  /\ serving' = [serving EXCEPT ![c] = Opening]
  /\ UNCHANGED <<chan, got, up, children>>

\* The opens of the FIFO of the replies for reading and for writing meet.
FifoOpen(c) ==
  /\ pc[c] = "open" /\ serving[c] = Opening
  /\ IF prog \in OneClient
     THEN /\ pc' = [pc EXCEPT ![c] = "ask"]
          /\ serving' = [serving EXCEPT ![c] = NotServed]
     ELSE /\ pc' = [pc EXCEPT ![c] = "read"]
          /\ serving' = [serving EXCEPT ![c] = 1]
  /\ UNCHANGED <<chan, got, up, children>>

\* The client prints what it reads; at the end it removes its queue or FIFO.
client_read(c) ==
  /\ pc[c] = "read"
  /\ \E b \in {m.body : m \in ToSet(chan[ReplyChan(c)])} :
       /\ mesg_recv(ReplyChan(c), ReplyType(c), b)
       /\ IF b[2] = 0 THEN pc' = [pc EXCEPT ![c] = "done"] /\ UNCHANGED got
          ELSE got' = [got EXCEPT ![c] = Append(@, b)] /\ UNCHANGED pc
  /\ UNCHANGED <<serving, up, children>>

\* read returns 0: the FIFO or pipe is empty and its writer has closed it, which
\* a server with one client does when it exits.
client_eof(c) ==
  /\ pc[c] = "read" /\ chan[c] = <<>>
  /\ \/ prog = "fifoclieser" /\ serving[c] = NotServed
     \/ prog \in OneClient /\ ~up
  /\ pc' = [pc EXCEPT ![c] = "done"]
  /\ UNCHANGED <<chan, got, serving, up, children>>

InLoop_Iterative ==                      \* mutation: no server forks
  \A c \in Clients : serving[c] = NotServed

\* The iterative servers are back in their loop; the other one always is,
\* its children do the rest.
InLoop == prog = "svmsgmpxnq" \/ \A c \in Clients : serving[c] = NotServed

server_recv ==
  /\ up /\ InLoop
  /\ \E c \in Clients :
       /\ mesg_recv(Server, Request, Pathname(c))
       /\ serving' = [serving EXCEPT ![c] = IF prog = "fifoclieser" THEN Opening ELSE 1]
  /\ UNCHANGED <<pc, got, up, children>>

\* The only client died before it asked: end of file, and the server exits.
server_eof(c) ==
  /\ prog \in OneClient /\ up /\ InLoop
  /\ pc[c] = "dead" /\ chan[Server] = <<>>
  /\ up' = FALSE
  /\ UNCHANGED <<chan, pc, got, serving, children>>

Broken(c) == prog \in OneClient \cup {"fifoclieser"} /\ pc[c] = "dead"

AllSent_OneMore(c) == serving[c] > file[c] + 1           \* mutation
AllSent(c) == serving[c] > file[c]

server_send(c) ==
  /\ serving[c] > 0 /\ ~AllSent(c) /\ ~Broken(c)
  /\ mesg_send(ReplyChan(c), ReplyType(c), <<c, serving[c]>>)
  /\ serving' = [serving EXCEPT ![c] = @ + 1]
  /\ UNCHANGED <<pc, got, up, children>>

\* A FIFO nobody reads any more: SIGPIPE ends the server.
server_sigpipe(c) ==
  /\ serving[c] > 0 /\ ~AllSent(c) /\ Broken(c)
  /\ up' = FALSE
  /\ serving' = [serving EXCEPT ![c] = NotServed]
  /\ UNCHANGED <<chan, pc, got, children>>

\* The end of a reply: close, or a message of length 0; a child then exits, as
\* does a server with one client.
server_end(c) ==
  /\ serving[c] > 0 /\ AllSent(c)
  /\ serving' = [serving EXCEPT ![c] = NotServed]
  /\ IF prog \in OneClient \cup {"fifoclieser"} THEN UNCHANGED chan
     ELSE mesg_send(ReplyChan(c), ReplyType(c), End(c))
  /\ up' = (up /\ prog \notin OneClient)
  /\ IF prog = "svmsgmpxnq" THEN zombies' = zombies + 1 /\ sigchld' = TRUE
     ELSE UNCHANGED children
  /\ UNCHANGED <<pc, got>>

sig_child_One ==                         \* mutation: wait once, not in a loop
  /\ sigchld /\ sigchld' = FALSE
  /\ zombies' = zombies - 1
  /\ UNCHANGED <<chan, pc, got, serving, up>>

\* The handler; Mesg_recv calls msgrcv again if it was interrupted.
sig_child ==
  /\ sigchld /\ sigchld' = FALSE
  /\ zombies' = 0
  /\ UNCHANGED <<chan, pc, got, serving, up>>

\* A client is killed; its queue or FIFO stays.
Die(c) ==
  /\ pc[c] \notin {"done", "dead", "absent"}
  /\ Cardinality({d \in Clients : pc[d] = "dead"}) < MaxDeaths
  /\ pc' = [pc EXCEPT ![c] = "dead"]
  /\ UNCHANGED <<chan, got, serving, up, children>>

client(c) == UNCHANGED args /\ 
  (\/ client_ask(c) \/ FifoOpenFirst(c) \/ FifoOpen(c) \/ client_read(c)
   \/ client_eof(c))
serve(c) == UNCHANGED args /\
  (server_send(c) \/ server_sigpipe(c) \/ server_end(c) \/ server_eof(c))
loop == UNCHANGED args /\ server_recv
reap == UNCHANGED args /\ sig_child

Next == loop \/ reap \/ \E c \in Clients :
          client(c) \/ serve(c) \/ (UNCHANGED args /\ Die(c))

Spec == Init /\ [][Next]_vars

\* Every process that can take a step takes one in the end.
FairSpec ==
  /\ Spec /\ WF_vars(loop) /\ WF_vars(reap)
  /\ \A c \in Clients : WF_vars(client(c)) /\ WF_vars(serve(c))
-----------------------------------------------------------------------------

TypeOK ==
  /\ \A q \in DOMAIN chan : Len(chan[q]) <= cap
  /\ pc \in [Clients -> {"open_first", "open", "ask", "read", "done", "dead", "absent"}]
  /\ serving \in [Clients -> -2 .. MaxBlocks + 1]
  /\ up \in BOOLEAN /\ zombies \in 0..Cardinality(Clients) /\ sigchld \in BOOLEAN

\* Whatever requests and replies are under way, a client gets the messages of
\* its own reply, in order, and all of them if it comes to the end.
OwnReply ==
  \A c \in Clients :
    /\ got[c] = [n \in DOMAIN got[c] |-> <<c, n>>]
    /\ pc[c] = "done" => Len(got[c]) = file[c]

\* However SIGCHLDs merge, a child that has ended is waited for or about to be.
ZombiesReaped == zombies > 0 => sigchld

\* Every client gets to the end of its reply, although queues fill up.  With
\* the forking server this is so even if other clients are killed at any
\* point.  The shared queue needs a place for each client's message.
Served ==
  <>[](\/ prog # "svmsgmpxnq" /\ \E c \in Clients : pc[c] = "dead"
       \/ prog = "svmsgcliserv" /\ cap < Cardinality(Clients)
       \/ \A c \in Clients : pc[c] \in {"done", "dead", "absent"})
=============================================================================
