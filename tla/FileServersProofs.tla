------------------------- MODULE FileServersProofs -------------------------
(***************************************************************************)
(* Theorems about FileServers, for any clients, replies, capacity and      *)
(* number of deaths.  What a client has read is the beginning of its       *)
(* reply: to say so inductively, the invariant says how many messages of   *)
(* the reply were sent and that those not read are under way in one        *)
(* channel, in order, among the messages for others.  A zombie is a client *)
(* that cannot come back.                                                  *)
(***************************************************************************)
EXTENDS FileServers, FiniteSetTheorems, SequenceTheorems, WellFoundedInduction, TLAPS

(* The inductive invariant.                                                *)

Messages == [type : Clients \cup {Request}, body : Clients \X Int]

\* The request of a client waits in the server's queue or FIFO.
Requested(c) == \E i \in DOMAIN chan[Server] : chan[Server][i].body = Pathname(c)

\* Mine: a message of the reply for c.  Its place in the reply: a message of
\* length 0 comes after the last block.
Mine(c, m) == m.body[1] = c /\ m.body[2] >= 0
Place(c, m) == IF m.body[2] = 0 THEN file[c] + 1 ELSE m.body[2]

\* What is under way in a channel, and that it is in order.
Underway(c, s) == {Place(c, s[i]) : i \in {j \in DOMAIN s : Mine(c, s[j])}}
Ascending(c, s) ==
  \A i, j \in DOMAIN s :
    i < j /\ Mine(c, s[i]) /\ Mine(c, s[j]) => Place(c, s[i]) < Place(c, s[j])

TypesInv ==
  /\ TypeOK
  /\ prog \in OneClient \cup ManyClients
  /\ cap \in Nat /\ file \in [Clients -> 0..MaxBlocks]
  /\ chan \in [Clients \cup {Server} -> Seq(Messages)]
  /\ got \in [Clients -> Seq(Clients \X Int)]
  /\ prog \in OneClient => \E one \in Clients : \A c \in Clients \ {one} :
        pc[c] = "absent" /\ serving[c] = NotServed

\* The message is what its channel and type say: a request for the server or a
\* message of a reply.
MessageInv(q, m) ==
  \/ q = Server /\ m.type = Request /\ m.body[2] = -1
  \/ \E c \in Clients :
       /\ q = ReplyChan(c) /\ m.type = ReplyType(c)
       /\ m.body[1] = c /\ m.body[2] \in 0..file[c]

ChanInv ==
  /\ \A q \in DOMAIN chan : \A i \in DOMAIN chan[q] : MessageInv(q, chan[q][i])
  /\ \A i, j \in DOMAIN chan[Server] :
       chan[Server][i].body[2] = -1 /\ chan[Server][j].body = chan[Server][i].body => i = j

\* A client's request is sent once, and not while it is served.
RequestInv(c) ==
  /\ pc[c] = "ask" => serving[c] = NotServed
  /\ pc[c] \in {"ask", "absent"} \/ serving[c] # NotServed => ~Requested(c)

\* The client of a server with one client is where the opens are, and does not
\* ask a server that is gone.
Opens(c) ==
  prog \in OneClient =>
    /\ pc[c] = "open_first" => serving[c] = OpeningFirst
    /\ pc[c] = "open" => serving[c] = Opening
    /\ ~up => pc[c] \in {"read", "done", "dead", "absent"}

\* Before the first message of the reply, and when the channel is closed.
Unanswered(c) ==
  pc[c] = "ask" \/ Requested(c) \/ serving[c] \in {Opening, OpeningFirst}
Closed(c) ==
  /\ pc[c] = "read"
  /\ \/ prog = "fifoclieser" /\ serving[c] = NotServed
     \/ prog \in OneClient /\ ~up

\* k messages of the reply for c have been sent; those not read are under way.
Answered(c, k) ==
  /\ Len(got[c]) <= k
  /\ Underway(c, chan[ReplyChan(c)]) = (Len(got[c]) + 1)..k
  /\ Ascending(c, chan[ReplyChan(c)])
  /\ Unanswered(c) => k = 0
  /\ serving[c] > 0 => serving[c] = k + 1 /\ k <= file[c]
  /\ Closed(c) => k = file[c]

\* OwnReply for one client.
Own(c) ==
  /\ got[c] = [n \in DOMAIN got[c] |-> <<c, n>>]
  /\ pc[c] = "done" => Len(got[c]) = file[c]

ClientInv(c) ==
  RequestInv(c) /\ Opens(c) /\ (\E k \in 0 .. file[c] + 1 : Answered(c, k)) /\ Own(c)

\* Each client costs one child.
Unended == {c \in Clients : pc[c] = "ask" \/ Requested(c) \/ serving[c] # NotServed}
ChildrenInv == zombies + Cardinality(Unended) <= Cardinality(Clients)

IInv ==
  /\ TypesInv /\ ChanInv /\ (\A c \in Clients : ClientInv(c))
  /\ ChildrenInv /\ ZombiesReaped

-----------------------------------------------------------------------------
(* Sequences of messages.                                                  *)

\* The order of the naturals, which is well-founded.
LessThan == {ss \in Nat \X Nat : ss[1] < ss[2]}
\* No descending chain of naturals goes on for ever.
LEMMA LessThanWellFounded == IsWellFoundedOn(LessThan, Nat)
  BY NatLessThanWellFounded, Zenon DEF OpToRel, LessThan

\* A nonempty set of naturals has a least element.
LEMMA LeastNatural ==
  ASSUME NEW S, S \subseteq Nat, S # {}
  PROVE  \E x \in S : \A y \in S : x <= y
<1>1. PICK x \in S : \A y \in S : ~(<<y, x>> \in LessThan)
  BY LessThanWellFounded, WFMin
<1>2. ASSUME NEW y \in S PROVE x <= y
  <2>1. x \in Nat /\ y \in Nat
    OBVIOUS
  <2>2. y < x => <<y, x>> \in LessThan
    BY <2>1 DEF LessThan
  <2> QED BY <1>1, <2>1, <2>2
<1> QED BY <1>2

\* RemoveAt leaves out one element and closes up.
LEMMA RemoveAtIs ==
  ASSUME NEW M, NEW s \in Seq(M), NEW k \in 1..Len(s)
  PROVE  /\ RemoveAt(s, k) \in Seq(M)
         /\ Len(RemoveAt(s, k)) = Len(s) - 1
         /\ \A i \in 1..Len(s)-1 : RemoveAt(s, k)[i] = IF i < k THEN s[i] ELSE s[i+1]
<1> DEFINE a == SubSeq(s, 1, k-1)
           b == SubSeq(s, k+1, Len(s))
<1>1. a \in Seq(M) /\ Len(a) = k - 1 /\ \A i \in 1..k-1 : a[i] = s[i]
  OBVIOUS
<1>2. b \in Seq(M) /\ Len(b) = Len(s) - k /\ \A i \in 1..Len(s)-k : b[i] = s[i+k]
  OBVIOUS
<1>3. RemoveAt(s, k) = a \o b
  BY DEF RemoveAt
<1> HIDE DEF a, b
<1>4. /\ a \o b \in Seq(M) /\ Len(a \o b) = Len(s) - 1
      /\ \A i \in 1..Len(s)-1 : (a \o b)[i] = IF i <= k - 1 THEN a[i] ELSE b[i - (k-1)]
  <2>1. Len(a \o b) = Len(a) + Len(b) /\ a \o b \in Seq(M)
    BY <1>1, <1>2, ConcatProperties
  <2>2. \A i \in 1..Len(a) + Len(b) :
          (a \o b)[i] = IF i <= Len(a) THEN a[i] ELSE b[i - Len(a)]
    BY <1>1, <1>2, ConcatProperties
  <2> QED BY <1>1, <1>2, <2>1, <2>2
<1>5. ASSUME NEW i \in 1..Len(s)-1
      PROVE  RemoveAt(s, k)[i] = IF i < k THEN s[i] ELSE s[i+1]
  <2>1. CASE i < k
    BY <2>1, <1>1, <1>3, <1>4
  <2>2. CASE ~(i < k)
    <3>1. i - (k-1) \in 1..Len(s)-k /\ i - (k-1) + k = i + 1
      BY <2>2
    <3> QED BY <2>2, <3>1, <1>2, <1>3, <1>4
  <2> QED BY <2>1, <2>2
<1> QED BY <1>3, <1>4, <1>5

\* mesg_recv takes the first message of the type.
LEMMA RecvIs ==
  ASSUME NEW q \in DOMAIN chan, chan[q] \in Seq(Messages), NEW type, NEW body,
         mesg_recv(q, type, body)
  PROVE  \E k \in 1..Len(chan[q]) :
           /\ chan[q][k].type = type /\ chan[q][k].body = body
           /\ \A j \in 1..k-1 : chan[q][j].type # type
           /\ chan' = [chan EXCEPT ![q] = RemoveAt(chan[q], k)]
<1> DEFINE I == {i \in 1..Len(chan[q]) : chan[q][i].type = type}
           k == SelectInSeq(chan[q], LAMBDA m : m.type = type)
<1>1. /\ k # 0 /\ body = chan[q][k].body
      /\ chan' = [chan EXCEPT ![q] = RemoveAt(chan[q], k)]
  BY DEF mesg_recv
<1>2. k = IF I # {} THEN Min(I) ELSE 0
  BY DEF SelectInSeq
<1> HIDE DEF k
<1>3. I # {} /\ k = Min(I)
  BY <1>1, <1>2
<1>4. \E x \in I : \A y \in I : x <= y
  <2>1. I \subseteq Nat
    OBVIOUS
  <2> HIDE DEF I
  <2> QED BY <1>3, <2>1, LeastNatural
<1>5. k \in I /\ \A y \in I : k <= y
  <2>1. k = CHOOSE x \in I : \A y \in I : x =< y
    BY <1>3 DEF Min
  <2> HIDE DEF I
  <2> QED BY <1>4, <2>1
<1>6. \A j \in 1..k-1 : chan[q][j].type # type
  BY <1>5
<1> QED BY <1>1, <1>5, <1>6

-----------------------------------------------------------------------------
(* The messages of one reply in a channel.                                 *)

\* A message of another reply, or a request, changes nothing.
LEMMA AppendOther ==
  ASSUME NEW c, NEW s \in Seq(Messages), NEW m \in Messages, ~Mine(c, m)
  PROVE  /\ Underway(c, Append(s, m)) = Underway(c, s)
         /\ Ascending(c, s) => Ascending(c, Append(s, m))
<1> DEFINE t == Append(s, m)
<1>1. /\ Len(t) = Len(s) + 1 /\ DOMAIN t = 1..Len(s)+1 /\ DOMAIN s = 1..Len(s)
      /\ Len(s) \in Nat
      /\ \A i \in 1..Len(s) : t[i] = s[i]
      /\ t[Len(s)+1] = m
  OBVIOUS
<1> HIDE DEF t
<1>2. {j \in DOMAIN t : Mine(c, t[j])} = {j \in DOMAIN s : Mine(c, s[j])}
  BY <1>1
<1>3. Underway(c, t) = Underway(c, s)
  BY <1>1, <1>2 DEF Underway
<1>4. Ascending(c, s) => Ascending(c, t)
  BY <1>1, <1>2 DEF Ascending
<1> QED BY <1>3, <1>4 DEF t

\* The next message of the reply comes last.
LEMMA AppendMine ==
  ASSUME NEW c, NEW s \in Seq(Messages), NEW m \in Messages, Mine(c, m),
         NEW lo \in Nat, NEW k \in Nat, lo <= k,
         Underway(c, s) = (lo+1)..k, Ascending(c, s), Place(c, m) = k + 1
  PROVE  /\ Underway(c, Append(s, m)) = (lo+1)..(k+1)
         /\ Ascending(c, Append(s, m))
<1> DEFINE t == Append(s, m)
<1>1. /\ Len(t) = Len(s) + 1 /\ DOMAIN t = 1..Len(s)+1 /\ DOMAIN s = 1..Len(s)
      /\ Len(s) \in Nat
      /\ \A i \in 1..Len(s) : t[i] = s[i]
      /\ t[Len(s)+1] = m
  OBVIOUS
<1> HIDE DEF t
<1>2. {j \in DOMAIN t : Mine(c, t[j])} = {j \in DOMAIN s : Mine(c, s[j])} \cup {Len(s)+1}
  BY <1>1
<1>3. Underway(c, t) = Underway(c, s) \cup {k+1}
  BY <1>1, <1>2 DEF Underway
<1>4. Underway(c, t) = (lo+1)..(k+1)
  BY <1>3
<1>5. Ascending(c, t)
  <2> SUFFICES ASSUME NEW i \in DOMAIN t, NEW j \in DOMAIN t, i < j,
                      Mine(c, t[i]), Mine(c, t[j])
               PROVE  Place(c, t[i]) < Place(c, t[j])
    BY DEF Ascending
  <2>1. i \in DOMAIN s /\ t[i] = s[i]
    BY <1>1
  <2>2. CASE j \in DOMAIN s
    BY <2>1, <2>2, <1>1 DEF Ascending
  <2>3. CASE j = Len(s) + 1
    <3>1. Place(c, s[i]) \in Underway(c, s)
      BY <2>1 DEF Underway
    <3> QED BY <3>1, <2>1, <2>3, <1>1
  <2> QED BY <2>2, <2>3, <1>1
<1> QED BY <1>4, <1>5 DEF t

\* Positions after one message was removed.
LEMMA Removed ==
  ASSUME NEW s \in Seq(Messages), NEW k \in 1..Len(s)
  PROVE  LET t == RemoveAt(s, k)
             old(i) == IF i < k THEN i ELSE i + 1
         IN  /\ t \in Seq(Messages) /\ Len(t) = Len(s) - 1
             /\ DOMAIN t = 1..Len(s)-1 /\ DOMAIN s = 1..Len(s) /\ Len(s) \in Nat
             /\ \A i \in DOMAIN t : old(i) \in DOMAIN s /\ old(i) # k /\ t[i] = s[old(i)]
             /\ \A i, j \in DOMAIN t : i < j => old(i) < old(j)
             /\ \A i \in DOMAIN s \ {k} : \E j \in DOMAIN t : old(j) = i
<1> DEFINE t == RemoveAt(s, k)
           old(i) == IF i < k THEN i ELSE i + 1
<1>1. /\ t \in Seq(Messages) /\ Len(t) = Len(s) - 1 /\ Len(s) \in Nat
      /\ \A i \in 1..Len(s)-1 : t[i] = IF i < k THEN s[i] ELSE s[i+1]
  BY RemoveAtIs
<1> HIDE DEF t
<1>2. DOMAIN t = 1..Len(s)-1 /\ DOMAIN s = 1..Len(s)
  BY <1>1
<1>3. \A i \in DOMAIN t : old(i) \in DOMAIN s /\ old(i) # k /\ t[i] = s[old(i)]
  BY <1>1, <1>2
<1>4. \A i, j \in DOMAIN t : i < j => old(i) < old(j)
  BY <1>2, <1>1
<1>5. \A i \in DOMAIN s \ {k} : \E j \in DOMAIN t : old(j) = i
  <2> SUFFICES ASSUME NEW i \in DOMAIN s \ {k} PROVE \E j \in DOMAIN t : old(j) = i
    OBVIOUS
  <2>1. CASE i < k
    <3>1. i \in DOMAIN t /\ old(i) = i
      BY <2>1, <1>1, <1>2
    <3> QED BY <3>1
  <2>2. CASE ~(i < k)
    <3>1. i - 1 \in DOMAIN t /\ old(i - 1) = i
      BY <2>2, <1>1, <1>2
    <3> QED BY <3>1
  <2> QED BY <2>1, <2>2
<1> QED BY <1>1, <1>2, <1>3, <1>4, <1>5 DEF t

\* What is left keeps its order; a message of another reply changes nothing.
LEMMA RemoveKeeps ==
  ASSUME NEW c, NEW s \in Seq(Messages), NEW k \in 1..Len(s)
  PROVE  /\ Ascending(c, s) => Ascending(c, RemoveAt(s, k))
         /\ ~Mine(c, s[k]) => Underway(c, RemoveAt(s, k)) = Underway(c, s)
<1> DEFINE t == RemoveAt(s, k)
           old(i) == IF i < k THEN i ELSE i + 1
<1>1. /\ DOMAIN t = 1..Len(s)-1 /\ DOMAIN s = 1..Len(s) /\ Len(s) \in Nat
      /\ \A i \in DOMAIN t : old(i) \in DOMAIN s /\ old(i) # k /\ t[i] = s[old(i)]
      /\ \A i, j \in DOMAIN t : i < j => old(i) < old(j)
      /\ \A i \in DOMAIN s \ {k} : \E j \in DOMAIN t : old(j) = i
  BY Removed
<1> HIDE DEF t, old
<1>2. Ascending(c, s) => Ascending(c, t)
  BY <1>1 DEF Ascending
<1>3. ASSUME ~Mine(c, s[k]) PROVE Underway(c, t) = Underway(c, s)
  <2>1. ASSUME NEW n \in Underway(c, t) PROVE n \in Underway(c, s)
    BY <1>1, <2>1 DEF Underway
  <2>2. ASSUME NEW n \in Underway(c, s) PROVE n \in Underway(c, t)
    <3>1. PICK i \in DOMAIN s : Mine(c, s[i]) /\ n = Place(c, s[i])
      BY <2>2 DEF Underway
    <3>2. PICK j \in DOMAIN t : old(j) = i
      BY <3>1, <1>1, <1>3
    <3> QED BY <3>1, <3>2, <1>1 DEF Underway
  <2> QED BY <2>1, <2>2
<1> QED BY <1>2, <1>3 DEF t

\* The first message of the reply is the next in order.
LEMMA RemoveMine ==
  ASSUME NEW c \in Clients, NEW s \in Seq(Messages), NEW k \in 1..Len(s), Mine(c, s[k]),
         \A j \in 1..k-1 : ~Mine(c, s[j]),
         NEW lo \in Nat, NEW hi \in Nat,
         Underway(c, s) = (lo+1)..hi, Ascending(c, s)
  PROVE  /\ Place(c, s[k]) = lo + 1 /\ lo + 1 <= hi
         /\ Underway(c, RemoveAt(s, k)) = (lo+2)..hi
<1> DEFINE t == RemoveAt(s, k)
           old(i) == IF i < k THEN i ELSE i + 1
           p == Place(c, s[k])
<1>1. /\ DOMAIN t = 1..Len(s)-1 /\ DOMAIN s = 1..Len(s) /\ Len(s) \in Nat
      /\ \A i \in DOMAIN t : old(i) \in DOMAIN s /\ old(i) # k /\ t[i] = s[old(i)]
      /\ \A i \in DOMAIN s \ {k} : \E j \in DOMAIN t : old(j) = i
  BY Removed
<1> HIDE DEF t, old
<1>2. p \in (lo+1)..hi
  BY <1>1 DEF Underway
<1>3. \A i \in DOMAIN s : Mine(c, s[i]) /\ i # k => Place(c, s[i]) > p
  <2> SUFFICES ASSUME NEW i \in DOMAIN s, Mine(c, s[i]), i # k PROVE p < Place(c, s[i])
    <3>1. \A i \in DOMAIN s : Mine(c, s[i]) => Place(c, s[i]) \in (lo+1)..hi
      BY DEF Underway
    <3> QED BY <3>1, <1>2
  <2>1. ~(i \in 1..k-1)
    OBVIOUS
  <2>2. k < i
    BY <2>1, <1>1
  <2> QED BY <2>2, <1>1 DEF Ascending
<1>4. PICK i \in DOMAIN s : Mine(c, s[i]) /\ lo + 1 = Place(c, s[i])
  <2>1. lo + 1 \in (lo+1)..hi
    BY <1>2
  <2> QED BY <2>1 DEF Underway
<1>5. p = lo + 1
  <2> HIDE DEF p
  <2>1. CASE i = k
    BY <2>1, <1>4 DEF p
  <2>2. CASE i # k
    BY <2>2, <1>2, <1>3, <1>4
  <2> QED BY <2>1, <2>2
<1>6. Underway(c, t) = (lo+2)..hi
  <2>1. ASSUME NEW n \in Underway(c, t) PROVE n \in (lo+2)..hi
    <3>1. PICK j \in DOMAIN t : Mine(c, t[j]) /\ n = Place(c, t[j])
      BY <2>1 DEF Underway
    <3>2. old(j) \in DOMAIN s /\ old(j) # k /\ Mine(c, s[old(j)]) /\ n = Place(c, s[old(j)])
      BY <3>1, <1>1
    <3>3. n \in (lo+1)..hi
      BY <3>2 DEF Underway
    <3>4. n > lo + 1
      BY <3>2, <1>3, <1>5
    <3> QED BY <3>3, <3>4
  <2>2. ASSUME NEW n \in (lo+2)..hi PROVE n \in Underway(c, t)
    <3>1. n \in (lo+1)..hi /\ n # lo + 1
      OBVIOUS
    <3>2. PICK j \in DOMAIN s : Mine(c, s[j]) /\ n = Place(c, s[j])
      BY <3>1 DEF Underway
    <3>3. j # k
      BY <3>1, <3>2, <1>5
    <3>4. PICK h \in DOMAIN t : old(h) = j
      BY <3>3, <1>1
    <3> QED BY <3>2, <3>4, <1>1 DEF Underway
  <2> QED BY <2>1, <2>2
<1> QED BY <1>2, <1>5, <1>6 DEF t

-----------------------------------------------------------------------------
(* The channels in a step.                                                 *)

\* The queues, FIFOs and pipes.
Channels == Clients \cup {Server}

\* What is under way of the reply for c stays as it was, and in order.
Same(c) ==
  /\ Underway(c, chan[ReplyChan(c)])' = Underway(c, chan[ReplyChan(c)])
  /\ Ascending(c, chan[ReplyChan(c)]) => Ascending(c, chan[ReplyChan(c)])'

\* Every message in every channel is in its place after a step.
LEMMA ChanInvNext ==
  ASSUME UNCHANGED args,
         \A q \in DOMAIN chan' : \A i \in DOMAIN chan'[q] : MessageInv(q, chan'[q][i]),
         \A i, j \in DOMAIN chan'[Server] :
           chan'[Server][i].body[2] = -1 /\ chan'[Server][j].body = chan'[Server][i].body
             => i = j
  PROVE  ChanInv'
<1>1. ASSUME NEW q \in DOMAIN chan', NEW i \in DOMAIN chan'[q]
      PROVE  MessageInv(q, chan[q][i])'
  <2>1. MessageInv(q, chan'[q][i])
    OBVIOUS
  <2> QED BY <2>1 DEF MessageInv, ReplyChan, ReplyType, args
<1> QED BY <1>1 DEF ChanInv

\* The same holds if it is said of the channel in the next state.
LEMMA SameIs ==
  ASSUME UNCHANGED args, NEW c,
         Underway(c, chan'[ReplyChan(c)]) = Underway(c, chan[ReplyChan(c)]),
         Ascending(c, chan[ReplyChan(c)]) => Ascending(c, chan'[ReplyChan(c)])
  PROVE  Same(c)
<1>1. /\ Underway(c, chan[ReplyChan(c)])' = Underway(c, chan'[ReplyChan(c)])
      /\ Ascending(c, chan[ReplyChan(c)])' <=> Ascending(c, chan'[ReplyChan(c)])
  BY DEF Underway, Ascending, Place, ReplyChan, args
<1> QED BY <1>1 DEF Same

\* A reply has a channel.
LEMMA ReplyChanType == \A c \in Clients : ReplyChan(c) \in Channels
BY DEF ReplyChan, Channels

\* Nothing is sent or received.
LEMMA ChanUnchanged ==
  ASSUME ChanInv, UNCHANGED args, UNCHANGED chan
  PROVE  /\ ChanInv'
         /\ \A c : (Requested(c)' <=> Requested(c)) /\ Same(c)
<1>1. ChanInv'
  BY ChanInvNext DEF ChanInv
<1>2. ASSUME NEW c PROVE (Requested(c)' <=> Requested(c)) /\ Same(c)
  BY SameIs DEF Requested
<1> QED BY <1>1, <1>2

\* A message is sent.
LEMMA SendIs ==
  ASSUME TypesInv, ChanInv, UNCHANGED args, NEW q \in Channels,
         NEW type \in Clients \cup {Request}, NEW body \in Clients \X Int,
         MessageInv(q, [type |-> type, body |-> body]),
         mesg_send(q, type, body)
  PROVE  /\ chan' \in [Channels -> Seq(Messages)]
         /\ \A r \in Channels : Len(chan'[r]) <= cap
         /\ chan'[q] = Append(chan[q], [type |-> type, body |-> body])
         /\ \A r \in Channels \ {q} : chan'[r] = chan[r]
         /\ \A r \in DOMAIN chan' : \A i \in DOMAIN chan'[r] : MessageInv(r, chan'[r][i])
         /\ \A c \in Clients : ~Mine(c, [type |-> type, body |-> body]) => Same(c)
<1> DEFINE m == [type |-> type, body |-> body]
<1>1. /\ chan \in [Channels -> Seq(Messages)] /\ m \in Messages
      /\ cap \in Nat /\ \A r \in Channels : Len(chan[r]) <= cap
  BY DEF TypesInv, TypeOK, Channels, Messages
<1>2. Len(chan[q]) < cap /\ chan' = [chan EXCEPT ![q] = Append(@, m)]
  BY DEF mesg_send
<1> HIDE DEF m
<1>3. /\ chan'[q] = Append(chan[q], m)
      /\ \A r \in Channels \ {q} : chan'[r] = chan[r]
      /\ DOMAIN chan' = Channels
  BY <1>1, <1>2
<1>4. chan' \in [Channels -> Seq(Messages)]
  BY <1>1, <1>2
<1>5. Len(chan'[q]) = Len(chan[q]) + 1 /\ Len(chan[q]) \in Nat
  BY <1>1, <1>3
<1>6. \A r \in Channels : Len(chan'[r]) <= cap
  BY <1>1, <1>2, <1>3, <1>5
<1>7. ASSUME NEW r \in DOMAIN chan', NEW i \in DOMAIN chan'[r]
      PROVE  MessageInv(r, chan'[r][i])
  <2>1. CASE r # q
    BY <2>1, <1>1, <1>3 DEF ChanInv
  <2>2. CASE r = q
    <3>1. i \in 1..Len(chan[q]) + 1
      BY <2>2, <1>1, <1>3, <1>5
    <3>2. CASE i = Len(chan[q]) + 1
      <4>1. chan'[q][i] = m
        BY <3>2, <1>1, <1>3
      <4> QED BY <4>1, <2>2 DEF m
    <3>3. CASE i # Len(chan[q]) + 1
      <4>1. i \in DOMAIN chan[q] /\ chan'[q][i] = chan[q][i]
        BY <3>1, <3>3, <1>1, <1>3
      <4> QED BY <4>1, <2>2, <1>1 DEF ChanInv
    <3> QED BY <3>2, <3>3
  <2> QED BY <2>1, <2>2
<1>9. ASSUME NEW c \in Clients, ~Mine(c, m) PROVE Same(c)
  <2> DEFINE s == chan[ReplyChan(c)]
  <2>1. s \in Seq(Messages) /\ (chan'[ReplyChan(c)] = s \/ chan'[ReplyChan(c)] = Append(s, m))
    BY ReplyChanType, <1>1, <1>3
  <2> HIDE DEF s
  <2>2. /\ Underway(c, chan'[ReplyChan(c)]) = Underway(c, s)
        /\ Ascending(c, s) => Ascending(c, chan'[ReplyChan(c)])
    BY <2>1, <1>1, <1>9, AppendOther
  <2> QED BY <2>2, SameIs DEF s
<1> QED BY <1>3, <1>4, <1>6, <1>7, <1>9 DEF m

\* A client sends its request, which it has not done before.
LEMMA SendRequest ==
  ASSUME TypesInv, ChanInv, UNCHANGED args, NEW c \in Clients, ~Requested(c),
         mesg_send(Server, Request, Pathname(c))
  PROVE  /\ chan' \in [Channels -> Seq(Messages)]
         /\ \A r \in Channels : Len(chan'[r]) <= cap
         /\ ChanInv'
         /\ \A d \in Clients : Requested(d)' <=> Requested(d) \/ d = c
         /\ \A d \in Clients : Same(d)
<1> DEFINE m == [type |-> Request, body |-> Pathname(c)]
<1>1. /\ Pathname(c) \in Clients \X Int /\ MessageInv(Server, m)
      /\ m.body[1] = c /\ m.body[2] = -1 /\ m.body = Pathname(c)
      /\ \A d \in Clients : ~Mine(d, m)
  BY DEF Pathname, MessageInv, Mine
<1>2. /\ chan' \in [Channels -> Seq(Messages)]
      /\ \A r \in Channels : Len(chan'[r]) <= cap
      /\ chan'[Server] = Append(chan[Server], m)
      /\ \A r \in DOMAIN chan' : \A i \in DOMAIN chan'[r] : MessageInv(r, chan'[r][i])
      /\ \A d \in Clients : Same(d)
  <2>1. Server \in Channels /\ Request \in Clients \cup {Request}
    BY DEF Channels
  <2> HIDE DEF m
  <2> QED BY <1>1, <2>1, SendIs DEF m
<1>3. chan[Server] \in Seq(Messages)
  BY DEF TypesInv
<1> HIDE DEF m
<1>4. /\ DOMAIN chan'[Server] = 1..Len(chan[Server])+1 /\ Len(chan[Server]) \in Nat
      /\ DOMAIN chan[Server] = 1..Len(chan[Server])
      /\ \A i \in 1..Len(chan[Server]) : chan'[Server][i] = chan[Server][i]
      /\ chan'[Server][Len(chan[Server])+1] = m
  BY <1>2, <1>3
<1>5. \A d \in Clients : Requested(d)' <=> Requested(d) \/ d = c
  <2>1. \A d \in Clients : Pathname(d) = m.body <=> d = c
    BY <1>1 DEF Pathname
  <2>2. \A d \in Clients : Requested(d)' <=> \E i \in DOMAIN chan'[Server] :
                                                 chan'[Server][i].body = Pathname(d)
    BY DEF Requested, Pathname
  <2>3. ASSUME NEW d \in Clients PROVE Requested(d)' <=> Requested(d) \/ d = c
    <3>1. ASSUME Requested(d)' PROVE Requested(d) \/ d = c
      <4>1. PICK i \in DOMAIN chan'[Server] : chan'[Server][i].body = Pathname(d)
        BY <2>2, <3>1
      <4>2. CASE i = Len(chan[Server]) + 1
        BY <4>1, <4>2, <1>4, <2>1
      <4>3. CASE i # Len(chan[Server]) + 1
        <5>1. i \in DOMAIN chan[Server]
          BY <4>3, <1>4
        <5> QED BY <5>1, <4>1, <1>4 DEF Requested
      <4> QED BY <4>2, <4>3
    <3>2. ASSUME Requested(d) PROVE Requested(d)'
      <4>1. PICK i \in DOMAIN chan[Server] : chan[Server][i].body = Pathname(d)
        BY <3>2 DEF Requested
      <4>2. i \in DOMAIN chan'[Server] /\ chan'[Server][i].body = Pathname(d)
        BY <4>1, <1>4
      <4> QED BY <4>2, <2>2
    <3>3. ASSUME d = c PROVE Requested(d)'
      <4>1. Len(chan[Server]) + 1 \in DOMAIN chan'[Server]
        BY <1>4
      <4> QED BY <4>1, <3>3, <1>4, <2>1, <2>2
    <3> QED BY <3>1, <3>2, <3>3
  <2> QED BY <2>3
<1>6. ASSUME NEW i \in DOMAIN chan'[Server], NEW j \in DOMAIN chan'[Server],
             chan'[Server][i].body[2] = -1, chan'[Server][j].body = chan'[Server][i].body
      PROVE  i = j
  <2>1. \A k \in DOMAIN chan[Server] : chan[Server][k].body # m.body
    BY <1>1 DEF Requested
  <2>2. CASE i = Len(chan[Server]) + 1 /\ j # Len(chan[Server]) + 1
    BY <2>1, <2>2, <1>4, <1>6
  <2>3. CASE j = Len(chan[Server]) + 1 /\ i # Len(chan[Server]) + 1
    BY <2>1, <2>3, <1>4, <1>6
  <2>4. CASE j # Len(chan[Server]) + 1 /\ i # Len(chan[Server]) + 1
    BY <2>4, <1>4, <1>6 DEF ChanInv
  <2> QED BY <2>2, <2>3, <2>4
<1>7. ChanInv'
  <2>1. \A i, j \in DOMAIN chan'[Server] :
          chan'[Server][i].body[2] = -1 /\ chan'[Server][j].body = chan'[Server][i].body
             => i = j
    BY <1>6
  <2> QED BY <1>2, <2>1, ChanInvNext
<1> QED BY <1>2, <1>5, <1>7

\* A message of the reply for c is sent.
LEMMA SendReply ==
  ASSUME TypesInv, ChanInv, UNCHANGED args, NEW c \in Clients, NEW n \in 0..file[c],
         mesg_send(ReplyChan(c), ReplyType(c), <<c, n>>)
  PROVE  /\ chan' \in [Channels -> Seq(Messages)]
         /\ \A r \in Channels : Len(chan'[r]) <= cap
         /\ ChanInv'
         /\ \A d \in Clients : Requested(d)' <=> Requested(d)
         /\ \A d \in Clients \ {c} : Same(d)
         /\ chan'[ReplyChan(c)] = Append(chan[ReplyChan(c)],
                                         [type |-> ReplyType(c), body |-> <<c, n>>])
         /\ Mine(c, [type |-> ReplyType(c), body |-> <<c, n>>])
<1> DEFINE m == [type |-> ReplyType(c), body |-> <<c, n>>]
           q == ReplyChan(c)
<1>1. /\ n \in Nat /\ <<c, n>> \in Clients \X Int /\ MessageInv(q, m)
      /\ m.body[1] = c /\ m.body[2] = n
      /\ \A d \in Clients : Mine(d, m) <=> d = c
      /\ q \in Channels /\ ReplyType(c) \in Clients \cup {Request}
  <2>1. file[c] \in Nat
    BY FileServersAssumption DEF TypesInv
  <2> QED BY <2>1, ReplyChanType DEF MessageInv, Mine, ReplyType
<1>2. /\ chan' \in [Channels -> Seq(Messages)]
      /\ \A r \in Channels : Len(chan'[r]) <= cap
      /\ chan'[q] = Append(chan[q], m)
      /\ \A r \in Channels \ {q} : chan'[r] = chan[r]
      /\ \A r \in DOMAIN chan' : \A i \in DOMAIN chan'[r] : MessageInv(r, chan'[r][i])
      /\ \A d \in Clients : ~Mine(d, m) => Same(d)
  <2> HIDE DEF m, q
  <2> QED BY <1>1, SendIs DEF m, q
<1>3. chan[q] \in Seq(Messages) /\ chan[Server] \in Seq(Messages) /\ Server \in Channels
  BY <1>1 DEF TypesInv, Channels
<1> HIDE DEF m, q
<1>4. /\ DOMAIN chan[Server] \subseteq DOMAIN chan'[Server]
      /\ \A i \in DOMAIN chan[Server] : chan'[Server][i] = chan[Server][i]
      /\ \A i \in DOMAIN chan'[Server] \ DOMAIN chan[Server] : chan'[Server][i] = m
  <2>1. CASE q = Server
    BY <2>1, <1>2, <1>3
  <2>2. CASE q # Server
    BY <2>2, <1>2, <1>3
  <2> QED BY <2>1, <2>2
<1>5. ASSUME NEW d \in Clients PROVE Requested(d)' <=> Requested(d)
  <2>1. Requested(d)' <=> \E i \in DOMAIN chan'[Server] : chan'[Server][i].body = Pathname(d)
    BY DEF Requested, Pathname
  <2>2. m.body # Pathname(d)
    <3>1. Pathname(d)[2] = -1 /\ -1 # n
      BY <1>1 DEF Pathname
    <3> QED BY <3>1, <1>1
  <2>3. Requested(d) => Requested(d)'
    BY <2>1, <1>4 DEF Requested
  <2>4. ASSUME Requested(d)' PROVE Requested(d)
    <3>1. PICK i \in DOMAIN chan'[Server] : chan'[Server][i].body = Pathname(d)
      BY <2>1, <2>4
    <3>2. i \in DOMAIN chan[Server]
      BY <3>1, <2>2, <1>4
    <3> QED BY <3>1, <3>2, <1>4 DEF Requested
  <2> QED BY <2>3, <2>4
<1>6. ASSUME NEW i \in DOMAIN chan'[Server], NEW j \in DOMAIN chan'[Server],
             chan'[Server][i].body[2] = -1, chan'[Server][j].body = chan'[Server][i].body
      PROVE  i = j
  <2>1. m.body[2] # -1
    BY <1>1
  <2>2. i \in DOMAIN chan[Server] /\ j \in DOMAIN chan[Server]
    BY <2>1, <1>4, <1>6
  <2> QED BY <2>2, <1>4, <1>6 DEF ChanInv
<1>7. ChanInv'
  <2>1. \A i, j \in DOMAIN chan'[Server] :
          chan'[Server][i].body[2] = -1 /\ chan'[Server][j].body = chan'[Server][i].body
             => i = j
    BY <1>6
  <2> QED BY <1>2, <2>1, ChanInvNext
<1>8. Mine(c, m)
  BY <1>1
<1>9. \A d \in Clients \ {c} : Same(d)
  BY <1>1, <1>2
<1> QED BY <1>2, <1>5, <1>7, <1>8, <1>9 DEF m, q

\* The message at k is received.
LEMMA RecvKeeps ==
  ASSUME TypesInv, ChanInv, UNCHANGED args, NEW q \in Channels, NEW k \in 1..Len(chan[q]),
         chan' = [chan EXCEPT ![q] = RemoveAt(chan[q], k)]
  PROVE  /\ chan' \in [Channels -> Seq(Messages)]
         /\ \A r \in Channels : Len(chan'[r]) <= cap
         /\ ChanInv'
         /\ \A c \in Clients : Requested(c)' => Requested(c)
         /\ \A c \in Clients :
              q = Server /\ chan[q][k].body = Pathname(c) => Requested(c) /\ ~Requested(c)'
         /\ \A c \in Clients : ~Mine(c, chan[q][k]) => Same(c)
         /\ chan'[q] = RemoveAt(chan[q], k)
<1> DEFINE s == chan[q]
           t == RemoveAt(chan[q], k)
           old(i) == IF i < k THEN i ELSE i + 1
<1>1. /\ chan \in [Channels -> Seq(Messages)] /\ s \in Seq(Messages)
      /\ cap \in Nat /\ \A r \in Channels : Len(chan[r]) <= cap /\ Len(chan[r]) \in Nat
      /\ Server \in Channels
  BY DEF TypesInv, TypeOK, Channels
<1>2. /\ t \in Seq(Messages) /\ Len(t) = Len(s) - 1
      /\ DOMAIN t = 1..Len(s)-1 /\ DOMAIN s = 1..Len(s) /\ Len(s) \in Nat
      /\ \A i \in DOMAIN t : old(i) \in DOMAIN s /\ old(i) # k /\ t[i] = s[old(i)]
      /\ \A i, j \in DOMAIN t : i < j => old(i) < old(j)
  BY <1>1, Removed
<1>3. /\ chan'[q] = t /\ \A r \in Channels \ {q} : chan'[r] = chan[r]
      /\ DOMAIN chan' = Channels /\ chan' \in [Channels -> Seq(Messages)]
  BY <1>1, <1>2
<1> HIDE DEF t, old
<1>4. \A r \in Channels : Len(chan'[r]) <= cap
  <2>1. Len(t) <= cap
    BY <1>1, <1>2
  <2> QED BY <2>1, <1>1, <1>3
<1>5. \A r \in DOMAIN chan' : \A i \in DOMAIN chan'[r] :
        \E j \in DOMAIN chan[r] : chan'[r][i] = chan[r][j]
  <2> SUFFICES ASSUME NEW r \in DOMAIN chan', NEW i \in DOMAIN chan'[r]
               PROVE  \E j \in DOMAIN chan[r] : chan'[r][i] = chan[r][j]
    OBVIOUS
  <2>1. CASE r = q
    <3>1. i \in DOMAIN t /\ chan'[r][i] = s[old(i)] /\ old(i) \in DOMAIN s
      BY <2>1, <1>2, <1>3
    <3> QED BY <2>1, <3>1
  <2>2. CASE r # q
    BY <2>2, <1>3
  <2> QED BY <2>1, <2>2
<1>6. ASSUME NEW r \in DOMAIN chan', NEW i \in DOMAIN chan'[r]
      PROVE  MessageInv(r, chan'[r][i])
  <2>1. PICK j \in DOMAIN chan[r] : chan'[r][i] = chan[r][j]
    BY <1>5
  <2> QED BY <2>1, <1>1, <1>3 DEF ChanInv
<1>7. ASSUME NEW i \in DOMAIN chan'[Server], NEW j \in DOMAIN chan'[Server],
             chan'[Server][i].body[2] = -1, chan'[Server][j].body = chan'[Server][i].body
      PROVE  i = j
  <2>1. CASE q = Server
    <3>1. /\ i \in DOMAIN t /\ j \in DOMAIN t
          /\ chan'[Server][i] = s[old(i)] /\ chan'[Server][j] = s[old(j)]
          /\ old(i) \in DOMAIN s /\ old(j) \in DOMAIN s
      BY <2>1, <1>2, <1>3
    <3>2. old(i) = old(j)
      BY <3>1, <2>1, <1>7 DEF ChanInv
    <3>3. i \in Nat /\ j \in Nat
      BY <3>1, <1>2
    <3> QED BY <3>1, <3>2, <3>3, <1>2
  <2>2. CASE q # Server
    BY <2>2, <1>1, <1>3, <1>7 DEF ChanInv
  <2> QED BY <2>1, <2>2
<1>8. ChanInv'
  <2>1. \A i, j \in DOMAIN chan'[Server] :
          chan'[Server][i].body[2] = -1 /\ chan'[Server][j].body = chan'[Server][i].body
             => i = j
    BY <1>7
  <2> QED BY <1>6, <2>1, ChanInvNext
<1>9. \A c : Requested(c)' <=> \E i \in DOMAIN chan'[Server] :
                                  chan'[Server][i].body = Pathname(c)
  BY DEF Requested, Pathname
<1>10. ASSUME NEW c \in Clients, Requested(c)' PROVE Requested(c)
  <2>1. PICK i \in DOMAIN chan'[Server] : chan'[Server][i].body = Pathname(c)
    BY <1>9, <1>10
  <2>2. PICK j \in DOMAIN chan[Server] : chan'[Server][i] = chan[Server][j]
    BY <1>1, <1>3, <1>5
  <2> QED BY <2>1, <2>2 DEF Requested
<1>11. ASSUME NEW c \in Clients, q = Server, s[k].body = Pathname(c)
       PROVE  Requested(c) /\ ~Requested(c)'
  <2>1. Requested(c)
    BY <1>11, <1>2 DEF Requested
  <2>2. SUFFICES ASSUME NEW i \in DOMAIN chan'[Server], chan'[Server][i].body = Pathname(c)
                 PROVE  FALSE
    BY <2>1, <1>9
  <2>3. old(i) \in DOMAIN s /\ old(i) # k /\ s[old(i)].body = Pathname(c)
    BY <2>2, <1>2, <1>3, <1>11
  <2>4. s[k].body[2] = -1
    BY <1>11 DEF Pathname
  <2> QED BY <2>3, <2>4, <1>2, <1>11 DEF ChanInv
<1>12. ASSUME NEW c \in Clients, ~Mine(c, s[k]) PROVE Same(c)
  <2>1. CASE ReplyChan(c) = q
    <3>1. /\ Underway(c, t) = Underway(c, s)
          /\ Ascending(c, s) => Ascending(c, t)
      BY <1>1, <1>12, RemoveKeeps DEF t
    <3> QED BY <3>1, <2>1, <1>3, SameIs
  <2>2. CASE ReplyChan(c) # q
    BY <2>2, <1>3, ReplyChanType, SameIs
  <2> QED BY <2>1, <2>2
<1> QED BY <1>3, <1>4, <1>8, <1>10, <1>11, <1>12 DEF t

-----------------------------------------------------------------------------
(* What each step has to show.                                             *)

\* Where a client is.
Places == {"open_first", "open", "ask", "read", "done", "dead", "absent"}

\* The types, in the form in which the steps use them.
LEMMA TypesAre ==
  ASSUME TypesInv
  PROVE  /\ prog \in OneClient \cup ManyClients /\ cap \in Nat
         /\ file \in [Clients -> 0..MaxBlocks] /\ \A c \in Clients : file[c] \in Nat
         /\ chan \in [Channels -> Seq(Messages)]
         /\ \A q \in Channels : Len(chan[q]) <= cap
         /\ pc \in [Clients -> Places] /\ serving \in [Clients -> -2 .. MaxBlocks + 1]
         /\ got \in [Clients -> Seq(Clients \X Int)]
         /\ up \in BOOLEAN /\ zombies \in Nat /\ sigchld \in BOOLEAN
         /\ IsFiniteSet(Clients) /\ Cardinality(Clients) \in Nat /\ MaxBlocks \in Nat
<1>1. IsFiniteSet(Clients) /\ Cardinality(Clients) \in Nat /\ MaxBlocks \in Nat
  BY FS_CardinalityType, FileServersAssumption
<1>2. /\ file \in [Clients -> 0..MaxBlocks] /\ zombies \in Nat
      /\ \A c \in Clients : file[c] \in Nat
  BY <1>1 DEF TypesInv, TypeOK
<1> QED BY <1>1, <1>2 DEF TypesInv, TypeOK, Channels, Places

\* The types in the next state.
LEMMA TypesNext ==
  ASSUME TypesInv, UNCHANGED args,
         \/ UNCHANGED chan
         \/ /\ chan' \in [Channels -> Seq(Messages)]
            /\ \A q \in Channels : Len(chan'[q]) <= cap,
         pc' \in [Clients -> Places], serving' \in [Clients -> -2 .. MaxBlocks + 1],
         got' \in [Clients -> Seq(Clients \X Int)],
         up' \in BOOLEAN, zombies' \in 0..Cardinality(Clients), sigchld' \in BOOLEAN,
         prog \in OneClient => \A c \in Clients :
           pc[c] = "absent" /\ serving[c] = NotServed
             => pc'[c] = "absent" /\ serving'[c] = NotServed
  PROVE  TypesInv'
<1>1. /\ chan' \in [Channels -> Seq(Messages)] /\ \A q \in Channels : Len(chan'[q]) <= cap
      /\ prog' = prog /\ cap' = cap /\ file' = file
  BY TypesAre DEF args
<1>2. TypeOK'
  <2>1. DOMAIN chan' = Channels
    BY <1>1
  <2> QED BY <1>1, <2>1 DEF TypeOK, Places
<1>3. prog' \in OneClient => \E one \in Clients : \A c \in Clients \ {one} :
        pc'[c] = "absent" /\ serving'[c] = NotServed
  BY <1>1 DEF TypesInv
<1>4. chan' \in [Clients \cup {Server} -> Seq(Messages)]
  BY <1>1 DEF Channels
<1>5. /\ prog' \in OneClient \cup ManyClients
      /\ cap' \in Nat /\ file' \in [Clients -> 0..MaxBlocks]
  BY <1>1, TypesAre
<1>6. NotServed' = NotServed /\ Messages' = Messages /\ OneClient' = OneClient
      /\ ManyClients' = ManyClients /\ Server' = Server
  BY DEF NotServed, Messages, OneClient, ManyClients, Server, Request
<1> QED BY <1>2, <1>3, <1>4, <1>5, <1>6 DEF TypesInv

\* The reply for c, when nothing of it is sent or read.
LEMMA KeepAnswered ==
  ASSUME UNCHANGED args, NEW c \in Clients, NEW k \in 0 .. file[c] + 1, Answered(c, k),
         Same(c), got'[c] = got[c],
         Unanswered(c)' => k = 0,
         serving'[c] > 0 => serving'[c] = k + 1 /\ k <= file[c],
         Closed(c)' => k = file[c]
  PROVE  \E h \in 0 .. file'[c] + 1 : Answered(c, h)'
<1>1. file' = file
  BY DEF args
<1>2. Answered(c, k)'
  BY <1>1 DEF Answered, Same
<1> QED BY <1>1, <1>2

\* A client that a step of another one leaves alone.
LEMMA OtherClient ==
  ASSUME UNCHANGED args, NEW c \in Clients, ClientInv(c), Same(c),
         got'[c] = got[c], pc'[c] = pc[c], serving'[c] = serving[c],
         Requested(c)' => Requested(c),
         prog \in OneClient => up' = up \/ pc[c] = "absent"
  PROVE  ClientInv(c)'
<1>1. PICK k \in 0 .. file[c] + 1 : Answered(c, k)
  BY DEF ClientInv
<1>2. prog' = prog /\ file' = file
  BY DEF args
<1>3. \E h \in 0 .. file'[c] + 1 : Answered(c, h)'
  <2>1. Unanswered(c)' => Unanswered(c)
    BY DEF Unanswered
  <2>2. Closed(c)' => Closed(c)
    BY <1>2 DEF Closed
  <2> QED BY <1>1, <2>1, <2>2, KeepAnswered DEF Answered
<1>4. RequestInv(c)'
  BY DEF ClientInv, RequestInv
<1>5. Opens(c)'
  BY <1>2 DEF ClientInv, Opens
<1>6. Own(c)'
  BY <1>2 DEF ClientInv, Own
<1> QED BY <1>3, <1>4, <1>5, <1>6 DEF ClientInv

\* No client is to be served that was not before.
LEMMA ChildrenKept ==
  ASSUME TypesInv, ChildrenInv, Unended' \subseteq Unended, zombies' \in Nat,
         zombies' <= zombies
  PROVE  ChildrenInv'
<1> DEFINE n == Cardinality(Unended)
           m == Cardinality(Unended')
<1>1. n \in Nat /\ m \in Nat /\ m <= n /\ Cardinality(Clients) \in Nat /\ zombies \in Nat
  <2>1. IsFiniteSet(Unended) /\ IsFiniteSet(Unended')
    <3>1. Unended \subseteq Clients
      BY DEF Unended
    <3> QED BY <3>1, TypesAre, FS_Subset
  <2> QED BY <2>1, TypesAre, FS_CardinalityType, FS_Subset
<1>2. zombies + n <= Cardinality(Clients)
  BY DEF ChildrenInv
<1> HIDE DEF n, m
<1> DEFINE z == zombies'
<1>3. z \in Nat /\ z <= zombies
  OBVIOUS
<1> HIDE DEF z
<1>4. z + m <= Cardinality(Clients)
  BY <1>1, <1>2, <1>3
<1> QED BY <1>4 DEF z, m, ChildrenInv

\* There are no more children to wait for than clients.
LEMMA ZombiesBound ==
  ASSUME TypesInv, ChildrenInv
  PROVE  zombies \in 0..Cardinality(Clients)
BY DEF TypesInv, TypeOK

\* In a program with one client nobody else takes part.
LEMMA OneIs ==
  ASSUME TypesInv, NEW c \in Clients, NEW d \in Clients \ {c}, prog \in OneClient,
         pc[c] # "absent" \/ serving[c] # NotServed
  PROVE  pc[d] = "absent" /\ serving[d] = NotServed
BY DEF TypesInv

\* A step that concerns the client c alone keeps the invariant if it keeps what
\* the invariant says of c.
LEMMA StepOf ==
  ASSUME IInv, UNCHANGED args, NEW c \in Clients,
         \/ UNCHANGED chan
         \/ /\ chan' \in [Channels -> Seq(Messages)]
            /\ \A q \in Channels : Len(chan'[q]) <= cap
            /\ ChanInv'
            /\ \A d \in Clients \ {c} : Same(d) /\ (Requested(d)' => Requested(d)),
         pc' \in [Clients -> Places], serving' \in [Clients -> -2 .. MaxBlocks + 1],
         got' \in [Clients -> Seq(Clients \X Int)], up' \in BOOLEAN,
         \A d \in Clients \ {c} :
           pc'[d] = pc[d] /\ serving'[d] = serving[d] /\ got'[d] = got[d],
         pc[c] # "absent" \/ serving[c] # NotServed,
         ClientInv(c)',
         (pc[c] = "ask" \/ Requested(c) \/ serving[c] # NotServed)
           \/ ~(pc'[c] = "ask" \/ Requested(c)' \/ serving'[c] # NotServed),
         \/ UNCHANGED children
         \/ /\ zombies' = zombies + 1 /\ sigchld' = TRUE
            /\ serving[c] # NotServed
            /\ ~(pc'[c] = "ask" \/ Requested(c)' \/ serving'[c] # NotServed)
  PROVE  IInv'
<1>1. /\ TypesInv /\ ChanInv /\ ChildrenInv /\ ZombiesReaped
      /\ \A d \in Clients : ClientInv(d)
  BY DEF IInv
<1>2. ChanInv' /\ \A d \in Clients \ {c} : Same(d) /\ (Requested(d)' => Requested(d))
  <2>1. CASE UNCHANGED chan
    BY <2>1, <1>1, ChanUnchanged
  <2>2. CASE ~ UNCHANGED chan
    BY <2>2
  <2> QED BY <2>1, <2>2
<1>3. ASSUME NEW d \in Clients PROVE ClientInv(d)'
  <2>1. CASE d # c
    <3>1. prog \in OneClient => pc[d] = "absent"
      BY <2>1, <1>1, OneIs
    <3> QED BY <3>1, <2>1, <1>1, <1>2, OtherClient
  <2> QED BY <2>1
<1>4. Unended' \subseteq Unended
  BY <1>2 DEF Unended
<1>5. ChildrenInv' /\ ZombiesReaped' /\ zombies' \in 0..Cardinality(Clients)
      /\ sigchld' \in BOOLEAN
  <2>1. CASE UNCHANGED children
    <3>1. zombies' = zombies /\ sigchld' = sigchld
      BY <2>1 DEF children
    <3>2. zombies \in 0..Cardinality(Clients) /\ zombies <= zombies /\ zombies \in Nat
      BY <1>1, TypesAre, ZombiesBound
    <3> QED BY <3>1, <3>2, <1>1, <1>4, TypesAre, ChildrenKept DEF ZombiesReaped
  <2>2. CASE ~ UNCHANGED children
    <3>1. zombies' = zombies + 1 /\ sigchld' = TRUE /\ c \in Unended /\ c \notin Unended'
      BY <2>2 DEF Unended
    <3> DEFINE n == Cardinality(Unended)
               m == Cardinality(Unended')
               h == Cardinality(Clients)
    <3>2. n \in Nat /\ m \in Nat /\ m + 1 <= n /\ h \in Nat /\ zombies \in Nat
      <4>1. IsFiniteSet(Unended) /\ IsFiniteSet(Unended') /\ IsFiniteSet(Unended \ {c})
        <5>1. Unended \subseteq Clients
          BY DEF Unended
        <5> QED BY <5>1, <1>1, <1>4, TypesAre, FS_Subset
      <4>2. Unended' \subseteq Unended \ {c}
        BY <1>4, <3>1
      <4>3. Cardinality(Unended \ {c}) = n - 1 /\ m <= Cardinality(Unended \ {c})
        BY <4>1, <4>2, <3>1, FS_Subset, FS_RemoveElement
      <4>4. n \in Nat /\ m \in Nat /\ h \in Nat /\ zombies \in Nat
        BY <4>1, <1>1, TypesAre, FS_CardinalityType
      <4> HIDE DEF n, m, h
      <4> QED BY <4>3, <4>4
    <3>3. zombies + n <= h
      BY <1>1 DEF ChildrenInv
    <3> HIDE DEF n, m, h
    <3>4. zombies + 1 + m <= h /\ zombies + 1 \in 0..h
      BY <3>2, <3>3
    <3> QED BY <3>1, <3>4 DEF n, m, h, ChildrenInv, ZombiesReaped
  <2> QED BY <2>1, <2>2
<1>6. TypesInv'
  BY <1>1, <1>5, TypesNext
<1> QED BY <1>1, <1>2, <1>3, <1>5, <1>6 DEF IInv

-----------------------------------------------------------------------------
(* The steps of a client.                                                  *)

\* The programs with many clients are others.
LEMMA Progs ==
  /\ "fifoclieser" \notin OneClient /\ "svmsgcliserv" \notin OneClient
  /\ "svmsgmpxnq" \notin OneClient
BY DEF OneClient

\* The request goes out once: only a client that has not asked is at "ask".
LEMMA AskInv ==
  ASSUME IInv, UNCHANGED args, NEW c \in Clients, client_ask(c)
  PROVE  IInv'
<1> DEFINE to == IF prog = "fifoclieser" THEN "open" ELSE "read"
<1>1. TypesInv /\ ChanInv /\ ClientInv(c) /\ RequestInv(c)
  BY DEF IInv, ClientInv
<1>2. /\ pc[c] = "ask" /\ mesg_send(Server, Request, Pathname(c))
      /\ pc' = [pc EXCEPT ![c] = to]
      /\ UNCHANGED <<got, serving, up, children>> /\ ~Requested(c)
  BY <1>1 DEF client_ask, RequestInv
<1>3. /\ chan' \in [Channels -> Seq(Messages)]
      /\ \A r \in Channels : Len(chan'[r]) <= cap
      /\ ChanInv'
      /\ \A d \in Clients : Requested(d)' <=> Requested(d) \/ d = c
      /\ \A d \in Clients : Same(d)
  BY <1>1, <1>2, SendRequest
<1>4. pc' \in [Clients -> Places] /\ pc'[c] = to /\ \A d \in Clients \ {c} : pc'[d] = pc[d]
  BY <1>1, <1>2, TypesAre DEF Places
<1>5. PICK k \in 0 .. file[c] + 1 : Answered(c, k)
  BY <1>1 DEF ClientInv
<1>6. k = 0 /\ serving[c] = NotServed /\ ~(prog \in OneClient /\ ~up)
  BY <1>5, <1>1, <1>2 DEF Answered, Unanswered, RequestInv, ClientInv, Opens
<1>7. prog' = prog /\ file' = file /\ serving' = serving /\ got' = got /\ up' = up
  BY <1>2 DEF args
<1>8. \E h \in 0 .. file'[c] + 1 : Answered(c, h)'
  <2>1. ~Closed(c)'
    BY <1>6, <1>7, <1>4 DEF Closed
  <2>2. ~(serving'[c] > 0)
    BY <1>6, <1>7 DEF NotServed
  <2> QED BY <1>5, <1>6, <1>7, <2>1, <2>2, <1>3, KeepAnswered
<1>9. ClientInv(c)'
  <2>1. RequestInv(c)'
    BY <1>6, <1>7, <1>4 DEF RequestInv, NotServed
  <2>2. Opens(c)'
    BY <1>6, <1>7, <1>4, Progs DEF Opens
  <2>3. Own(c)'
    BY <1>1, <1>7, <1>4 DEF ClientInv, Own
  <2> QED BY <1>8, <2>1, <2>2, <2>3 DEF ClientInv
<1> QED BY <1>1, <1>2, <1>3, <1>4, <1>7, <1>9, TypesAre, StepOf

\* FIFO1 is open: the server goes on to the FIFO of the replies.
LEMMA OpenFirstInv ==
  ASSUME IInv, UNCHANGED args, NEW c \in Clients, FifoOpenFirst(c)
  PROVE  IInv'
<1>1. TypesInv /\ ChanInv /\ ClientInv(c) /\ RequestInv(c) /\ Opens(c)
  BY DEF IInv, ClientInv
<1>2. /\ pc[c] = "open_first" /\ serving[c] = OpeningFirst
      /\ pc' = [pc EXCEPT ![c] = "open"] /\ serving' = [serving EXCEPT ![c] = Opening]
      /\ UNCHANGED <<chan, got, up, children>>
  BY DEF FifoOpenFirst
<1>3. /\ pc' \in [Clients -> Places] /\ serving' \in [Clients -> -2 .. MaxBlocks + 1]
      /\ pc'[c] = "open" /\ serving'[c] = Opening
      /\ \A d \in Clients \ {c} : pc'[d] = pc[d] /\ serving'[d] = serving[d]
  BY <1>1, <1>2, TypesAre DEF Places, Opening
<1>4. (Requested(c)' <=> Requested(c)) /\ Same(c) /\ ~Requested(c)
  BY <1>1, <1>2, ChanUnchanged DEF RequestInv, OpeningFirst, NotServed
<1>5. PICK k \in 0 .. file[c] + 1 : Answered(c, k)
  BY <1>1 DEF ClientInv
<1>6. k = 0
  BY <1>2, <1>5 DEF Answered, Unanswered
<1>7. prog' = prog /\ file' = file /\ got' = got /\ up' = up
  BY <1>2 DEF args
<1>8. \E h \in 0 .. file'[c] + 1 : Answered(c, h)'
  <2>1. ~Closed(c)'
    BY <1>3 DEF Closed
  <2>2. ~(serving'[c] > 0)
    BY <1>3 DEF Opening
  <2> QED BY <1>5, <1>6, <1>7, <2>1, <2>2, <1>4, KeepAnswered
<1>9. ClientInv(c)'
  <2>1. RequestInv(c)'
    BY <1>3, <1>4 DEF RequestInv, NotServed
  <2>2. Opens(c)'
    BY <1>1, <1>2, <1>3, <1>7 DEF Opens
  <2>3. Own(c)'
    BY <1>1, <1>3, <1>7 DEF ClientInv, Own
  <2> QED BY <1>8, <2>1, <2>2, <2>3 DEF ClientInv
<1>10. serving[c] # NotServed
  BY <1>2 DEF OpeningFirst, NotServed
<1> QED BY <1>1, <1>2, <1>3, <1>7, <1>9, <1>10, TypesAre, StepOf

\* The FIFO of the replies is open: the client may ask, or its reply begins.
LEMMA OpenInv ==
  ASSUME IInv, UNCHANGED args, NEW c \in Clients, FifoOpen(c)
  PROVE  IInv'
<1>1. TypesInv /\ ChanInv /\ ClientInv(c) /\ RequestInv(c) /\ Opens(c)
  BY DEF IInv, ClientInv
<1>2. /\ pc[c] = "open" /\ serving[c] = Opening
      /\ UNCHANGED <<chan, got, up, children>>
      /\ \/ /\ prog \in OneClient /\ pc' = [pc EXCEPT ![c] = "ask"]
            /\ serving' = [serving EXCEPT ![c] = NotServed]
         \/ /\ prog \notin OneClient /\ pc' = [pc EXCEPT ![c] = "read"]
            /\ serving' = [serving EXCEPT ![c] = 1]
  BY DEF FifoOpen
<1>3. /\ pc' \in [Clients -> Places] /\ serving' \in [Clients -> -2 .. MaxBlocks + 1]
      /\ \/ prog \in OneClient /\ pc'[c] = "ask" /\ serving'[c] = NotServed
         \/ prog \notin OneClient /\ pc'[c] = "read" /\ serving'[c] = 1
      /\ \A d \in Clients \ {c} : pc'[d] = pc[d] /\ serving'[d] = serving[d]
  <2>1. /\ NotServed \in -2 .. MaxBlocks + 1 /\ 1 \in -2 .. MaxBlocks + 1
        /\ "ask" \in Places /\ "read" \in Places
        /\ pc \in [Clients -> Places] /\ serving \in [Clients -> -2 .. MaxBlocks + 1]
    BY <1>1, TypesAre DEF Places, NotServed
  <2>2. CASE prog \in OneClient
    BY <2>1, <2>2, <1>2
  <2>3. CASE prog \notin OneClient
    BY <2>1, <2>3, <1>2
  <2> QED BY <2>2, <2>3
<1>4. (Requested(c)' <=> Requested(c)) /\ Same(c) /\ ~Requested(c)
  BY <1>1, <1>2, ChanUnchanged DEF RequestInv, Opening, NotServed
<1>5. PICK k \in 0 .. file[c] + 1 : Answered(c, k)
  BY <1>1 DEF ClientInv
<1>6. k = 0 /\ file[c] \in Nat /\ ~(prog \in OneClient /\ ~up)
  BY <1>1, <1>2, <1>5, TypesAre DEF Answered, Unanswered, Opens
<1>7. prog' = prog /\ file' = file /\ got' = got /\ up' = up
  BY <1>2 DEF args
<1>8. \E h \in 0 .. file'[c] + 1 : Answered(c, h)'
  <2>1. ~Closed(c)'
    BY <1>3, <1>6, <1>7 DEF Closed, NotServed
  <2>2. serving'[c] > 0 => serving'[c] = k + 1 /\ k <= file[c]
    BY <1>3, <1>6 DEF NotServed
  <2> QED BY <1>5, <1>6, <1>7, <2>1, <2>2, <1>4, KeepAnswered
<1>9. ClientInv(c)'
  <2>1. RequestInv(c)'
    BY <1>3, <1>4 DEF RequestInv, NotServed
  <2>2. Opens(c)'
    BY <1>3, <1>6, <1>7 DEF Opens
  <2>3. Own(c)'
    BY <1>1, <1>3, <1>7 DEF ClientInv, Own
  <2> QED BY <1>8, <2>1, <2>2, <2>3 DEF ClientInv
<1>10. serving[c] # NotServed
  BY <1>2 DEF Opening, NotServed
<1> QED BY <1>1, <1>2, <1>3, <1>7, <1>9, <1>10, TypesAre, StepOf

\* In a client's channel, the messages of its type are those of its reply.
LEMMA MineIs ==
  ASSUME TypesInv, ChanInv, NEW c \in Clients, NEW i \in DOMAIN chan[ReplyChan(c)]
  PROVE  /\ chan[ReplyChan(c)][i].type = ReplyType(c) <=> Mine(c, chan[ReplyChan(c)][i])
         /\ Mine(c, chan[ReplyChan(c)][i]) =>
              \E n \in 0..file[c] : chan[ReplyChan(c)][i].body = <<c, n>>
<1> DEFINE q == ReplyChan(c)
           m == chan[q][i]
<1>1. MessageInv(q, m) /\ m \in Messages
  <2>1. q \in Channels /\ chan \in [Channels -> Seq(Messages)]
    BY ReplyChanType, TypesAre
  <2> QED BY <2>1 DEF ChanInv
<1>2. c # Server /\ c # Request
  BY NamesAssumption
<1> HIDE DEF m
<1>3. CASE q = Server /\ m.type = Request /\ m.body[2] = -1
  <2>1. ReplyType(c) # Request
    BY <1>2, <1>3 DEF ReplyChan, ReplyType
  <2> QED BY <1>3, <2>1 DEF Mine, m
<1>4. ASSUME NEW d \in Clients, q = ReplyChan(d), m.type = ReplyType(d),
             m.body[1] = d, m.body[2] \in 0..file[d]
      PROVE  /\ m.type = ReplyType(c) <=> Mine(c, m)
             /\ Mine(c, m) => \E n \in 0..file[c] : m.body = <<c, n>>
  <2>1. m.type = ReplyType(c) <=> d = c
    BY <1>2, <1>4 DEF ReplyChan, ReplyType
  <2>2. Mine(c, m) <=> d = c
    BY <1>4, TypesAre DEF Mine
  <2>3. m.body = <<m.body[1], m.body[2]>>
    BY <1>1 DEF Messages
  <2> QED BY <1>4, <2>1, <2>2, <2>3
<1> QED BY <1>1, <1>3, <1>4 DEF MessageInv, m

\* What a client reads is the next message of its reply.
LEMMA ReadInv ==
  ASSUME IInv, UNCHANGED args, NEW c \in Clients, client_read(c)
  PROVE  IInv'
<1> DEFINE q == ReplyChan(c)
<1>1. TypesInv /\ ChanInv /\ ClientInv(c) /\ RequestInv(c) /\ Opens(c) /\ Own(c)
  BY DEF IInv, ClientInv
<1>2. PICK b : /\ pc[c] = "read" /\ mesg_recv(q, ReplyType(c), b)
               /\ \/ b[2] = 0 /\ pc' = [pc EXCEPT ![c] = "done"] /\ UNCHANGED got
                  \/ b[2] # 0 /\ got' = [got EXCEPT ![c] = Append(@, b)] /\ UNCHANGED pc
               /\ UNCHANGED <<serving, up, children>>
  BY DEF client_read
<1>3. q \in Channels /\ chan \in [Channels -> Seq(Messages)] /\ chan[q] \in Seq(Messages)
  BY <1>1, ReplyChanType, TypesAre
<1>4. PICK i \in 1..Len(chan[q]) :
        /\ chan[q][i].type = ReplyType(c) /\ chan[q][i].body = b
        /\ \A j \in 1..i-1 : chan[q][j].type # ReplyType(c)
        /\ chan' = [chan EXCEPT ![q] = RemoveAt(chan[q], i)]
  BY <1>2, <1>3, RecvIs
<1>5. /\ Mine(c, chan[q][i]) /\ \A j \in 1..i-1 : ~Mine(c, chan[q][j])
      /\ \E n \in 0..file[c] : b = <<c, n>>
  <2>1. DOMAIN chan[q] = 1..Len(chan[q]) /\ Len(chan[q]) \in Nat
    BY <1>3
  <2>2. i \in DOMAIN chan[q] /\ \A j \in 1..i-1 : j \in DOMAIN chan[q]
    BY <2>1
  <2> QED BY <2>2, <1>1, <1>4, MineIs
<1> HIDE DEF q
<1>6. /\ chan' \in [Channels -> Seq(Messages)]
      /\ \A r \in Channels : Len(chan'[r]) <= cap
      /\ ChanInv'
      /\ \A d \in Clients : Requested(d)' => Requested(d)
      /\ \A d \in Clients : ~Mine(d, chan[q][i]) => Same(d)
      /\ chan'[q] = RemoveAt(chan[q], i)
  BY <1>1, <1>3, <1>4, RecvKeeps
<1>7. \A d \in Clients \ {c} : Same(d)
  BY <1>5, <1>6 DEF Mine
<1>8. PICK k \in 0 .. file[c] + 1 : Answered(c, k)
  BY <1>1 DEF ClientInv
<1> DEFINE g == Len(got[c])
<1>9. /\ g \in Nat /\ file[c] \in Nat /\ k \in Nat /\ g <= k /\ Underway(c, chan[q]) = (g+1)..k
      /\ Ascending(c, chan[q]) /\ got \in [Clients -> Seq(Clients \X Int)]
  BY <1>1, <1>8, TypesAre, SMTT(20) DEF Answered, q
<1>10. PICK n \in 0..file[c] : b = <<c, n>>
  BY <1>5
<1>11. /\ (IF n = 0 THEN file[c] + 1 ELSE n) = g + 1 /\ g + 1 <= k
       /\ Underway(c, chan'[q]) = (g+2)..k /\ Ascending(c, chan'[q])
  <2>1. Place(c, chan[q][i]) = IF n = 0 THEN file[c] + 1 ELSE n
    BY <1>4, <1>10 DEF Place
  <2> HIDE DEF g
  <2>2. /\ Place(c, chan[q][i]) = g + 1 /\ g + 1 <= k
        /\ Underway(c, RemoveAt(chan[q], i)) = (g+2)..k
    <3>1. /\ c \in Clients /\ chan[q] \in Seq(Messages) /\ i \in 1..Len(chan[q])
          /\ Mine(c, chan[q][i]) /\ \A j \in 1..i-1 : ~Mine(c, chan[q][j])
      BY <1>3, <1>5
    <3>2. g \in Nat /\ k \in Nat /\ Underway(c, chan[q]) = (g+1)..k /\ Ascending(c, chan[q])
      BY <1>9
    <3> QED BY <3>1, <3>2, RemoveMine, SMTT(20)
  <2>3. Ascending(c, RemoveAt(chan[q], i))
    BY <1>3, <1>9, RemoveKeeps
  <2> QED BY <2>1, <2>2, <2>3, <1>6
<1>12. prog' = prog /\ file' = file /\ serving' = serving /\ up' = up
  BY <1>2 DEF args
<1>13. /\ Underway(c, chan[ReplyChan(c)])' = (g+2)..k
       /\ Ascending(c, chan[ReplyChan(c)])'
  <2>1. /\ Underway(c, chan[ReplyChan(c)])' = Underway(c, chan'[q])
        /\ Ascending(c, chan[ReplyChan(c)])' <=> Ascending(c, chan'[q])
    BY DEF Underway, Ascending, Place, ReplyChan, args, q
  <2> QED BY <2>1, <1>11
<1>14. ~Unanswered(c)
  BY <1>8, <1>9, <1>11 DEF Answered
<1>15. CASE b[2] = 0
  <2>1. n = 0 /\ g = file[c] /\ k = file[c] + 1
    BY <1>15, <1>9, <1>10, <1>11
  <2>2. /\ pc' \in [Clients -> Places] /\ pc'[c] = "done" /\ got' = got
        /\ \A d \in Clients \ {c} : pc'[d] = pc[d]
    BY <1>15, <1>1, <1>2, TypesAre DEF Places
  <2>3. Answered(c, file[c])'
    <3>1. (g+2)..k = {} /\ (g+1)..g = {}
      BY <2>1, <1>9
    <3>2. Underway(c, chan[ReplyChan(c)])' = (Len(got'[c]) + 1)..file'[c]
      BY <3>1, <1>13, <1>12, <2>1, <2>2
    <3>3. ~Unanswered(c)' /\ ~Closed(c)'
      BY <1>14, <1>6, <1>12, <2>2 DEF Unanswered, Closed
    <3>4. ~(serving'[c] > 0)
      BY <1>8, <1>12, <1>9, <2>1 DEF Answered
    <3>5. Len(got'[c]) <= file'[c]
      BY <2>1, <2>2, <1>9, <1>12
    <3> QED BY <3>2, <3>3, <3>4, <3>5, <1>12, <1>13 DEF Answered
  <2>4. ClientInv(c)'
    <3>1. RequestInv(c)'
      BY <1>1, <1>6, <1>12, <2>2 DEF RequestInv
    <3>2. Opens(c)'
      BY <2>2, <1>12 DEF Opens
    <3>3. Own(c)'
      BY <1>1, <2>1, <2>2, <1>12 DEF Own
    <3>4. file'[c] \in 0 .. file'[c] + 1 /\ file'[c] = file[c]
      BY <1>9, <1>12
    <3> QED BY <2>3, <3>1, <3>2, <3>3, <3>4 DEF ClientInv
  <2> QED BY <1>1, <1>2, <1>6, <1>7, <1>12, <2>2, <2>4, TypesAre, StepOf
<1>16. CASE b[2] # 0
  <2>1. n # 0 /\ n = g + 1 /\ b = <<c, g + 1>> /\ b \in Clients \X Int
    BY <1>16, <1>9, <1>10, <1>11
  <2>2. /\ got' = [got EXCEPT ![c] = Append(@, b)] /\ pc' = pc
        /\ got'[c] = Append(got[c], b) /\ \A d \in Clients \ {c} : got'[d] = got[d]
        /\ got' \in [Clients -> Seq(Clients \X Int)]
    <3>1. got' = [got EXCEPT ![c] = Append(@, b)] /\ pc' = pc
      BY <1>16, <1>2
    <3>2. got[c] \in Seq(Clients \X Int) /\ Append(got[c], b) \in Seq(Clients \X Int)
      BY <1>9, <2>1
    <3> QED BY <3>1, <3>2, <1>9
  <2>3. /\ Len(got'[c]) = g + 1 /\ DOMAIN got'[c] = 1..g+1 /\ DOMAIN got[c] = 1..g
        /\ \A j \in 1..g : got'[c][j] = got[c][j]
        /\ got'[c][g+1] = b
    BY <2>1, <2>2, <1>9
  <2> HIDE DEF g
  <2>4. Answered(c, k)'
    <3>1. Underway(c, chan[ReplyChan(c)])' = (Len(got'[c]) + 1)..k
      BY <1>13, <2>3, <1>9
    <3>2. (Unanswered(c)' => Unanswered(c)) /\ (Closed(c)' => Closed(c))
      BY <1>6, <1>12, <2>2 DEF Unanswered, Closed
    <3> QED BY <3>1, <3>2, <2>3, <1>8, <1>11, <1>12, <1>13 DEF Answered
  <2>5. ClientInv(c)'
    <3>1. RequestInv(c)'
      BY <1>1, <1>6, <1>12, <2>2 DEF RequestInv
    <3>2. Opens(c)'
      BY <1>1, <2>2, <1>12 DEF Opens
    <3>3. Own(c)'
      <4>1. \A j \in 1..g : got[c][j] = <<c, j>>
        BY <1>1, <2>3 DEF Own
      <4>2. ASSUME NEW j \in 1..g+1 PROVE got'[c][j] = <<c, j>>
        <5>1. CASE j \in 1..g
          BY <5>1, <4>1, <2>3
        <5>2. CASE j = g + 1
          BY <5>2, <2>1, <2>3
        <5> QED BY <5>1, <5>2, <1>9
      <4>3. got'[c] = [j \in DOMAIN got'[c] |-> <<c, j>>]
        <5>1. got'[c] \in Seq(Clients \X Int)
          BY <2>2
        <5>2. got'[c] = [j \in DOMAIN got'[c] |-> got'[c][j]]
          BY <5>1
        <5> QED BY <5>2, <4>2, <2>3
      <4>4. pc'[c] # "done"
        BY <1>2, <2>2
      <4> QED BY <4>3, <4>4 DEF Own
    <3> QED BY <2>4, <3>1, <3>2, <3>3, <1>12 DEF ClientInv
  <2> QED BY <1>1, <1>2, <1>6, <1>7, <1>12, <2>2, <2>5, TypesAre, StepOf
<1> QED BY <1>15, <1>16

\* End of file: the reply was closed, so nothing of it is missing.
LEMMA EofInv ==
  ASSUME IInv, UNCHANGED args, NEW c \in Clients, client_eof(c)
  PROVE  IInv'
<1>1. TypesInv /\ ChanInv /\ ClientInv(c) /\ RequestInv(c) /\ Opens(c) /\ Own(c)
  BY DEF IInv, ClientInv
<1>2. /\ pc[c] = "read" /\ chan[c] = <<>> /\ Closed(c) /\ ReplyChan(c) = c
      /\ pc' = [pc EXCEPT ![c] = "done"]
      /\ UNCHANGED <<chan, got, serving, up, children>>
  BY Progs DEF client_eof, Closed, ReplyChan
<1>3. /\ pc' \in [Clients -> Places] /\ pc'[c] = "done"
      /\ \A d \in Clients \ {c} : pc'[d] = pc[d]
  BY <1>1, <1>2, TypesAre DEF Places
<1>4. (Requested(c)' <=> Requested(c)) /\ Same(c)
  BY <1>1, <1>2, ChanUnchanged
<1>5. PICK k \in 0 .. file[c] + 1 : Answered(c, k)
  BY <1>1 DEF ClientInv
<1>6. k = file[c] /\ Len(got[c]) = k
  <2>1. Underway(c, chan[ReplyChan(c)]) = {}
    BY <1>2 DEF Underway
  <2>2. (Len(got[c]) + 1)..k = {} /\ Len(got[c]) <= k /\ k = file[c]
    BY <2>1, <1>2, <1>5 DEF Answered
  <2>3. got[c] \in Seq(Clients \X Int) /\ file[c] \in Nat
    BY <1>1, TypesAre
  <2>4. Len(got[c]) \in Nat /\ k \in Nat
    BY <2>2, <2>3
  <2>5. ~(Len(got[c]) + 1 <= k)
    <3>1. Len(got[c]) + 1 <= k => Len(got[c]) + 1 \in (Len(got[c]) + 1)..k
      BY <2>4
    <3> QED BY <3>1, <2>2
  <2> QED BY <2>2, <2>4, <2>5
<1>7. prog' = prog /\ file' = file /\ got' = got /\ up' = up /\ serving' = serving
  BY <1>2 DEF args
<1>8. \E h \in 0 .. file'[c] + 1 : Answered(c, h)'
  <2>1. ~Closed(c)'
    BY <1>3 DEF Closed
  <2>2. Unanswered(c)' => Unanswered(c)
    BY <1>3, <1>4, <1>7 DEF Unanswered
  <2> QED BY <1>5, <1>7, <2>1, <2>2, <1>4, KeepAnswered DEF Answered
<1>9. ClientInv(c)'
  <2>1. RequestInv(c)'
    BY <1>1, <1>3, <1>4, <1>7 DEF RequestInv
  <2>2. Opens(c)'
    BY <1>3 DEF Opens
  <2>3. Own(c)'
    BY <1>1, <1>6, <1>7 DEF Own
  <2> QED BY <1>8, <2>1, <2>2, <2>3 DEF ClientInv
<1> QED BY <1>1, <1>2, <1>3, <1>4, <1>7, <1>9, TypesAre, StepOf

-----------------------------------------------------------------------------
(* The steps of the server, its children and its clients' deaths.          *)

\* A request that is taken is taken for good: nothing of its reply was sent.
LEMMA RecvInv ==
  ASSUME IInv, UNCHANGED args, server_recv
  PROVE  IInv'
<1>1. TypesInv /\ ChanInv
  BY DEF IInv
<1>2. PICK c \in Clients :
        /\ mesg_recv(Server, Request, Pathname(c)) /\ up
        /\ serving' = [serving EXCEPT ![c] = IF prog = "fifoclieser" THEN Opening ELSE 1]
        /\ UNCHANGED <<pc, got, up, children>>
  BY DEF server_recv
<1>3. Server \in Channels /\ chan \in [Channels -> Seq(Messages)]
  BY <1>1, TypesAre DEF Channels
<1>4. PICK i \in 1..Len(chan[Server]) :
        /\ chan[Server][i].body = Pathname(c)
        /\ chan' = [chan EXCEPT ![Server] = RemoveAt(chan[Server], i)]
  BY <1>2, <1>3, RecvIs
<1>5. /\ chan' \in [Channels -> Seq(Messages)]
      /\ \A r \in Channels : Len(chan'[r]) <= cap
      /\ ChanInv'
      /\ \A d \in Clients : Requested(d)' => Requested(d)
      /\ Requested(c) /\ ~Requested(c)'
      /\ \A d \in Clients : Same(d)
  <2>1. \A d \in Clients : ~Mine(d, chan[Server][i])
    BY <1>4 DEF Pathname, Mine
  <2> QED BY <2>1, <1>1, <1>3, <1>4, RecvKeeps
<1>6. ClientInv(c) /\ RequestInv(c) /\ Opens(c)
  BY DEF IInv, ClientInv
<1>7. PICK k \in 0 .. file[c] + 1 : Answered(c, k)
  BY <1>6 DEF ClientInv
<1>8. k = 0 /\ pc[c] \notin {"ask", "absent"} /\ file[c] \in Nat
  BY <1>1, <1>5, <1>6, <1>7, TypesAre DEF Answered, Unanswered, RequestInv
<1>9. /\ serving' \in [Clients -> -2 .. MaxBlocks + 1]
      /\ serving'[c] \in {Opening, 1}
      /\ \A d \in Clients \ {c} : serving'[d] = serving[d]
  <2>1. Opening \in -2 .. MaxBlocks + 1 /\ 1 \in -2 .. MaxBlocks + 1
        /\ serving \in [Clients -> -2 .. MaxBlocks + 1]
    BY <1>1, TypesAre DEF Opening
  <2> QED BY <2>1, <1>2
<1>10. prog' = prog /\ file' = file /\ pc' = pc /\ got' = got /\ up' = up
  BY <1>2 DEF args
<1>11. \E h \in 0 .. file'[c] + 1 : Answered(c, h)'
  <2>1. ~Closed(c)'
    BY <1>2, <1>9, <1>10 DEF Closed, NotServed, Opening
  <2>2. serving'[c] > 0 => serving'[c] = k + 1 /\ k <= file[c]
    BY <1>8, <1>9 DEF Opening
  <2> QED BY <1>5, <1>7, <1>8, <1>10, <2>1, <2>2, KeepAnswered
<1>12. ClientInv(c)'
  <2>1. RequestInv(c)'
    BY <1>5, <1>8, <1>10 DEF RequestInv
  <2>2. Opens(c)'
    BY <1>2, <1>5, <1>6, <1>10
    DEF Opens, RequestInv, NotServed, Opening, OpeningFirst
  <2>3. Own(c)'
    BY <1>6, <1>10 DEF ClientInv, Own
  <2> QED BY <1>11, <2>1, <2>2, <2>3 DEF ClientInv
<1> QED BY <1>1, <1>2, <1>5, <1>8, <1>9, <1>10, <1>12, TypesAre, StepOf

\* End of file at the server: its only client is dead.
LEMMA ServerEofInv ==
  ASSUME IInv, UNCHANGED args, NEW c \in Clients, server_eof(c)
  PROVE  IInv'
<1>1. TypesInv /\ ChanInv /\ ClientInv(c)
  BY DEF IInv
<1>2. pc[c] = "dead" /\ up' = FALSE /\ UNCHANGED <<chan, pc, got, serving, children>>
  BY DEF server_eof
<1>3. (Requested(c)' <=> Requested(c)) /\ Same(c)
  BY <1>1, <1>2, ChanUnchanged
<1>4. PICK k \in 0 .. file[c] + 1 : Answered(c, k)
  BY <1>1 DEF ClientInv
<1>5. prog' = prog /\ file' = file /\ pc' = pc /\ got' = got /\ serving' = serving
  BY <1>2 DEF args
<1>6. \E h \in 0 .. file'[c] + 1 : Answered(c, h)'
  <2>1. ~Closed(c)'
    BY <1>2, <1>5 DEF Closed
  <2>2. Unanswered(c)' => Unanswered(c)
    BY <1>3, <1>5 DEF Unanswered
  <2> QED BY <1>3, <1>4, <1>5, <2>1, <2>2, KeepAnswered DEF Answered
<1>7. ClientInv(c)'
  <2>1. RequestInv(c)'
    BY <1>1, <1>3, <1>5 DEF ClientInv, RequestInv
  <2>2. Opens(c)'
    BY <1>2, <1>5 DEF Opens
  <2>3. Own(c)'
    BY <1>1, <1>5 DEF ClientInv, Own
  <2> QED BY <1>6, <2>1, <2>2, <2>3 DEF ClientInv
<1> QED BY <1>1, <1>2, <1>3, <1>5, <1>7, TypesAre, StepOf

\* The next message of the reply for c.
LEMMA SendInv ==
  ASSUME IInv, UNCHANGED args, NEW c \in Clients, server_send(c)
  PROVE  IInv'
<1> DEFINE q == ReplyChan(c)
           n == serving[c]
           m == [type |-> ReplyType(c), body |-> <<c, n>>]
           g == Len(got[c])
<1>1. TypesInv /\ ChanInv /\ ClientInv(c) /\ RequestInv(c) /\ Opens(c)
  BY DEF IInv, ClientInv
<1>2. /\ n > 0 /\ ~(n > file[c]) /\ mesg_send(q, ReplyType(c), <<c, n>>)
      /\ serving' = [serving EXCEPT ![c] = n + 1]
      /\ UNCHANGED <<pc, got, up, children>>
  BY DEF server_send, AllSent
<1>3. PICK k \in 0 .. file[c] + 1 : Answered(c, k)
  BY <1>1 DEF ClientInv
<1>4. /\ file[c] \in 0..MaxBlocks /\ MaxBlocks \in Nat /\ n \in 1..file[c] /\ n = k + 1
      /\ k \in Nat /\ n \in 0..file[c]
      /\ serving \in [Clients -> -2 .. MaxBlocks + 1] /\ got[c] \in Seq(Clients \X Int)
  <2>1. n = k + 1
    BY <1>2, <1>3 DEF Answered
  <2>2. /\ file[c] \in 0..MaxBlocks /\ MaxBlocks \in Nat /\ n \in Int
        /\ serving \in [Clients -> -2 .. MaxBlocks + 1] /\ got[c] \in Seq(Clients \X Int)
    BY <1>1, TypesAre
  <2> HIDE DEF n
  <2> QED BY <2>1, <2>2, <1>2
<1>5. /\ chan' \in [Channels -> Seq(Messages)]
      /\ \A r \in Channels : Len(chan'[r]) <= cap
      /\ ChanInv'
      /\ \A d \in Clients : Requested(d)' <=> Requested(d)
      /\ \A d \in Clients \ {c} : Same(d)
      /\ chan'[q] = Append(chan[q], m)
      /\ Mine(c, m)
  <2> HIDE DEF n
  <2> QED BY <1>1, <1>2, <1>4, SendReply
<1>6. /\ serving' \in [Clients -> -2 .. MaxBlocks + 1] /\ serving'[c] = n + 1
      /\ \A d \in Clients \ {c} : serving'[d] = serving[d]
  <2>1. n + 1 \in -2 .. MaxBlocks + 1
    <3> HIDE DEF n
    <3> QED BY <1>4
  <2> QED BY <2>1, <1>2, <1>4
<1>7. prog' = prog /\ file' = file /\ pc' = pc /\ got' = got /\ up' = up
  BY <1>2 DEF args
<1>8. g \in Nat /\ g <= k /\ Underway(c, chan[q]) = (g+1)..k /\ Ascending(c, chan[q])
  BY <1>3, <1>4 DEF Answered
<1>9. /\ Underway(c, chan[ReplyChan(c)])' = (g+1)..(k+1)
      /\ Ascending(c, chan[ReplyChan(c)])'
  <2>1. Place(c, m) = k + 1
    <3>1. Place(c, m) = IF n = 0 THEN file[c] + 1 ELSE n
      BY DEF Place
    <3> QED BY <3>1, <1>4
  <2>2. m \in Messages /\ chan[q] \in Seq(Messages)
    <3>1. ReplyType(c) \in Clients \cup {Request} /\ q \in Channels
      BY ReplyChanType DEF ReplyType
    <3>2. <<c, n>> \in Clients \X Int
      BY <1>4
    <3> QED BY <3>1, <3>2, <1>1, TypesAre DEF Messages
  <2> HIDE DEF m, q, g
  <2>3. Underway(c, chan'[q]) = (g+1)..(k+1) /\ Ascending(c, chan'[q])
    BY <2>1, <2>2, <1>4, <1>5, <1>8, AppendMine
  <2>4. /\ Underway(c, chan[ReplyChan(c)])' = Underway(c, chan'[q])
        /\ Ascending(c, chan[ReplyChan(c)])' <=> Ascending(c, chan'[q])
    BY DEF Underway, Ascending, Place, ReplyChan, args, q
  <2> QED BY <2>3, <2>4
<1>10. Answered(c, k + 1)' /\ k + 1 \in 0 .. file'[c] + 1
  <2>1. ~Unanswered(c)'
    <3>1. pc[c] # "ask" /\ ~Requested(c)
      BY <1>1, <1>4 DEF RequestInv, NotServed
    <3>2. serving'[c] \notin {Opening, OpeningFirst}
      BY <1>6, <1>4 DEF Opening, OpeningFirst
    <3> QED BY <3>1, <3>2, <1>5, <1>7 DEF Unanswered
  <2>2. ~Closed(c)'
    <3>1. ~(pc[c] = "read" /\ prog \in OneClient /\ ~up)
      <4>1. ~Closed(c)
        BY <1>3, <1>4 DEF Answered
      <4> QED BY <4>1 DEF Closed
    <3>2. serving'[c] # NotServed
      BY <1>4, <1>6 DEF NotServed
    <3> QED BY <3>1, <3>2, <1>7 DEF Closed
  <2>3. g <= k + 1 /\ serving'[c] = (k + 1) + 1 /\ k + 1 <= file[c]
        /\ k + 1 \in 0 .. file[c] + 1
    BY <1>4, <1>6, <1>8
  <2> QED BY <2>1, <2>2, <2>3, <1>7, <1>9 DEF Answered
<1>11. ClientInv(c)'
  <2>1. RequestInv(c)'
    <3>1. pc[c] # "ask" /\ ~Requested(c)
      BY <1>1, <1>4 DEF RequestInv, NotServed
    <3> QED BY <3>1, <1>5, <1>7 DEF RequestInv
  <2>2. Opens(c)'
    <3>1. serving[c] # Opening /\ serving[c] # OpeningFirst
      BY <1>4 DEF Opening, OpeningFirst
    <3> QED BY <3>1, <1>1, <1>7 DEF Opens
  <2>3. Own(c)'
    BY <1>1, <1>7 DEF ClientInv, Own
  <2> QED BY <1>10, <2>1, <2>2, <2>3 DEF ClientInv
<1>12. serving[c] # NotServed
  BY <1>4 DEF NotServed
<1> QED BY <1>1, <1>2, <1>5, <1>6, <1>7, <1>11, <1>12, TypesAre, StepOf

\* SIGPIPE: the client is dead, and nobody else is told that the server ended.
LEMMA SigpipeInv ==
  ASSUME IInv, UNCHANGED args, NEW c \in Clients, server_sigpipe(c)
  PROVE  IInv'
<1>1. TypesInv /\ ChanInv /\ ClientInv(c)
  BY DEF IInv
<1>2. /\ pc[c] = "dead" /\ up' = FALSE /\ serving[c] > 0
      /\ serving' = [serving EXCEPT ![c] = NotServed]
      /\ UNCHANGED <<chan, pc, got, children>>
  BY DEF server_sigpipe, Broken
<1>3. (Requested(c)' <=> Requested(c)) /\ Same(c)
  BY <1>1, <1>2, ChanUnchanged
<1>4. PICK k \in 0 .. file[c] + 1 : Answered(c, k)
  BY <1>1 DEF ClientInv
<1>5. prog' = prog /\ file' = file /\ pc' = pc /\ got' = got
  BY <1>2 DEF args
<1>6. /\ serving' \in [Clients -> -2 .. MaxBlocks + 1] /\ serving'[c] = NotServed
      /\ \A d \in Clients \ {c} : serving'[d] = serving[d]
  <2>1. NotServed \in -2 .. MaxBlocks + 1 /\ serving \in [Clients -> -2 .. MaxBlocks + 1]
    BY <1>1, TypesAre DEF NotServed
  <2> QED BY <2>1, <1>2
<1>7. \E h \in 0 .. file'[c] + 1 : Answered(c, h)'
  <2>1. ~Closed(c)' /\ ~(serving'[c] > 0)
    BY <1>2, <1>5, <1>6 DEF Closed, NotServed
  <2>2. Unanswered(c)' => Unanswered(c)
    BY <1>3, <1>5, <1>6 DEF Unanswered, NotServed, Opening, OpeningFirst
  <2>3. Unanswered(c)' => k = 0
    BY <2>2, <1>4 DEF Answered
  <2> QED BY <1>3, <1>4, <1>5, <2>1, <2>3, KeepAnswered
<1>8. ClientInv(c)'
  <2>1. RequestInv(c)'
    BY <1>2, <1>5, <1>6 DEF RequestInv
  <2>2. Opens(c)'
    BY <1>2, <1>5 DEF Opens
  <2>3. Own(c)'
    BY <1>1, <1>5 DEF ClientInv, Own
  <2> QED BY <1>7, <2>1, <2>2, <2>3 DEF ClientInv
<1>9. serving[c] # NotServed
  BY <1>2 DEF NotServed
<1> QED BY <1>1, <1>2, <1>3, <1>5, <1>6, <1>8, <1>9, TypesAre, StepOf

\* The end of a reply: all of it was sent; a child of the forking server ends.
LEMMA EndInv ==
  ASSUME IInv, UNCHANGED args, NEW c \in Clients, server_end(c)
  PROVE  IInv'
<1> DEFINE q == ReplyChan(c)
           m == [type |-> ReplyType(c), body |-> <<c, 0>>]
           g == Len(got[c])
<1>1. TypesInv /\ ChanInv /\ ClientInv(c) /\ RequestInv(c) /\ Opens(c) /\ Own(c)
  BY DEF IInv, ClientInv
<1>2. /\ serving[c] > 0 /\ serving[c] > file[c]
      /\ serving' = [serving EXCEPT ![c] = NotServed]
      /\ \/ prog \in OneClient \cup {"fifoclieser"} /\ UNCHANGED chan
         \/ /\ prog \notin OneClient \cup {"fifoclieser"}
            /\ mesg_send(q, ReplyType(c), <<c, 0>>)
      /\ up' = (up /\ prog \notin OneClient)
      /\ \/ zombies' = zombies + 1 /\ sigchld' = TRUE
         \/ UNCHANGED children
      /\ pc' = pc /\ got' = got
  BY DEF server_end, AllSent, End
<1>3. PICK k \in 0 .. file[c] + 1 : Answered(c, k)
  BY <1>1 DEF ClientInv
<1>4. file[c] \in Nat /\ k = file[c] /\ got[c] \in Seq(Clients \X Int)
  BY <1>1, <1>2, <1>3, TypesAre DEF Answered
<1>5. prog' = prog /\ file' = file
  BY DEF args
<1>6. /\ serving' \in [Clients -> -2 .. MaxBlocks + 1] /\ serving'[c] = NotServed
      /\ \A d \in Clients \ {c} : serving'[d] = serving[d]
  <2>1. NotServed \in -2 .. MaxBlocks + 1 /\ serving \in [Clients -> -2 .. MaxBlocks + 1]
    BY <1>1, TypesAre DEF NotServed
  <2> QED BY <2>1, <1>2
<1>7. pc[c] # "ask" /\ ~Requested(c) /\ serving[c] # NotServed
  BY <1>1, <1>2 DEF RequestInv, NotServed
<1>8. /\ \/ UNCHANGED chan
         \/ /\ chan' \in [Channels -> Seq(Messages)]
            /\ \A r \in Channels : Len(chan'[r]) <= cap
            /\ ChanInv'
            /\ \A d \in Clients \ {c} : Same(d) /\ (Requested(d)' => Requested(d))
      /\ ~Requested(c)'
      /\ \E h \in 0 .. file'[c] + 1 : Answered(c, h)'
  <2>1. ~(serving'[c] > 0) /\ serving'[c] \notin {Opening, OpeningFirst}
    BY <1>6 DEF NotServed, Opening, OpeningFirst
  <2>2. CASE prog \in OneClient \cup {"fifoclieser"}
    <3>1. UNCHANGED chan /\ ~Requested(c)' /\ Same(c)
      BY <2>2, <1>1, <1>2, <1>7, ChanUnchanged
    <3>2. ~Unanswered(c)'
      BY <3>1, <2>1, <1>2, <1>7 DEF Unanswered
    <3>3. \E h \in 0 .. file'[c] + 1 : Answered(c, h)'
      BY <3>1, <3>2, <2>1, <1>2, <1>3, <1>4, KeepAnswered
    <3> QED BY <3>1, <3>3
  <2>3. CASE prog \notin OneClient \cup {"fifoclieser"}
    <3>1. /\ chan' \in [Channels -> Seq(Messages)]
          /\ \A r \in Channels : Len(chan'[r]) <= cap
          /\ ChanInv'
          /\ \A d \in Clients : Requested(d)' <=> Requested(d)
          /\ \A d \in Clients \ {c} : Same(d)
          /\ chan'[q] = Append(chan[q], m)
          /\ Mine(c, m)
      <4>1. 0 \in 0..file[c]
        BY <1>4
      <4> QED BY <4>1, <2>3, <1>1, <1>2, SendReply
    <3>2. /\ Underway(c, chan[ReplyChan(c)])' = (g+1)..(k+1)
          /\ Ascending(c, chan[ReplyChan(c)])'
      <4>1. Place(c, m) = k + 1
        BY <1>4 DEF Place
      <4>2. m \in Messages /\ chan[q] \in Seq(Messages)
        <5>1. ReplyType(c) \in Clients \cup {Request} /\ q \in Channels
          BY ReplyChanType DEF ReplyType
        <5>2. <<c, 0>> \in Clients \X Int
          OBVIOUS
        <5> QED BY <5>1, <5>2, <1>1, TypesAre DEF Messages
      <4>3. /\ g \in Nat /\ g <= k /\ k \in Nat /\ Underway(c, chan[q]) = (g+1)..k
            /\ Ascending(c, chan[q])
        BY <1>3, <1>4 DEF Answered
      <4> HIDE DEF m, q, g
      <4>4. Underway(c, chan'[q]) = (g+1)..(k+1) /\ Ascending(c, chan'[q])
        BY <4>1, <4>2, <4>3, <3>1, AppendMine
      <4>5. /\ Underway(c, chan[ReplyChan(c)])' = Underway(c, chan'[q])
            /\ Ascending(c, chan[ReplyChan(c)])' <=> Ascending(c, chan'[q])
        BY DEF Underway, Ascending, Place, ReplyChan, args, q
      <4> QED BY <4>4, <4>5
    <3>3. ~Requested(c)' /\ ~Unanswered(c)' /\ ~Closed(c)'
      BY <3>1, <2>1, <2>3, <1>2, <1>5, <1>7 DEF Unanswered, Closed
    <3>4. g <= k + 1 /\ k + 1 \in 0 .. file'[c] + 1
      <4>1. g \in Nat /\ g <= k
        BY <1>3, <1>4 DEF Answered
      <4> QED BY <4>1, <1>4, <1>5
    <3>5. Answered(c, k + 1)'
      BY <3>2, <3>3, <3>4, <2>1, <1>2 DEF Answered
    <3> QED BY <3>1, <3>3, <3>4, <3>5
  <2> QED BY <2>2, <2>3
<1>9. ClientInv(c)'
  <2>1. RequestInv(c)'
    BY <1>2, <1>7, <1>8 DEF RequestInv
  <2>2. Opens(c)'
    <3>1. pc[c] \in Places /\ serving[c] # Opening /\ serving[c] # OpeningFirst
      BY <1>1, <1>2, TypesAre DEF Opening, OpeningFirst
    <3>2. prog \in OneClient => pc[c] \in {"read", "done", "dead", "absent"}
      BY <3>1, <1>1, <1>7 DEF Opens, Places
    <3> QED BY <3>2, <1>2, <1>5 DEF Opens
  <2>3. Own(c)'
    BY <1>1, <1>2, <1>5 DEF Own
  <2> QED BY <1>8, <2>1, <2>2, <2>3 DEF ClientInv
<1>10. /\ up' \in BOOLEAN /\ pc' \in [Clients -> Places]
       /\ got' \in [Clients -> Seq(Clients \X Int)]
  BY <1>1, <1>2, TypesAre
<1>11. ~(pc'[c] = "ask" \/ Requested(c)' \/ serving'[c] # NotServed)
  BY <1>2, <1>6, <1>7, <1>8
<1> QED BY <1>2, <1>6, <1>7, <1>8, <1>9, <1>10, <1>11, StepOf

\* The handler waits for all children that have ended.
LEMMA SigChildInv ==
  ASSUME IInv, UNCHANGED args, sig_child
  PROVE  IInv'
<1>1. /\ TypesInv /\ ChanInv /\ ChildrenInv /\ \A d \in Clients : ClientInv(d)
  BY DEF IInv
<1>2. /\ zombies' = 0 /\ sigchld' = FALSE
      /\ UNCHANGED <<chan, pc, got, serving, up>>
  BY DEF sig_child
<1>3. ChanInv' /\ \A d : (Requested(d)' <=> Requested(d)) /\ Same(d)
  BY <1>1, <1>2, ChanUnchanged
<1>4. \A d \in Clients : ClientInv(d)'
  BY <1>1, <1>2, <1>3, OtherClient
<1>5. TypesInv'
  <2>1. zombies' \in 0..Cardinality(Clients) /\ sigchld' \in BOOLEAN
    <3> DEFINE h == Cardinality(Clients)
    <3>1. h \in Nat
      BY <1>1, TypesAre
    <3> HIDE DEF h
    <3>2. 0 \in 0..h
      BY <3>1
    <3> QED BY <3>2, <1>1, <1>2 DEF h
  <2> QED BY <2>1, <1>1, <1>2, TypesAre, TypesNext
<1>6. ChildrenInv'
  <2>1. Unended' \subseteq Unended
    BY <1>2, <1>3 DEF Unended
  <2>2. zombies' \in Nat /\ zombies' <= zombies
    BY <1>1, <1>2, TypesAre
  <2> QED BY <2>1, <2>2, <1>1, ChildrenKept
<1> QED BY <1>2, <1>3, <1>4, <1>5, <1>6 DEF IInv, ZombiesReaped

\* A client that is killed reads no more; the rest of its reply stays.
LEMMA DieInv ==
  ASSUME IInv, UNCHANGED args, NEW c \in Clients, Die(c)
  PROVE  IInv'
<1>1. TypesInv /\ ChanInv /\ ClientInv(c)
  BY DEF IInv
<1>2. /\ pc[c] # "absent" /\ pc' = [pc EXCEPT ![c] = "dead"]
      /\ UNCHANGED <<chan, got, serving, up, children>>
  BY DEF Die
<1>3. (Requested(c)' <=> Requested(c)) /\ Same(c)
  BY <1>1, <1>2, ChanUnchanged
<1>4. PICK k \in 0 .. file[c] + 1 : Answered(c, k)
  BY <1>1 DEF ClientInv
<1>5. prog' = prog /\ file' = file /\ serving' = serving /\ got' = got /\ up' = up
  BY <1>2 DEF args
<1>6. /\ pc' \in [Clients -> Places] /\ pc'[c] = "dead"
      /\ \A d \in Clients \ {c} : pc'[d] = pc[d]
  BY <1>1, <1>2, TypesAre DEF Places
<1>7. \E h \in 0 .. file'[c] + 1 : Answered(c, h)'
  <2>1. ~Closed(c)'
    BY <1>6 DEF Closed
  <2>2. Unanswered(c)' => Unanswered(c)
    BY <1>3, <1>5, <1>6 DEF Unanswered
  <2> QED BY <1>3, <1>4, <1>5, <2>1, <2>2, KeepAnswered DEF Answered
<1>8. ClientInv(c)'
  <2>1. RequestInv(c)'
    BY <1>1, <1>3, <1>5, <1>6 DEF ClientInv, RequestInv
  <2>2. Opens(c)'
    BY <1>6 DEF Opens
  <2>3. Own(c)'
    BY <1>1, <1>5, <1>6 DEF ClientInv, Own
  <2> QED BY <1>7, <2>1, <2>2, <2>3 DEF ClientInv
<1> QED BY <1>1, <1>2, <1>3, <1>5, <1>6, <1>8, TypesAre, StepOf

-----------------------------------------------------------------------------
(* The initial states, the steps and the theorems.                         *)

\* The invariant holds when the programs start.
LEMMA InitInv == Init => IInv
<1> SUFFICES ASSUME Init PROVE IInv
  OBVIOUS
<1>1. /\ cap \in 1..MaxCap /\ chan = [q \in Channels |-> <<>>]
      /\ got = [c \in Clients |-> <<>>] /\ up = TRUE /\ zombies = 0 /\ sigchld = FALSE
  BY DEF Init, Channels
<1>2. IsFiniteSet(Clients) /\ Cardinality(Clients) \in Nat /\ MaxBlocks \in Nat
      /\ MaxCap \in Nat
  BY FileServersAssumption, FS_CardinalityType
<1>3. /\ prog \in OneClient \cup ManyClients /\ file \in [Clients -> 0..MaxBlocks]
      /\ pc \in [Clients -> {"ask", "open_first", "absent"}]
      /\ serving \in [Clients -> {NotServed, OpeningFirst}]
      /\ \A c \in Clients : pc[c] = "ask" => serving[c] = NotServed
      /\ \A c \in Clients : pc[c] = "open_first" => serving[c] = OpeningFirst
      /\ prog \in OneClient => \E one \in Clients : \A c \in Clients \ {one} :
           pc[c] = "absent" /\ serving[c] = NotServed
  <2>1. CASE InitMany
    <3>1. prog \notin OneClient
      BY <2>1 DEF InitMany, OneClient, ManyClients
    <3> QED BY <2>1, <3>1 DEF InitMany
  <2>2. CASE InitOne
    <3>1. PICK c \in Clients, n \in 0..MaxBlocks :
            /\ file = [d \in Clients |-> IF d = c THEN n ELSE 0]
            /\ pc = [d \in Clients |-> IF d = c THEN ClientOpensAt ELSE "absent"]
            /\ serving = [d \in Clients |-> IF d = c THEN ServerOpensAt ELSE NotServed]
      BY <2>2 DEF InitOne
    <3>2. /\ ClientOpensAt \in {"ask", "open_first"}
          /\ ServerOpensAt \in {NotServed, OpeningFirst}
          /\ ClientOpensAt = "ask" => ServerOpensAt = NotServed
          /\ ClientOpensAt = "open_first" => ServerOpensAt = OpeningFirst
      BY DEF ClientOpensAt, ServerOpensAt
    <3>3. 0 \in 0..MaxBlocks /\ prog \in OneClient
      BY <1>2, <2>2 DEF InitOne
    <3> HIDE DEF ClientOpensAt, ServerOpensAt
    <3>4. file \in [Clients -> 0..MaxBlocks]
      BY <3>1, <3>3
    <3> QED BY <3>1, <3>2, <3>3, <3>4
  <2> QED BY <2>1, <2>2 DEF Init
<1>4. /\ \A q \in Channels : chan[q] = <<>> /\ Len(chan[q]) = 0 /\ DOMAIN chan[q] = {}
      /\ Server \in Channels /\ DOMAIN chan = Channels
      /\ chan \in [Channels -> Seq(Messages)]
  BY <1>1 DEF Channels
<1>5. TypesInv
  <2>1. /\ \A q \in DOMAIN chan : Len(chan[q]) <= cap
        /\ cap \in Nat
    BY <1>1, <1>2, <1>4
  <2>2. /\ pc \in [Clients -> {"open_first", "open", "ask", "read", "done", "dead", "absent"}]
        /\ serving \in [Clients -> -2 .. MaxBlocks + 1]
    <3>1. NotServed \in -2 .. MaxBlocks + 1 /\ OpeningFirst \in -2 .. MaxBlocks + 1
      BY <1>2 DEF NotServed, OpeningFirst
    <3> QED BY <3>1, <1>3
  <2>3. up \in BOOLEAN /\ zombies \in 0..Cardinality(Clients) /\ sigchld \in BOOLEAN
    <3> DEFINE h == Cardinality(Clients)
    <3>1. h \in Nat
      BY <1>2
    <3> HIDE DEF h
    <3>2. 0 \in 0..h
      BY <3>1
    <3> QED BY <3>2, <1>1, <1>2 DEF h
  <2>4. TypeOK
    BY <2>1, <2>2, <2>3 DEF TypeOK
  <2>5. got \in [Clients -> Seq(Clients \X Int)]
    <3>1. <<>> \in Seq(Clients \X Int)
      OBVIOUS
    <3> QED BY <3>1, <1>1
  <2> QED BY <2>1, <2>4, <2>5, <1>3, <1>4 DEF TypesInv, Channels
<1>6. ChanInv
  BY <1>4 DEF ChanInv
<1>7. \A c : ~Requested(c)
  BY <1>4 DEF Requested
<1>8. ASSUME NEW c \in Clients PROVE ClientInv(c)
  <2>1. RequestInv(c)
    BY <1>3, <1>7 DEF RequestInv
  <2>2. Opens(c)
    BY <1>1, <1>3 DEF Opens
  <2>3. /\ got[c] = <<>> /\ Len(got[c]) = 0 /\ DOMAIN got[c] = {}
        /\ file[c] \in Nat /\ pc[c] \notin {"read", "done"} /\ ~(serving[c] > 0)
    <3>1. got[c] = <<>>
      BY <1>1
    <3>2. Len(got[c]) = 0 /\ DOMAIN got[c] = {}
      BY <3>1
    <3>3. file[c] \in Nat
      BY <1>2, <1>3
    <3>4. pc[c] \in {"ask", "open_first", "absent"} /\ serving[c] \in {NotServed, OpeningFirst}
      BY <1>3
    <3>5. ~(serving[c] > 0)
      BY <3>4 DEF NotServed, OpeningFirst
    <3> QED BY <3>1, <3>2, <3>3, <3>4, <3>5
  <2>4. Own(c)
    BY <2>3 DEF Own
  <2>5. Answered(c, 0)
    <3>1. ReplyChan(c) \in Channels /\ DOMAIN chan[ReplyChan(c)] = {}
      BY <1>4, ReplyChanType
    <3>2. Underway(c, chan[ReplyChan(c)]) = {} /\ (0+1)..0 = {}
      BY <3>1 DEF Underway
    <3>3. Ascending(c, chan[ReplyChan(c)])
      BY <3>1 DEF Ascending
    <3> QED BY <2>3, <3>2, <3>3 DEF Answered, Closed
  <2>6. 0 \in 0 .. file[c] + 1
    BY <2>3
  <2> QED BY <2>1, <2>2, <2>4, <2>5, <2>6 DEF ClientInv
<1>9. ChildrenInv
  <2>1. Unended \subseteq Clients
    BY DEF Unended
  <2>2. Cardinality(Unended) <= Cardinality(Clients) /\ Cardinality(Unended) \in Nat
    BY <2>1, <1>2, FS_Subset, FS_CardinalityType
  <2> QED BY <2>2, <1>1 DEF ChildrenInv
<1>10. ZombiesReaped
  BY <1>1 DEF ZombiesReaped
<1> QED BY <1>5, <1>6, <1>8, <1>9, <1>10 DEF IInv

\* The invariant is kept by every step.
LEMMA NextInv == IInv /\ [Next]_vars => IInv'
<1> SUFFICES ASSUME IInv, [Next]_vars PROVE IInv'
  OBVIOUS
<1>1. CASE UNCHANGED vars
  <2>1. /\ UNCHANGED args /\ UNCHANGED chan /\ UNCHANGED <<pc, got, serving, up>>
        /\ zombies' = zombies /\ sigchld' = sigchld
    BY <1>1 DEF vars, children
  <2>2. /\ TypesInv /\ ChanInv /\ ChildrenInv /\ ZombiesReaped
        /\ \A d \in Clients : ClientInv(d)
    BY DEF IInv
  <2>3. ChanInv' /\ \A d : (Requested(d)' <=> Requested(d)) /\ Same(d)
    BY <2>1, <2>2, ChanUnchanged
  <2>4. \A d \in Clients : ClientInv(d)'
    BY <2>1, <2>2, <2>3, OtherClient
  <2>5. TypesInv'
    BY <2>1, <2>2, TypesAre, ZombiesBound, TypesNext
  <2>6. ChildrenInv'
    <3>1. Unended' \subseteq Unended
      BY <2>1, <2>3 DEF Unended
    <3>2. zombies' \in Nat /\ zombies' <= zombies
      BY <2>1, <2>2, TypesAre
    <3> QED BY <3>1, <3>2, <2>2, ChildrenKept
  <2> QED BY <2>1, <2>2, <2>3, <2>4, <2>5, <2>6 DEF IInv, ZombiesReaped
<1>2. CASE loop
  BY <1>2, RecvInv DEF loop
<1>3. CASE reap
  BY <1>3, SigChildInv DEF reap
<1>4. ASSUME NEW c \in Clients, client(c) PROVE IInv'
  BY <1>4, AskInv, OpenFirstInv, OpenInv, ReadInv, EofInv DEF client
<1>5. ASSUME NEW c \in Clients, serve(c) PROVE IInv'
  BY <1>5, SendInv, SigpipeInv, EndInv, ServerEofInv DEF serve
<1>6. ASSUME NEW c \in Clients, UNCHANGED args, Die(c) PROVE IInv'
  BY <1>6, DieInv
<1> QED BY <1>1, <1>2, <1>3, <1>4, <1>5, <1>6 DEF Next

\* Channels, requests, replies and children are always as IInv says.
THEOREM Invariance == Spec => []IInv
<1>1. Init => IInv
  BY InitInv
<1>2. IInv /\ [Next]_vars => IInv'
  BY NextInv
<1> QED BY <1>1, <1>2, PTL DEF Spec

\* No queue holds more than its capacity, and all variables keep their types.
THEOREM TypeCorrect == Spec => []TypeOK
<1>1. IInv => TypeOK
  BY DEF IInv, TypesInv
<1> QED BY <1>1, Invariance, PTL

\* Whatever other clients' requests and replies are in the same queue and
\* whoever dies, a client reads the messages of its own reply, in order, and
\* all of them if it comes to the end.
THEOREM RepliesCorrect == Spec => []OwnReply
<1>1. IInv => OwnReply
  BY DEF IInv, ClientInv, Own, OwnReply
<1> QED BY <1>1, Invariance, PTL

\* No child that has ended stays a zombie without a SIGCHLD on its way.
THEOREM ChildrenReaped == Spec => []ZombiesReaped
<1>1. IInv => ZombiesReaped
  BY DEF IInv
<1> QED BY <1>1, Invariance, PTL
=============================================================================
