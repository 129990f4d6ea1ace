---------------------------- MODULE MCMsgQueue -----------------------------
(* Instances of MsgQueue for TLC: which process makes which calls.         *)
EXTENDS MsgQueue, TLC

CONSTANTS s1, s2, r1, r2, n1

\* One sender and one receiver, both blocking.
PairCalls == (s1 :> {"send"}) @@ (r1 :> {"receive"})

\* Two of each, woken at will; one receiver may switch O_NONBLOCK, close and
\* open again, the other may die; a fifth process and a sender register for
\* notification.
CrowdCalls == (s1 :> {"send", "spurious", "notify"})
           @@ (s2 :> {"send", "setattr"})
           @@ (r1 :> {"receive", "spurious", "die"})
           @@ (r2 :> {"receive", "notify", "close"})
           @@ (n1 :> {"notify", "close", "die"})

\* The smallest party that shows the loss of a wake-up.
TwoReceiversCalls == (s1 :> {"send"}) @@ (r1 :> {"receive"}) @@ (r2 :> {"receive"})
=============================================================================
