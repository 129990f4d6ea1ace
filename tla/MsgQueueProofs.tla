--------------------------- MODULE MsgQueueProofs ---------------------------
(***************************************************************************)
(* Proofs about MsgQueue, for any processes, any number of slots and any   *)
(* messages: the two linked lists stay well formed, so that neither        *)
(* mq_send nor mq_receive ever returns with the mutex locked; mqh_nwait    *)
(* counts the blocked receivers; a registration names a live process and   *)
(* is used up exactly when the queue becomes nonempty with no receiver     *)
(* blocked; a lone sender or receiver never sleeps for nothing; and every  *)
(* step is one of PrioQueue or none.                                       *)
(***************************************************************************)
EXTENDS MsgQueue, FiniteSetTheorems, SequenceTheorems, WellFoundedInduction, TLAPS

-----------------------------------------------------------------------------
(* Induction over the naturals, for sets.                                  *)

LessThan == {ss \in Nat \X Nat : ss[1] < ss[2]}

\* The order of the naturals is well founded.
LEMMA LessThanWellFounded == IsWellFoundedOn(LessThan, Nat)
  BY NatLessThanWellFounded, Zenon DEF OpToRel, LessThan

\* A set that contains 0 and the successor of each of its naturals contains
\* every natural number.
LEMMA SetInduction ==
  ASSUME NEW S, 0 \in S, \A n \in Nat : n \in S => n + 1 \in S
  PROVE  Nat \subseteq S
<1> DEFINE T == Nat \ S
<1>1. SUFFICES ASSUME T # {} PROVE FALSE
  OBVIOUS
<1>2. PICK x \in T : \A y \in T : ~(<<y, x>> \in LessThan)
  BY <1>1, LessThanWellFounded, WFMin
<1>3. x # 0 /\ x \in Nat
  OBVIOUS
<1>4. x - 1 \in Nat /\ x - 1 < x
  BY <1>3
<1>5. <<x - 1, x>> \in LessThan
  <2> HIDE DEF T
  <2> QED BY <1>3, <1>4 DEF LessThan
<1>6. x - 1 \in S
  BY <1>2, <1>4, <1>5
<1>7. (x - 1) + 1 = x
  BY <1>3
<1> QED BY <1>4, <1>6, <1>7

-----------------------------------------------------------------------------
(* Lists.                                                                  *)

\* The parts of a list: a sequence of slots that the links join from the first
\* index to 0.
LEMMA ListType ==
  ASSUME NEW s \in Lists
  PROVE  /\ Len(s) \in 0..mq_maxmsg
         /\ s \in [1..Len(s) -> Slots]
<1>1. PICK n \in 0..mq_maxmsg : s \in [1..n -> Slots]
  BY DEF Lists
<1>2. n \in Nat
  BY MaxMsgAssumption
<1>3. s \in Seq(Slots)
  BY <1>1, <1>2
<1>4. Len(s) = n
  BY <1>1, <1>2, <1>3
<1> QED BY <1>1, <1>4

\* A function from 1..n to the slots, n within the capacity, is one of Lists.
LEMMA ListIntro ==
  ASSUME NEW n \in 0..mq_maxmsg, NEW s \in [1..n -> Slots]
  PROVE  s \in Lists /\ Len(s) = n
<1>1. n \in Nat
  BY MaxMsgAssumption
<1>2. s \in Seq(Slots)
  BY <1>1
<1> QED BY <1>1, <1>2 DEF Lists

\* The links from one index make one list: what MessageList chooses is the
\* only sequence it can choose.
LEMMA ListUnique ==
  ASSUME NEW next, NEW first, NEW s \in Lists, NEW t \in Lists,
         IsList(next, s, first), IsList(next, t, first)
  PROVE  s = t
<1> USE MaxMsgAssumption
<1> DEFINE m == Len(s)
           n == Len(t)
           S == {i \in Nat : (i < m <=> i < n) /\ (i < m => s[i + 1] = t[i + 1])}
<1>1. /\ m \in 0..mq_maxmsg /\ s \in [1..m -> Slots]
      /\ n \in 0..mq_maxmsg /\ t \in [1..n -> Slots]
  BY ListType
<1>2. \A x \in Slots : x # 0
  BY DEF Slots
<1>3. \A i \in 1..m : s[i] # 0
  BY <1>1, <1>2
<1>4. \A i \in 1..n : t[i] # 0
  BY <1>1, <1>2
<1>4a. /\ first = IF m = 0 THEN 0 ELSE s[1]
       /\ first = IF n = 0 THEN 0 ELSE t[1]
       /\ \A i \in 1..m : next[s[i]] = IF i = m THEN 0 ELSE s[i + 1]
       /\ \A i \in 1..n : next[t[i]] = IF i = n THEN 0 ELSE t[i + 1]
  BY DEF IsList
<1> HIDE DEF m, n
<1>5. 0 \in S
  <2>1. m = 0 <=> n = 0
    BY <1>1, <1>3, <1>4, <1>4a
  <2>2. m # 0 => s[0 + 1] = t[0 + 1]
    BY <2>1, <1>4a
  <2> QED BY <2>1, <2>2, <1>1
<1>6. ASSUME NEW i \in Nat, i \in S PROVE i + 1 \in S
  <2>1. CASE i >= m
    BY <2>1, <1>1, <1>6
  <2>2. CASE i < m
    <3>1. i + 1 \in 1..m /\ i + 1 \in 1..n /\ s[i + 1] = t[i + 1]
      BY <2>2, <1>1, <1>6
    <3>2. (IF i + 1 = m THEN 0 ELSE s[(i + 1) + 1])
           = (IF i + 1 = n THEN 0 ELSE t[(i + 1) + 1])
      BY <3>1, <1>4a
    <3>3. i + 1 # m => (i + 1) + 1 \in 1..m
      BY <3>1, <1>1
    <3>4. i + 1 # n => (i + 1) + 1 \in 1..n
      BY <3>1, <1>1
    <3>5. i + 1 # m => s[(i + 1) + 1] # 0
      BY <3>3, <1>3
    <3>6. i + 1 # n => t[(i + 1) + 1] # 0
      BY <3>4, <1>4
    <3>7. i + 1 = m <=> i + 1 = n
      BY <3>2, <3>5, <3>6
    <3>8. i + 1 < m => s[(i + 1) + 1] = t[(i + 1) + 1]
      BY <3>1, <3>2, <3>7
    <3>9. i + 1 < m <=> i + 1 < n
      BY <3>1, <3>7, <1>1
    <3> QED BY <3>8, <3>9
  <2> QED BY <2>1, <2>2, <1>1
<1>7. Nat \subseteq S
  <2> HIDE DEF S
  <2> QED BY <1>5, <1>6, SetInduction
<1>8. \A i \in Nat : (i < m <=> i < n) /\ (i < m => s[i + 1] = t[i + 1])
  BY <1>7
<1>9. m = n
  <2>1. ~(m < n) /\ ~(n < m)
    BY <1>1, <1>8
  <2> QED BY <2>1, <1>1
<1>10. \A i \in 1..m : s[i] = t[i]
  <2> SUFFICES ASSUME NEW i \in 1..m PROVE s[i] = t[i]
    OBVIOUS
  <2>1. i - 1 \in Nat /\ i - 1 < m /\ (i - 1) + 1 = i
    BY <1>1
  <2> QED BY <2>1, <1>8
<1> QED BY <1>1, <1>9, <1>10

\* A nonempty set of naturals has a least element.
LEMMA LeastNatural ==
  ASSUME NEW S, S \subseteq Nat, S # {}
  PROVE  \E x \in S : \A y \in S : x <= y
<1>1. PICK x \in S : \A y \in S : ~(<<y, x>> \in LessThan)
  BY LessThanWellFounded, WFMin
<1>2. ASSUME NEW y \in S PROVE x <= y
  <2>1. x \in Nat /\ y \in Nat
    OBVIOUS
  <2>2. y < x => <<y, x>> \in LessThan
    BY <2>1 DEF LessThan
  <2> QED BY <1>1, <2>1, <2>2
<1> QED BY <1>2

-----------------------------------------------------------------------------
(* The two lists of the mapped file.                                       *)

\* s and f list the messages and the free slots: no slot is listed twice and
\* none is missing.
TwoLists(next, free, s, f) ==
  /\ IsList(next, s, next[0])
  /\ IsList(next, f, free)
  /\ Len(s) + Len(f) = mq_maxmsg
  /\ \A i, j \in 1..Len(s) : s[i] = s[j] => i = j
  /\ \A i, j \in 1..Len(f) : f[i] = f[j] => i = j
  /\ \A i \in 1..Len(s), j \in 1..Len(f) : s[i] # f[j]
  /\ \A x \in Slots : \/ \E i \in 1..Len(s) : s[i] = x
                      \/ \E i \in 1..Len(f) : f[i] = x

\* TwoLists from its parts, with names for the two lengths.
LEMMA TwoListsIntro ==
  ASSUME NEW next, NEW free, NEW s, NEW f, NEW m, NEW n, Len(s) = m, Len(f) = n,
         IsList(next, s, next[0]), IsList(next, f, free), m + n = mq_maxmsg,
         \A i, j \in 1..m : s[i] = s[j] => i = j,
         \A i, j \in 1..n : f[i] = f[j] => i = j,
         \A i \in 1..m, j \in 1..n : s[i] # f[j],
         \A x \in Slots : (\E i \in 1..m : s[i] = x) \/ (\E i \in 1..n : f[i] = x)
  PROVE  TwoLists(next, free, s, f)
  BY DEF TwoLists

\* The lists and links that result when x is put after the k-th element of s,
\* the head of f is taken off, and the slot x is linked in after prev.
PutAfter(s, k, x) ==
  [i \in 1..Len(s) + 1 |->
     IF i <= k THEN s[i] ELSE IF i = k + 1 THEN x ELSE s[i - 1]]
Rest(f) == [i \in 1..Len(f) - 1 |-> f[i + 1]]
Relinked(next, x, prev) == [next EXCEPT ![x] = next[prev], ![prev] = x]
Unlinked(next, x, free) == [next EXCEPT ![0] = next[x], ![x] = free]

\* mq_send's relinking moves the first free slot to the place after the k-th
\* message and leaves two well-formed lists.
LEMMA PutLists ==
  ASSUME NEW next \in [Links -> Links], NEW s \in Lists, NEW f \in Lists,
         NEW free, TwoLists(next, free, s, f), Len(f) > 0,
         NEW k \in 0..Len(s), NEW prev, prev = IF k = 0 THEN 0 ELSE s[k],
         NEW new, new = Relinked(next, free, prev),
         NEW s2, s2 = PutAfter(s, k, free),
         NEW f2, f2 = Rest(f)
  PROVE  /\ free # 0
         /\ new \in [Links -> Links]
         /\ s2 \in Lists /\ Len(s2) = Len(s) + 1
         /\ f2 \in Lists
         /\ TwoLists(new, next[free], s2, f2)
<1> USE MaxMsgAssumption
<1> DEFINE m == Len(s)
           n == Len(f)
<1>1. /\ m \in 0..mq_maxmsg /\ s \in [1..m -> Slots]
      /\ n \in 0..mq_maxmsg /\ f \in [1..n -> Slots]
      /\ n > 0
  BY ListType
<1>2. Slots \subseteq Links /\ 0 \in Links /\ 0 \notin Slots
  BY DEF Slots, Links
<1>3. /\ next[0] = IF m = 0 THEN 0 ELSE s[1]
      /\ \A i \in 1..m : next[s[i]] = IF i = m THEN 0 ELSE s[i + 1]
      /\ free = IF n = 0 THEN 0 ELSE f[1]
      /\ \A i \in 1..n : next[f[i]] = IF i = n THEN 0 ELSE f[i + 1]
      /\ m + n = mq_maxmsg
      /\ \A i, j \in 1..m : s[i] = s[j] => i = j
      /\ \A i, j \in 1..n : f[i] = f[j] => i = j
      /\ \A i \in 1..m, j \in 1..n : s[i] # f[j]
      /\ \A x \in Slots : \/ \E i \in 1..m : s[i] = x
                          \/ \E i \in 1..n : f[i] = x
  BY DEF TwoLists, IsList
<1>4. /\ k \in 0..m
      /\ s2 = [i \in 1..m + 1 |-> IF i <= k THEN s[i]
                                  ELSE IF i = k + 1 THEN free ELSE s[i - 1]]
      /\ f2 = [i \in 1..n - 1 |-> f[i + 1]]
  BY DEF PutAfter, Rest
<1>4a. k \in 0..m
  OBVIOUS
<1> HIDE DEF m, n
<1>5. free \in Slots /\ free = f[1] /\ \A i \in 1..m : s[i] # free
  <2>1. 1 \in 1..n
    BY <1>1
  <2>2. free = f[1]
    BY <1>1, <1>3
  <2>3. f[1] \in Slots
    BY <2>1, <1>1
  <2>4. \A i \in 1..m : s[i] # f[1]
    BY <2>1, <1>3
  <2> QED BY <2>2, <2>3, <2>4
<1>6. prev \in Links /\ prev # free
  BY <1>1, <1>2, <1>4, <1>5
<1>7. new \in [Links -> Links]
  BY <1>2, <1>5, <1>6 DEF Relinked
<1>8. s2 \in [1..m + 1 -> Slots] /\ m + 1 \in 0..mq_maxmsg
  <2>1. \A i \in 1..m + 1 : i <= k => i \in 1..m
    BY <1>1, <1>4
  <2>2. \A i \in 1..m + 1 : i > k + 1 => i - 1 \in 1..m
    BY <1>1, <1>4
  <2>3. \A i \in 1..m + 1 : i <= k \/ i = k + 1 \/ i > k + 1
    BY <1>1, <1>4
  <2> QED BY <2>1, <2>2, <2>3, <1>1, <1>3, <1>4, <1>5, SMTT(20)
<1>9. f2 \in [1..n - 1 -> Slots] /\ n - 1 \in 0..mq_maxmsg
  <2>1. \A i \in 1..n - 1 : i + 1 \in 1..n
    BY <1>1
  <2> QED BY <2>1, <1>1, <1>4
<1>10. s2 \in Lists /\ Len(s2) = m + 1 /\ f2 \in Lists /\ Len(f2) = n - 1
  BY <1>8, <1>9, ListIntro
<1>11. /\ \A i \in 1..k : s2[i] = s[i] /\ i \in 1..m
       /\ s2[k + 1] = free /\ k + 1 \in 1..m + 1
       /\ \A i \in k + 2..m + 1 : s2[i] = s[i - 1] /\ i - 1 \in 1..m /\ i - 1 > k
       /\ \A i \in 1..m + 1 : i \in 1..k \/ i = k + 1 \/ i \in k + 2..m + 1
  <2>1. ASSUME NEW i \in 1..k PROVE s2[i] = s[i] /\ i \in 1..m
    <3>1. i \in 1..m /\ i \in 1..m + 1 /\ i <= k
      BY <1>1, <1>4
    <3> QED BY <3>1, <1>4
  <2>2. s2[k + 1] = free /\ k + 1 \in 1..m + 1
    <3>1. k + 1 \in 1..m + 1 /\ ~(k + 1 <= k)
      BY <1>1, <1>4
    <3> QED BY <3>1, <1>4
  <2>3. ASSUME NEW i \in k + 2..m + 1
        PROVE  s2[i] = s[i - 1] /\ i - 1 \in 1..m /\ i - 1 > k
    <3>1. i \in 1..m + 1 /\ ~(i <= k) /\ i # k + 1 /\ i - 1 \in 1..m /\ i - 1 > k
      BY <1>1, <1>4
    <3> QED BY <3>1, <1>4
  <2>4. \A i \in 1..m + 1 : i \in 1..k \/ i = k + 1 \/ i \in k + 2..m + 1
    BY <1>1, <1>4
  <2> QED BY <2>1, <2>2, <2>3, <2>4
<1>12. /\ new[free] = next[prev]
       /\ new[prev] = free
       /\ \A x \in Links : x # free /\ x # prev => new[x] = next[x]
  BY <1>2, <1>5, <1>6 DEF Relinked
<1>13. IsList(new, s2, new[0])
  <2>1. new[0] = s2[1]
    <3>1. CASE k = 0
      BY <3>1, <1>11, <1>12
    <3>2. CASE k # 0
      <4>1. prev = s[k] /\ k \in 1..m /\ 1 \in 1..k
        BY <3>2, <1>1, <1>4
      <4>2. 0 # prev /\ 0 # free
        BY <4>1, <1>1, <1>2, <1>5
      <4>3. new[0] = next[0] /\ next[0] = s[1]
        BY <4>1, <4>2, <1>1, <1>2, <1>3, <1>12
      <4> QED BY <4>1, <4>3, <1>11
    <3> QED BY <3>1, <3>2
  <2>2. ASSUME NEW i \in 1..m + 1
        PROVE  new[s2[i]] = IF i = m + 1 THEN 0 ELSE s2[i + 1]
    <3>1. CASE i \in 1..k /\ i # k
      <4>1. /\ i \in 1..m /\ k \in 1..m /\ i # m /\ i # m + 1
            /\ i + 1 \in 1..k /\ prev = s[k]
        BY <3>1, <1>1, <1>4
      <4>2. s2[i] = s[i] /\ s2[i + 1] = s[i + 1]
        BY <3>1, <4>1, <1>11
      <4>3a. s[i] # s[k]
        BY <3>1, <4>1, <1>3
      <4>3. s[i] # prev /\ s[i] # free /\ s[i] \in Links
        BY <4>1, <4>3a, <1>1, <1>2, <1>5
      <4>4. new[s[i]] = next[s[i]]
        BY <4>3, <1>12
      <4>5. next[s[i]] = s[i + 1]
        BY <4>1, <1>3
      <4> QED BY <4>1, <4>2, <4>4, <4>5
    <3>2. CASE i \in 1..k /\ i = k
      <4>1. i # m + 1 /\ prev = s[k] /\ s2[i] = s[i]
        BY <3>2, <1>1, <1>4, <1>11
      <4> QED BY <3>2, <4>1, <1>11, <1>12
    <3>3. CASE i = k + 1
      <4>1. next[prev] = IF k = m THEN 0 ELSE s[k + 1]
        <5>1. CASE k = 0
          BY <5>1, <1>1, <1>3
        <5>2. CASE k # 0
          <6>1. k \in 1..m /\ prev = s[k]
            BY <5>2, <1>1, <1>4
          <6> QED BY <6>1, <1>3
        <5> QED BY <5>1, <5>2
      <4>2. k # m => s2[(k + 1) + 1] = s[k + 1]
        <5>1. k # m => (k + 1) + 1 \in k + 2..m + 1 /\ ((k + 1) + 1) - 1 = k + 1
          BY <1>1, <1>4
        <5> QED BY <5>1, <1>11
      <4>3. k = m <=> i = m + 1
        BY <3>3, <1>1, <1>4
      <4>4. new[s2[i]] = next[prev]
        BY <3>3, <1>11, <1>12
      <4> QED BY <3>3, <4>1, <4>2, <4>3, <4>4
    <3>4. CASE i \in k + 2..m + 1
      <4>1. s2[i] = s[i - 1] /\ i - 1 \in 1..m /\ i - 1 > k
        BY <3>4, <1>11
      <4>2. s[i - 1] # prev
        <5>1. CASE k = 0
          BY <5>1, <4>1, <1>1, <1>2
        <5>2. CASE k # 0
          <6>1. k \in 1..m /\ prev = s[k] /\ i - 1 # k
            BY <5>2, <4>1, <1>1, <1>4
          <6> QED BY <6>1, <4>1, <1>3
        <5> QED BY <5>1, <5>2
      <4>3. s[i - 1] # free /\ s[i - 1] \in Links
        BY <4>1, <1>1, <1>2, <1>5
      <4>4. new[s2[i]] = next[s[i - 1]]
        BY <4>1, <4>2, <4>3, <1>12
      <4>5. next[s[i - 1]] = IF i - 1 = m THEN 0 ELSE s[(i - 1) + 1]
        BY <4>1, <1>3
      <4>6. /\ (i - 1) + 1 = i /\ (i + 1) - 1 = i
            /\ i - 1 = m <=> i = m + 1
            /\ i # m + 1 => i + 1 \in k + 2..m + 1
        BY <3>4, <1>1, <1>4
      <4>7. i # m + 1 => s2[i + 1] = s[i]
        BY <4>6, <1>11
      <4> QED BY <4>4, <4>5, <4>6, <4>7
    <3> QED BY <3>1, <3>2, <3>3, <3>4, <1>11
  <2>3. m + 1 # 0
    BY <1>1
  <2> QED BY <2>1, <2>2, <2>3, <1>10 DEF IsList
<1>14. IsList(new, f2, next[free])
  <2>1. next[free] = IF n = 1 THEN 0 ELSE f[2]
    <3>1. 1 \in 1..n
      BY <1>1
    <3> QED BY <3>1, <1>3, <1>5
  <2>2. n # 1 => f2[1] = f[2]
    BY <1>1, <1>4
  <2>3. n - 1 = 0 <=> n = 1
    BY <1>1
  <2>4. ASSUME NEW i \in 1..n - 1
        PROVE  new[f2[i]] = IF i = n - 1 THEN 0 ELSE f2[i + 1]
    <3>1. f2[i] = f[i + 1] /\ i + 1 \in 1..n /\ i + 1 # 1 /\ 1 \in 1..n
      BY <1>1, <1>4
    <3>2. f[i + 1] # free /\ f[i + 1] \in Links
      BY <3>1, <1>1, <1>2, <1>3, <1>5
    <3>3. f[i + 1] # prev
      <4>1. CASE k = 0
        BY <4>1, <3>1, <1>1, <1>2
      <4>2. CASE k # 0
        <5>1. k \in 1..m /\ prev = s[k]
          BY <4>2, <1>1, <1>4
        <5> QED BY <5>1, <3>1, <1>3
      <4> QED BY <4>1, <4>2
    <3>4. new[f2[i]] = next[f[i + 1]]
      BY <3>1, <3>2, <3>3, <1>12
    <3>5. next[f[i + 1]] = IF i + 1 = n THEN 0 ELSE f[(i + 1) + 1]
      BY <3>1, <1>3
    <3>6. (i + 1 = n <=> i = n - 1) /\ (i # n - 1 => i + 1 \in 1..n - 1)
      BY <1>1
    <3>7. i # n - 1 => f2[i + 1] = f[(i + 1) + 1]
      BY <3>6, <1>4
    <3> QED BY <3>4, <3>5, <3>6, <3>7
  <2>5. next[free] = IF n - 1 = 0 THEN 0 ELSE f2[1]
    BY <2>1, <2>2, <2>3
  <2> QED BY <2>4, <2>5, <1>10 DEF IsList
<1>15. \A i, j \in 1..m + 1 : s2[i] = s2[j] => i = j
  <2>1. ASSUME NEW i \in 1..m + 1, NEW j \in 1..m + 1, s2[i] = s2[j], i < j
        PROVE  FALSE
    <3>1. CASE j \in 1..k
      <4>1. i \in 1..k
        BY <2>1, <3>1, <1>1, <1>4
      <4>1a. s2[i] = s[i] /\ i \in 1..m /\ s2[j] = s[j] /\ j \in 1..m
        BY <3>1, <4>1, <1>11
      <4>1b. i # j
        BY <2>1, <1>1
      <4>2. s[i] = s[j] /\ i \in 1..m /\ j \in 1..m /\ i # j
        BY <2>1, <4>1a, <4>1b
      <4> QED BY <4>2, <1>3
    <3>2. CASE j = k + 1
      <4>1. i \in 1..k
        BY <2>1, <3>2, <1>1, <1>4
      <4> QED BY <2>1, <3>2, <4>1, <1>5, <1>11
    <3>3. CASE j \in k + 2..m + 1
      <4>1. s2[j] = s[j - 1] /\ j - 1 \in 1..m /\ j - 1 > k
        BY <3>3, <1>11
      <4>2. CASE i \in 1..k
        <5>0. i # j - 1
          BY <4>1, <4>2, <1>4
        <5>1. s2[i] = s[i] /\ i \in 1..m /\ i # j - 1
          BY <4>2, <5>0, <1>11
        <5> QED BY <2>1, <4>1, <5>1, <1>3
      <4>3. CASE i = k + 1
        BY <2>1, <4>1, <4>3, <1>5, <1>11
      <4>4. CASE i \in k + 2..m + 1
        <5>0. i - 1 # j - 1
          BY <2>1
        <5>1. s2[i] = s[i - 1] /\ i - 1 \in 1..m /\ i - 1 # j - 1
          BY <4>4, <5>0, <1>11
        <5> QED BY <2>1, <4>1, <5>1, <1>3
      <4> QED BY <4>2, <4>3, <4>4, <1>11
    <3> QED BY <3>1, <3>2, <3>3, <1>11
  <2>2. ASSUME NEW i \in 1..m + 1, NEW j \in 1..m + 1, s2[i] = s2[j]
        PROVE  i = j
    <3>1. ~(i < j) /\ ~(j < i)
      BY <2>1, <2>2
    <3> QED BY <3>1, <1>1
  <2> QED BY <2>2
<1>16. \A i, j \in 1..n - 1 : f2[i] = f2[j] => i = j
  <2> SUFFICES ASSUME NEW i \in 1..n - 1, NEW j \in 1..n - 1, f2[i] = f2[j]
               PROVE  i = j
    OBVIOUS
  <2>1. i + 1 \in 1..n /\ j + 1 \in 1..n /\ f2[i] = f[i + 1] /\ f2[j] = f[j + 1]
    BY <1>1, <1>4
  <2>2. i + 1 = j + 1
    <3>1. \A a, b \in 1..n : f[a] = f[b] => a = b
      BY <1>3
    <3>2. f[i + 1] = f[j + 1]
      BY <2>1
    <3> QED BY <2>1, <3>1, <3>2, Zenon
  <2> QED BY <2>2
<1>18. \A i \in 1..m + 1, j \in 1..n - 1 : s2[i] # f2[j]
  <2> SUFFICES ASSUME NEW i \in 1..m + 1, NEW j \in 1..n - 1
               PROVE  s2[i] # f2[j]
    OBVIOUS
  <2>1. j + 1 \in 1..n /\ f2[j] = f[j + 1] /\ 1 \in 1..n /\ j + 1 # 1
    BY <1>1, <1>4
  <2>2. f[j + 1] # free
    BY <2>1, <1>3, <1>5
  <2>3. s2[i] = free \/ \E x \in 1..m : s2[i] = s[x]
    BY <1>11
  <2> QED BY <2>1, <2>2, <2>3, <1>3
<1>19. ASSUME NEW x \in Slots
       PROVE  \/ \E i \in 1..m + 1 : s2[i] = x
              \/ \E i \in 1..n - 1 : f2[i] = x
  <2>1. CASE \E i \in 1..m : s[i] = x
    <3>1. PICK i \in 1..m : s[i] = x
      BY <2>1
    <3>2. CASE i <= k
      <4>1. i \in 1..k /\ i \in 1..m + 1
        BY <3>2, <1>1, <1>4
      <4> QED BY <3>1, <4>1, <1>11
    <3>3. CASE i > k
      <4>1. i + 1 \in k + 2..m + 1 /\ i + 1 \in 1..m + 1 /\ (i + 1) - 1 = i
        BY <3>3, <1>1, <1>4
      <4> QED BY <3>1, <4>1, <1>11
    <3> QED BY <3>2, <3>3, <1>1, <1>4a
  <2>2. CASE \E i \in 1..n : f[i] = x
    <3>1. PICK i \in 1..n : f[i] = x
      BY <2>2
    <3>2. CASE i = 1
      BY <3>1, <3>2, <1>5, <1>11
    <3>3. CASE i # 1
      <4>1. i - 1 \in 1..n - 1 /\ (i - 1) + 1 = i
        BY <3>3, <1>1
      <4>2. f2[i - 1] = f[i]
        BY <4>1, <1>4
      <4> QED BY <3>1, <4>1, <4>2
    <3> QED BY <3>2, <3>3
  <2> QED BY <2>1, <2>2, <1>3
<1>17. (m + 1) + (n - 1) = mq_maxmsg
  BY <1>1, <1>3
<1>20. TwoLists(new, next[free], s2, f2)
  BY <1>10, <1>13, <1>14, <1>15, <1>16, <1>17, <1>18, <1>19, TwoListsIntro
<1> QED BY <1>2, <1>5, <1>7, <1>10, <1>20 DEF m

\* mq_receive's relinking moves the first message to the head of the free list.
LEMMA TakeLists ==
  ASSUME NEW next \in [Links -> Links], NEW s \in Lists, NEW f \in Lists,
         NEW free \in Links, TwoLists(next, free, s, f), Len(s) > 0,
         NEW index, index = next[0],
         NEW new, new = Unlinked(next, index, free),
         NEW s2, s2 = Rest(s), NEW f2, f2 = PutAfter(f, 0, index)
  PROVE  /\ index = s[1] /\ index \in Slots
         /\ new \in [Links -> Links]
         /\ s2 \in Lists /\ Len(s2) = Len(s) - 1
         /\ f2 \in Lists
         /\ TwoLists(new, index, s2, f2)
<1> USE MaxMsgAssumption
<1> DEFINE m == Len(s)
           n == Len(f)
<1>1. /\ m \in 0..mq_maxmsg /\ s \in [1..m -> Slots]
      /\ n \in 0..mq_maxmsg /\ f \in [1..n -> Slots]
      /\ m > 0
  BY ListType
<1>2. Slots \subseteq Links /\ 0 \in Links /\ 0 \notin Slots
  BY DEF Slots, Links
<1>3. /\ next[0] = IF m = 0 THEN 0 ELSE s[1]
      /\ \A i \in 1..m : next[s[i]] = IF i = m THEN 0 ELSE s[i + 1]
      /\ free = IF n = 0 THEN 0 ELSE f[1]
      /\ \A i \in 1..n : next[f[i]] = IF i = n THEN 0 ELSE f[i + 1]
      /\ m + n = mq_maxmsg
      /\ \A i, j \in 1..m : s[i] = s[j] => i = j
      /\ \A i, j \in 1..n : f[i] = f[j] => i = j
      /\ \A i \in 1..m, j \in 1..n : s[i] # f[j]
      /\ \A x \in Slots : \/ \E i \in 1..m : s[i] = x
                          \/ \E i \in 1..n : f[i] = x
  BY DEF TwoLists, IsList
<1>4. /\ \A i \in 1..m - 1 : s2[i] = s[i + 1] /\ i + 1 \in 1..m /\ i + 1 # 1
      /\ s2 = [i \in 1..m - 1 |-> s[i + 1]]
  BY <1>1 DEF Rest
<1>5. /\ f2 = [i \in 1..n + 1 |-> IF i <= 0 THEN f[i]
                                  ELSE IF i = 0 + 1 THEN index ELSE f[i - 1]]
  BY DEF PutAfter
<1> HIDE DEF m, n
<1>6. index = s[1] /\ index \in Slots /\ 1 \in 1..m
  BY <1>1, <1>3
<1>7. \A i \in 1..n : f[i] # index
  BY <1>1, <1>3, <1>6
<1>8. /\ f2[1] = index /\ 1 \in 1..n + 1
      /\ \A i \in 2..n + 1 : f2[i] = f[i - 1] /\ i - 1 \in 1..n
      /\ \A i \in 1..n + 1 : i = 1 \/ i \in 2..n + 1
  BY <1>1, <1>5
<1>9. /\ new \in [Links -> Links]
      /\ new[0] = next[index]
      /\ new[index] = free
      /\ \A x \in Slots : x # index => new[x] = next[x]
  BY <1>2, <1>6 DEF Unlinked
<1>10. /\ s2 \in Lists /\ Len(s2) = m - 1 /\ f2 \in Lists /\ Len(f2) = n + 1
  <2>1. s2 \in [1..m - 1 -> Slots] /\ m - 1 \in 0..mq_maxmsg
    BY <1>1, <1>4
  <2>2. f2 \in [1..n + 1 -> Slots]
    BY <1>1, <1>5, <1>6, <1>8
  <2>3. n + 1 \in 0..mq_maxmsg
    BY <1>1, <1>3
  <2> QED BY <2>1, <2>2, <2>3, ListIntro
<1>11. IsList(new, s2, new[0])
  <2>1. next[index] = IF m = 1 THEN 0 ELSE s[2]
    BY <1>3, <1>6
  <2>2. new[0] = IF m - 1 = 0 THEN 0 ELSE s2[1]
    <3>1. m # 1 => 1 \in 1..m - 1
      BY <1>1
    <3> QED BY <2>1, <3>1, <1>1, <1>4, <1>9
  <2>3. ASSUME NEW i \in 1..m - 1
        PROVE  new[s2[i]] = IF i = m - 1 THEN 0 ELSE s2[i + 1]
    <3>1. s2[i] = s[i + 1] /\ i + 1 \in 1..m /\ i + 1 # 1
      BY <1>4
    <3>2. s[i + 1] # index /\ s[i + 1] \in Slots
      BY <3>1, <1>1, <1>3, <1>6
    <3>2a. new[s2[i]] = next[s[i + 1]]
      BY <3>1, <3>2, <1>9
    <3>3. new[s2[i]] = IF i + 1 = m THEN 0 ELSE s[(i + 1) + 1]
      BY <3>1, <3>2a, <1>3
    <3>4. (i + 1 = m <=> i = m - 1) /\ (i # m - 1 => i + 1 \in 1..m - 1)
      BY <1>1
    <3> QED BY <3>3, <3>4, <1>4
  <2> QED BY <2>2, <2>3, <1>10 DEF IsList
<1>12. IsList(new, f2, index)
  <2>1. index = IF n + 1 = 0 THEN 0 ELSE f2[1]
    BY <1>1, <1>8
  <2>2. ASSUME NEW i \in 1..n + 1
        PROVE  new[f2[i]] = IF i = n + 1 THEN 0 ELSE f2[i + 1]
    <3>1. CASE i = 1
      <4>1. new[f2[i]] = IF n = 0 THEN 0 ELSE f[1]
        BY <3>1, <1>3, <1>8, <1>9
      <4>2. (n = 0 <=> i = n + 1) /\ (n # 0 => 2 \in 2..n + 1)
        BY <3>1, <1>1
      <4>3. n # 0 => f2[i + 1] = f[1]
        BY <3>1, <4>2, <1>8
      <4> QED BY <4>1, <4>2, <4>3
    <3>2. CASE i \in 2..n + 1
      <4>1. f2[i] = f[i - 1] /\ i - 1 \in 1..n
        BY <3>2, <1>8
      <4>2. f[i - 1] # index /\ f[i - 1] \in Slots
        BY <4>1, <1>1, <1>7
      <4>2a. new[f2[i]] = next[f[i - 1]]
        BY <4>1, <4>2, <1>9
      <4>3. new[f2[i]] = IF i - 1 = n THEN 0 ELSE f[(i - 1) + 1]
        BY <4>1, <4>2a, <1>3
      <4>4. /\ i - 1 = n <=> i = n + 1
            /\ (i - 1) + 1 = i /\ (i + 1) - 1 = i
            /\ i # n + 1 => i + 1 \in 2..n + 1
        BY <3>2, <1>1
      <4>5. i # n + 1 => f2[i + 1] = f[i]
        BY <4>4, <1>8
      <4> QED BY <4>3, <4>4, <4>5
    <3> QED BY <3>1, <3>2, <1>8
  <2> QED BY <2>1, <2>2, <1>10 DEF IsList
<1>13. \A i, j \in 1..m - 1 : s2[i] = s2[j] => i = j
  <2> SUFFICES ASSUME NEW i \in 1..m - 1, NEW j \in 1..m - 1, s2[i] = s2[j]
               PROVE  i = j
    OBVIOUS
  <2>1. i + 1 = j + 1
    BY <1>3, <1>4
  <2> QED BY <2>1, <1>1
<1>14. \A i, j \in 1..n + 1 : f2[i] = f2[j] => i = j
  <2> SUFFICES ASSUME NEW i \in 1..n + 1, NEW j \in 1..n + 1, f2[i] = f2[j]
               PROVE  i = j
    OBVIOUS
  <2>1. CASE i = 1 /\ j \in 2..n + 1
    BY <2>1, <1>7, <1>8
  <2>2. CASE j = 1 /\ i \in 2..n + 1
    BY <2>2, <1>7, <1>8
  <2>3. CASE i \in 2..n + 1 /\ j \in 2..n + 1
    <3>1. f[i - 1] = f[j - 1] /\ i - 1 \in 1..n /\ j - 1 \in 1..n
      BY <2>3, <1>8
    <3>2. i - 1 = j - 1
      BY <3>1, <1>3
    <3> QED BY <2>3, <3>2, <1>1
  <2> QED BY <2>1, <2>2, <2>3, <1>8
<1>15. \A i \in 1..m - 1, j \in 1..n + 1 : s2[i] # f2[j]
  <2> SUFFICES ASSUME NEW i \in 1..m - 1, NEW j \in 1..n + 1
               PROVE  s2[i] # f2[j]
    OBVIOUS
  <2>1. s2[i] = s[i + 1] /\ i + 1 \in 1..m /\ i + 1 # 1
    BY <1>4
  <2>2. s[i + 1] # index
    BY <2>1, <1>3, <1>6
  <2>3. f2[j] = index \/ \E x \in 1..n : f2[j] = f[x]
    BY <1>8
  <2> QED BY <2>1, <2>2, <2>3, <1>3
<1>16. ASSUME NEW x \in Slots
       PROVE  \/ \E i \in 1..m - 1 : s2[i] = x
              \/ \E i \in 1..n + 1 : f2[i] = x
  <2>1. CASE \E i \in 1..m : s[i] = x
    <3>1. PICK i \in 1..m : s[i] = x
      BY <2>1
    <3>2. CASE i = 1
      BY <3>1, <3>2, <1>6, <1>8
    <3>3. CASE i # 1
      <4>1. i - 1 \in 1..m - 1 /\ (i - 1) + 1 = i
        BY <3>3, <1>1
      <4>2. s2[i - 1] = s[i]
        BY <4>1, <1>4
      <4> QED BY <3>1, <4>1, <4>2
    <3> QED BY <3>2, <3>3
  <2>2. CASE \E i \in 1..n : f[i] = x
    <3>1. PICK i \in 1..n : f[i] = x
      BY <2>2
    <3>2. i + 1 \in 2..n + 1 /\ i + 1 \in 1..n + 1 /\ (i + 1) - 1 = i
      BY <1>1
    <3>3. f2[i + 1] = f[i]
      BY <3>2, <1>8
    <3> QED BY <3>1, <3>2, <3>3
  <2> QED BY <2>1, <2>2, <1>3
<1>17. (m - 1) + (n + 1) = mq_maxmsg
  BY <1>1, <1>3
<1>18. TwoLists(new, index, s2, f2)
  BY <1>10, <1>11, <1>12, <1>13, <1>14, <1>15, <1>16, <1>17, TwoListsIntro
<1> QED BY <1>6, <1>9, <1>10, <1>18 DEF m

-----------------------------------------------------------------------------
(* The inductive invariant.                                                *)

Counted(s, f) ==
  /\ TwoLists(msg_next, mqh_free, s, f)
  /\ Len(s) = mq_curmsgs
  /\ \A i \in 1..Len(s) : msg[s[i]] \in Messages

QueueInv == \E s, f \in Lists : Counted(s, f)

ArgInv == \A p \in Procs : pc[p] \in {"send_wait", "send_wake"} => arg[p] \in Messages

\* NwaitExact is inductive only together with what holds when processes died.
IInv == TypeOK /\ QueueInv /\ ArgInv /\ LockNeverLeaked /\ NwaitCovers /\ NwaitExact

-----------------------------------------------------------------------------
(* What waking does to the program counters.                               *)

\* Only p's thread moves; of the others a sleeper may have been woken.
MovesOnly(p) ==
  /\ pc' \in [Procs -> Places]
  /\ \A q \in Procs \ {p} :
       /\ pc'[q] \in {"send_wait", "send_wake"} <=> pc[q] \in {"send_wait", "send_wake"}
       /\ pc'[q] \in {"recv_wait", "recv_wake"} <=> pc[q] \in {"recv_wait", "recv_wake"}
       /\ pc'[q] = "dead" <=> pc[q] = "dead"

\* pthread_cond_signal moves threads from their waits to their wake-ups, no others.
LEMMA SignalMoves ==
  ASSUME NEW p \in Procs, pc \in [Procs -> Places],
         NEW home, home = [pc EXCEPT ![p] = "ready"],
         CondSignal(home) \/ pc' = home
  PROVE  MovesOnly(p) /\ pc'[p] = "ready"
<1>1. home \in [Procs -> Places]
  BY DEF Places
<1>2. CASE pc' = home
  BY <1>1, <1>2 DEF MovesOnly
<1>3. CASE CondSignal(home) /\ pc' # home
  <2>1. PICK q \in Procs :
          /\ home[q] \in {"send_wait", "recv_wait"}
          /\ pc' = [home EXCEPT ![q] = IF home[q] = "send_wait" THEN "send_wake"
                                                             ELSE "recv_wake"]
    BY <1>3 DEF CondSignal
  <2>2. q # p
    BY <2>1
  <2>3. pc' \in [Procs -> Places]
    BY <1>1, <2>1 DEF Places
  <2> QED BY <1>1, <2>1, <2>2, <2>3 DEF MovesOnly
<1> QED BY <1>2, <1>3

\* One thread moves: the number of blocked receivers follows it.
LEMMA CountMoves ==
  ASSUME NEW p \in Procs, pc \in [Procs -> Places], MovesOnly(p)
  PROVE  LET in == pc[p] \in {"recv_wait", "recv_wake"}
             out == pc'[p] \in {"recv_wait", "recv_wake"}
             n == Cardinality(BlockedReceivers)
         IN  /\ n \in Nat
             /\ Cardinality(BlockedReceivers)' =
                  IF in /\ ~out THEN n - 1 ELSE IF ~in /\ out THEN n + 1 ELSE n
<1> DEFINE B == {q \in Procs : pc[q] \in {"recv_wait", "recv_wake"}}
           C == {q \in Procs : pc'[q] \in {"recv_wait", "recv_wake"}}
<1>1. IsFiniteSet(B) /\ IsFiniteSet(C)
  BY ProcsAssumption, FS_Subset
<1>2. Cardinality(B) \in Nat
  BY <1>1, FS_CardinalityType
<1>3. BlockedReceivers = B /\ Cardinality(BlockedReceivers)' = Cardinality(C)
  BY DEF BlockedReceivers
<1>4. CASE p \in B /\ p \notin C
  <2>1. C = B \ {p}
    BY <1>4 DEF MovesOnly
  <2>2. Cardinality(C) = Cardinality(B) - 1
    BY <1>1, <1>4, <2>1, FS_RemoveElement
  <2> QED BY <1>2, <1>3, <1>4, <2>2
<1>5. CASE p \notin B /\ p \in C
  <2>1. C = B \cup {p}
    BY <1>5 DEF MovesOnly
  <2>2. Cardinality(C) = Cardinality(B) + 1
    BY <1>1, <1>5, <2>1, FS_AddElement
  <2> QED BY <1>2, <1>3, <1>5, <2>2
<1>6. CASE p \in B <=> p \in C
  <2>1. C = B
    BY <1>6 DEF MovesOnly
  <2> QED BY <1>2, <1>3, <1>6, <2>1
<1> QED BY <1>4, <1>5, <1>6

\* What the six conjuncts of IInv need to know of a step.
LEMMA StepInv ==
  ASSUME IInv, NEW p \in Procs, MovesOnly(p), TypeOK', QueueInv', LockNeverLeaked',
         pc[p] # "dead" \/ pc'[p] = "dead",
         \A q \in Procs \ {p} : arg'[q] = arg[q],
         pc'[p] \in {"send_wait", "send_wake"} => arg'[p] \in Messages,
         mqh_nwait' = mqh_nwait
           + (IF pc'[p] \in {"recv_wait", "recv_wake"} /\
                 pc[p] \notin {"recv_wait", "recv_wake"} THEN 1 ELSE 0)
           - (IF pc'[p] \notin {"recv_wait", "recv_wake", "dead"} /\
                 pc[p] \in {"recv_wait", "recv_wake"} THEN 1 ELSE 0)
  PROVE  IInv'
<1>1. ArgInv'
  BY DEF IInv, ArgInv, MovesOnly
<1> DEFINE n == Cardinality(BlockedReceivers)
<1>2. pc \in [Procs -> Places] /\ mqh_nwait \in Nat
  BY DEF IInv, TypeOK
<1>3. /\ n \in Nat
      /\ Cardinality(BlockedReceivers)' =
           IF pc[p] \in {"recv_wait", "recv_wake"} /\ pc'[p] \notin {"recv_wait", "recv_wake"}
           THEN n - 1
           ELSE IF pc[p] \notin {"recv_wait", "recv_wake"} /\ pc'[p] \in {"recv_wait", "recv_wake"}
           THEN n + 1 ELSE n
  BY <1>2, CountMoves
<1>4. /\ mqh_nwait >= n
      /\ (\A q \in Procs : pc[q] # "dead") => mqh_nwait = n
  BY DEF IInv, NwaitCovers, NwaitExact
<1>5. (\A q \in Procs : pc'[q] # "dead") => (\A q \in Procs : pc[q] # "dead")
  BY DEF MovesOnly
<1> HIDE DEF n
<1>6. NwaitCovers'
  BY <1>2, <1>3, <1>4 DEF NwaitCovers
<1>7. NwaitExact'
  BY <1>2, <1>3, <1>4, <1>5 DEF NwaitExact
<1> QED BY <1>1, <1>6, <1>7 DEF IInv

-----------------------------------------------------------------------------
(* mq_send and mq_receive on the lists.                                    *)

\* MessageList is the list that QueueInv says there is.
LEMMA MessageListIs ==
  ASSUME NEW s \in Lists, NEW f \in Lists, Counted(s, f)
  PROVE  MessageList = s
<1>1. IsList(msg_next, s, msg_next[0])
  BY DEF Counted, TwoLists
<1>2. MessageList \in Lists /\ IsList(msg_next, MessageList, msg_next[0])
  BY <1>1 DEF MessageList
<1> QED BY <1>1, <1>2, ListUnique

\* mq_send's loop stops at a place of the list, whatever the priority: k is how
\* many messages it passes.
LEMMA PlaceExists ==
  ASSUME NEW s \in Lists, NEW f \in Lists, Counted(s, f), NEW prio \in Nat
  PROVE  \E k \in 0..Len(s) :
           /\ \A i \in 1..k : prio <= msg[s[i]].prio
           /\ k < Len(s) => prio > msg[s[k + 1]].prio
           /\ PlaceAfter(s, prio) = IF k = 0 THEN 0 ELSE s[k]
<1> DEFINE m == Len(s)
           Stop(k) == k < m => prio > msg[s[k + 1]].prio
           Passed(k) == \A i \in 1..k : prio <= msg[s[i]].prio
           S == {k \in 0..m : Stop(k)}
<1>1. m \in Nat
  BY ListType
<1>2. \A i \in 1..m : msg[s[i]].prio \in Nat
  BY PriosAssumption DEF Counted, Messages
<1> HIDE DEF m
<1>3. m \in S /\ S \subseteq Nat
  BY <1>1
<1>4. PICK k \in S : \A y \in S : k <= y
  <2> HIDE DEF S
  <2> QED BY <1>3, LeastNatural
<1>5. Passed(k)
  <2> SUFFICES ASSUME NEW i \in 1..k PROVE prio <= msg[s[i]].prio
    OBVIOUS
  <2>1. i - 1 \in 0..m /\ i - 1 < k /\ (i - 1) + 1 = i /\ i \in 1..m /\ i - 1 < m
    BY <1>1, <1>4
  <2>2. i - 1 \notin S
    BY <2>1, <1>1, <1>4
  <2>3. ~(prio > msg[s[i]].prio)
    BY <2>1, <2>2
  <2> QED BY <2>1, <2>3, <1>2
<1>6. k \in 0..m /\ Stop(k)
  BY <1>4
<1> DEFINE j == CHOOSE j \in 0..m : Passed(j) /\ Stop(j)
<1>7. j \in 0..m /\ Passed(j) /\ Stop(j)
  <2> HIDE DEF Passed, Stop
  <2> QED BY <1>5, <1>6
<1>8. PlaceAfter(s, prio) = IF j = 0 THEN 0 ELSE s[j]
  BY DEF PlaceAfter, m
<1> HIDE DEF j
<1> QED BY <1>7, <1>8 DEF m

\* The slot that gets the message x is listed after the k messages of at least
\* its priority at the front.
PutMoves(x) ==
  \E s, f \in Lists : \E k \in 0..Len(s) :
    /\ Counted(s, f) /\ Len(s) < mq_maxmsg
    /\ \A i \in 1..k : x.prio <= msg[s[i]].prio
    /\ k < Len(s) => x.prio > msg[s[k + 1]].prio
    /\ msg' = [msg EXCEPT ![mqh_free] = x]
    /\ mqh_free \in Slots /\ \A i \in 1..Len(s) : s[i] # mqh_free
    /\ \E t, g \in Lists : t = PutAfter(s, k, mqh_free) /\ Counted(t, g)'

\* The first message goes to the caller.
TakeMoves ==
  \E s, f \in Lists :
    /\ Counted(s, f) /\ Len(s) > 0 /\ msg' = msg /\ last_out' = msg[s[1]]
    /\ \E t, g \in Lists : t = Rest(s) /\ Counted(t, g)'

\* Putting a message: a slot is free, and the lists stay well formed.
LEMMA PutSafe ==
  ASSUME TypeOK, QueueInv, LockNeverLeaked, NEW p \in Procs, NEW x \in Messages,
         mq_curmsgs < mq_maxmsg, Put(p, x)
  PROVE  /\ PutMoves(x)
         /\ QueueInv' /\ LockNeverLeaked' /\ MovesOnly(p) /\ pc'[p] = "ready"
         /\ mq_curmsgs' \in Links /\ msg_next' \in [Links -> Links]
         /\ mqh_free' \in Links /\ msg' \in [Slots -> Messages \cup {NoMsg}]
<1>1. PICK s \in Lists, f \in Lists : Counted(s, f)
  BY DEF QueueInv
<1>2. /\ Len(s) \in Nat /\ Len(f) \in Nat /\ Len(f) > 0 /\ f \in [1..Len(f) -> Slots]
      /\ s \in [1..Len(s) -> Slots]
  BY <1>1, ListType, MaxMsgAssumption DEF Counted, TwoLists
<1>3. TwoLists(msg_next, mqh_free, s, f)
  BY <1>1 DEF Counted
<1>4. mqh_free = f[1] /\ 1 \in 1..Len(f)
  <2>1. IsList(msg_next, f, mqh_free)
    BY <1>3 DEF TwoLists
  <2>2. mqh_free = IF Len(f) = 0 THEN 0 ELSE f[1]
    BY <2>1, Zenon DEF IsList
  <2>3. Len(f) # 0 /\ 1 \in 1..Len(f)
    BY <1>2
  <2> QED BY <2>2, <2>3
<1>5. mqh_free \in Slots /\ mqh_free # 0
  BY <1>2, <1>4 DEF Slots
<1>6. PICK k \in 0..Len(s) :
        /\ \A i \in 1..k : x.prio <= msg[s[i]].prio
        /\ k < Len(s) => x.prio > msg[s[k + 1]].prio
        /\ PlaceAfter(s, x.prio) = IF k = 0 THEN 0 ELSE s[k]
  BY <1>1, PlaceExists, PriosAssumption DEF Messages
<1> DEFINE prev == PlaceAfter(s, x.prio)
           home == [pc EXCEPT ![p] = "ready"]
<1>7. /\ mqh_free' = msg_next[mqh_free]
      /\ msg' = [msg EXCEPT ![mqh_free] = x]
      /\ msg_next' = Relinked(msg_next, mqh_free, prev)
      /\ CondSignal(home) \/ pc' = home
      /\ mq_curmsgs' = mq_curmsgs + 1
      /\ mqh_lock' = mqh_lock
  BY <1>1, <1>5, MessageListIs DEF Put, LinkAfter, SignalArrival, Relinked
<1> DEFINE s2 == PutAfter(s, k, mqh_free)
           f2 == Rest(f)
<1>8. msg_next \in [Links -> Links] /\ msg \in [Slots -> Messages \cup {NoMsg}]
      /\ pc \in [Procs -> Places] /\ mqh_free \in Links
  BY DEF TypeOK
<1>9. /\ msg_next' \in [Links -> Links]
      /\ s2 \in Lists /\ Len(s2) = Len(s) + 1
      /\ f2 \in Lists
      /\ TwoLists(msg_next', mqh_free', s2, f2)
  <2>1. /\ prev = IF k = 0 THEN 0 ELSE s[k]
        /\ s2 = PutAfter(s, k, mqh_free) /\ f2 = Rest(f)
        /\ msg_next' = Relinked(msg_next, mqh_free, prev)
        /\ mqh_free' = msg_next[mqh_free]
    BY <1>6, <1>7
  <2>2. msg_next \in [Links -> Links] /\ Len(f) > 0 /\ k \in 0..Len(s)
    BY <1>2, <1>6, <1>8
  <2> HIDE DEF s2, f2, prev
  <2>3. /\ msg_next' \in [Links -> Links]
        /\ s2 \in Lists /\ Len(s2) = Len(s) + 1
        /\ f2 \in Lists
        /\ TwoLists(msg_next', msg_next[mqh_free], s2, f2)
    BY <1>3, <2>1, <2>2, PutLists
  <2> QED BY <2>1, <2>3
<1>10. \A i \in 1..Len(s2) : msg'[s2[i]] \in Messages
  <2> SUFFICES ASSUME NEW i \in 1..Len(s) + 1 PROVE msg'[s2[i]] \in Messages
    BY <1>9
  <2>1. s2[i] = mqh_free \/ \E j \in 1..Len(s) : s2[i] = s[j]
    <3>1. s2[i] = IF i <= k THEN s[i] ELSE IF i = k + 1 THEN mqh_free ELSE s[i - 1]
      BY DEF PutAfter
    <3>2. (i <= k => i \in 1..Len(s)) /\ (~(i <= k) /\ i # k + 1 => i - 1 \in 1..Len(s))
      BY <1>2
    <3> QED BY <3>1, <3>2
  <2>2. \A j \in 1..Len(s) : msg[s[j]] \in Messages /\ s[j] \in Slots
    BY <1>1, <1>2 DEF Counted
  <2> HIDE DEF s2
  <2> QED BY <2>1, <2>2, <1>5, <1>7, <1>8
<1>11. Len(s) = mq_curmsgs /\ Len(s) + 1 = mq_curmsgs'
  BY <1>1, <1>7 DEF Counted
<1>12. QueueInv' /\ PutMoves(x)
  <2>0. \A i \in 1..Len(s) : s[i] # mqh_free
    BY <1>3, <1>4 DEF TwoLists
  <2> HIDE DEF s2, f2
  <2>1. PICK t \in Lists, g \in Lists : t = s2 /\ g = f2
    BY <1>9
  <2>2. Counted(t, g)'
    BY <2>1, <1>9, <1>10, <1>11 DEF Counted
  <2>3. PutMoves(x)
    <3>1. Len(s) < mq_maxmsg /\ t = PutAfter(s, k, mqh_free)
      BY <1>11, <2>1 DEF s2
    <3> QED BY <1>1, <1>5, <1>6, <1>7, <2>0, <2>2, <3>1 DEF PutMoves
  <2> QED BY <2>2, <2>3 DEF QueueInv
<1>13. MovesOnly(p) /\ pc'[p] = "ready"
  BY <1>7, <1>8, SignalMoves
<1>14. mq_curmsgs' \in Links
  BY <1>2, <1>11, MaxMsgAssumption DEF Links
<1>15. mqh_free' \in Links /\ msg' \in [Slots -> Messages \cup {NoMsg}]
  BY <1>5, <1>7, <1>8
<1> QED BY <1>7, <1>9, <1>12, <1>13, <1>14, <1>15 DEF LockNeverLeaked

\* Taking a message: there is one, and the lists stay well formed.
LEMMA TakeSafe ==
  ASSUME TypeOK, QueueInv, LockNeverLeaked, NEW p \in Procs, mq_curmsgs # 0, Take(p)
  PROVE  /\ TakeMoves
         /\ QueueInv' /\ LockNeverLeaked' /\ MovesOnly(p) /\ pc'[p] = "ready"
         /\ mq_curmsgs' \in Links /\ msg_next' \in [Links -> Links]
         /\ mqh_free' \in Links /\ msg' = msg /\ last_out' \in Messages
<1>1. PICK s \in Lists, f \in Lists : Counted(s, f)
  BY DEF QueueInv
<1>2. /\ Len(s) \in 0..mq_maxmsg /\ Len(s) > 0 /\ s \in [1..Len(s) -> Slots]
      /\ Len(s) = mq_curmsgs /\ 1 \in 1..Len(s)
  <2>1. Len(s) \in 0..mq_maxmsg /\ s \in [1..Len(s) -> Slots] /\ Len(s) = mq_curmsgs
    BY <1>1, ListType DEF Counted
  <2> QED BY <2>1, MaxMsgAssumption
<1>3. TwoLists(msg_next, mqh_free, s, f)
  BY <1>1 DEF Counted
<1> DEFINE index == msg_next[0]
           home == [pc EXCEPT ![p] = "ready"]
           s2 == Rest(s)
           f2 == PutAfter(f, 0, index)
           new == Unlinked(msg_next, index, mqh_free)
<1>4. msg_next \in [Links -> Links] /\ pc \in [Procs -> Places] /\ mqh_free \in Links
  BY DEF TypeOK
<1>5. /\ index = s[1] /\ index \in Slots
      /\ new \in [Links -> Links]
      /\ s2 \in Lists /\ Len(s2) = Len(s) - 1
      /\ f2 \in Lists
      /\ TwoLists(new, index, s2, f2)
  <2> HIDE DEF index, new, s2, f2
  <2> QED BY <1>2, <1>3, <1>4, TakeLists DEF index, new, s2, f2
<1>6. /\ msg_next' = new /\ mqh_free' = index
      /\ last_out' = msg[index]
      /\ CondSignal(home) \/ pc' = home
      /\ mq_curmsgs' = mq_curmsgs - 1
      /\ msg' = msg /\ mqh_lock' = mqh_lock
  <2>1. index # 0
    BY <1>5 DEF Slots
  <2> QED BY <2>1 DEF Take, SignalRoom, Unlinked
<1>7. \A j \in 1..Len(s) : msg[s[j]] \in Messages
  BY <1>1 DEF Counted
<1>8. \A i \in 1..Len(s2) : msg'[s2[i]] \in Messages
  <2> SUFFICES ASSUME NEW i \in 1..Len(s) - 1 PROVE msg[s2[i]] \in Messages
    BY <1>5, <1>6
  <2>1. s2[i] = s[i + 1] /\ i + 1 \in 1..Len(s)
    BY <1>2 DEF Rest
  <2> QED BY <2>1, <1>7
<1>9. Len(s2) = mq_curmsgs' /\ mq_curmsgs' \in Links
  BY <1>2, <1>5, <1>6, MaxMsgAssumption DEF Links
<1>10. QueueInv' /\ TakeMoves
  <2> HIDE DEF s2, f2, new, index
  <2>1. PICK t \in Lists, g \in Lists : t = s2 /\ g = f2
    BY <1>5
  <2>2. Counted(t, g)'
    BY <2>1, <1>5, <1>6, <1>8, <1>9 DEF Counted
  <2>3. TakeMoves
    <3>1. t = Rest(s)
      BY <2>1 DEF s2
    <3> QED BY <1>1, <1>2, <1>5, <1>6, <2>2, <3>1 DEF TakeMoves
  <2> QED BY <2>2, <2>3 DEF QueueInv
<1>11. MovesOnly(p) /\ pc'[p] = "ready"
  BY <1>4, <1>6, SignalMoves
<1>12. last_out' \in Messages
  BY <1>2, <1>5, <1>6, <1>7
<1>13. mqh_free' \in Links
  BY <1>5, <1>6 DEF Slots, Links
<1> QED BY <1>5, <1>6, <1>9, <1>10, <1>11, <1>12, <1>13 DEF LockNeverLeaked

-----------------------------------------------------------------------------
(* The inductive invariant holds in every reachable state.                 *)

\* Init: mq_open leaves two well-formed lists, all slots free.
LEMMA InitInv == Init => IInv
<1> SUFFICES ASSUME Init PROVE IInv
  OBVIOUS
<1> USE MaxMsgAssumption
<1>1. TypeOK
  BY DEF Init, TypeOK, Links, Slots, Events, Places
<1>2. QueueInv
  <2> DEFINE s == [i \in 1..0 |-> 1]
             f == [i \in 1..mq_maxmsg |-> i]
  <2>1. s \in Lists /\ Len(s) = 0 /\ f \in Lists /\ Len(f) = mq_maxmsg
    <3>1. s \in [1..0 -> Slots] /\ f \in [1..mq_maxmsg -> Slots]
          /\ 0 \in 0..mq_maxmsg /\ mq_maxmsg \in 0..mq_maxmsg
      BY DEF Slots
    <3> HIDE DEF s, f
    <3> QED BY <3>1, ListIntro
  <2>2. \A i \in 1..mq_maxmsg : f[i] = i
    OBVIOUS
  <2> HIDE DEF s, f
  <2>3. IsList(msg_next, s, msg_next[0])
    BY <2>1 DEF Init, IsList, Links
  <2>4. IsList(msg_next, f, mqh_free)
    BY <2>1, <2>2 DEF Init, IsList, Links
  <2>5. Counted(s, f)
    BY <2>1, <2>2, <2>3, <2>4 DEF Init, Counted, TwoLists, Slots
  <2> QED BY <2>1, <2>5 DEF QueueInv
<1>3. ArgInv /\ LockNeverLeaked
  BY DEF Init, ArgInv, LockNeverLeaked
<1>4. NwaitCovers /\ NwaitExact
  <2>1. BlockedReceivers = {}
    BY DEF Init, BlockedReceivers
  <2> QED BY <2>1, FS_EmptySet DEF Init, NwaitCovers, NwaitExact
<1> QED BY <1>1, <1>2, <1>3, <1>4 DEF IInv

\* Steps that leave the queue and the mutex alone keep QueueInv.
LEMMA QueueUnchanged ==
  ASSUME IInv, UNCHANGED <<queueVars, mqh_lock>>
  PROVE  QueueInv' /\ LockNeverLeaked'
  BY DEF IInv, QueueInv, Counted, queueVars, LockNeverLeaked

\* mq_send keeps the invariant, whichever way it returns or waits.
LEMMA SendInv ==
  ASSUME IInv, NEW p \in Procs, NEW m \in Messages, mq_send(p, m)
  PROVE  IInv'
<1> USE DEF procVars
<1>1. TypeOK /\ QueueInv /\ LockNeverLeaked /\ mq_curmsgs \in 0..mq_maxmsg
  BY DEF IInv, TypeOK, Links
<1>2. pc[p] = "ready" /\ UNCHANGED <<mqh_nwait, mqh_event, procVars, last_out>>
  BY DEF mq_send
<1>3. CASE mq_curmsgs < mq_maxmsg /\ Put(p, m) /\ UNCHANGED arg
           /\ mqh_pid' \in Procs \cup {NoProc} /\ sigpend' \in SUBSET Procs
  <2>1. /\ QueueInv' /\ LockNeverLeaked' /\ MovesOnly(p) /\ pc'[p] = "ready"
        /\ mq_curmsgs' \in Links /\ msg_next' \in [Links -> Links]
        /\ mqh_free' \in Links /\ msg' \in [Slots -> Messages \cup {NoMsg}]
    BY <1>1, <1>3, PutSafe
  <2>2. TypeOK'
    BY <1>1, <1>2, <1>3, <2>1 DEF TypeOK, MovesOnly, LockNeverLeaked
  <2> QED BY <1>1, <1>2, <1>3, <2>1, <2>2, StepInv DEF TypeOK
<1>4. CASE UNCHANGED <<queueVars, mqh_lock, mqh_pid, sigpend>>
           /\ \/ UNCHANGED <<pc, arg>>
              \/ /\ pc' = [pc EXCEPT ![p] = "send_wait"]
                 /\ arg' = [arg EXCEPT ![p] = m]
  <2>1. QueueInv' /\ LockNeverLeaked'
    BY <1>4, QueueUnchanged
  <2>2. MovesOnly(p) /\ (pc'[p] = "ready" \/ (pc'[p] = "send_wait" /\ arg'[p] = m))
    BY <1>1, <1>2, <1>4 DEF TypeOK, MovesOnly, Places
  <2>3. TypeOK'
    BY <1>1, <1>2, <1>4, <2>2 DEF TypeOK, MovesOnly, queueVars
  <2> QED BY <1>1, <1>2, <1>4, <2>1, <2>2, <2>3, StepInv DEF TypeOK
<1>5. NotifyRegistered => mqh_pid' \in Procs \cup {NoProc} /\ sigpend' \in SUBSET Procs
  BY <1>1 DEF NotifyRegistered, TypeOK
<1>6. mq_maxmsg > 0
  BY MaxMsgAssumption
<1> QED BY <1>1, <1>3, <1>4, <1>5, <1>6 DEF mq_send, TypeOK

\* So does mq_send after its wait.
LEMMA SendResumeInv ==
  ASSUME IInv, NEW p \in Procs, mq_send_resume(p)
  PROVE  IInv'
<1> USE DEF procVars
<1>1. TypeOK /\ QueueInv /\ LockNeverLeaked
  BY DEF IInv
<1>2. /\ pc[p] = "send_wake"
      /\ UNCHANGED <<mqh_nwait, mqh_pid, mqh_event, procVars, sigpend, last_out>>
  BY DEF mq_send_resume
<1>3. arg[p] \in Messages
  BY <1>2 DEF IInv, ArgInv
<1>4. CASE /\ mq_curmsgs < mq_maxmsg /\ Put(p, arg[p])
           /\ arg' = [arg EXCEPT ![p] = NoMsg]
  <2>1. /\ QueueInv' /\ LockNeverLeaked' /\ MovesOnly(p) /\ pc'[p] = "ready"
        /\ mq_curmsgs' \in Links /\ msg_next' \in [Links -> Links]
        /\ mqh_free' \in Links /\ msg' \in [Slots -> Messages \cup {NoMsg}]
    <3>1. PICK x \in Messages : x = arg[p]
      BY <1>3
    <3> QED BY <1>1, <1>4, <3>1, PutSafe
  <2>2. TypeOK'
    BY <1>1, <1>2, <1>4, <2>1 DEF TypeOK, MovesOnly, LockNeverLeaked
  <2> QED BY <1>1, <1>2, <1>4, <2>1, <2>2, StepInv DEF TypeOK
<1>5. CASE /\ pc' = [pc EXCEPT ![p] = "send_wait"]
           /\ UNCHANGED <<queueVars, mqh_lock, arg>>
  <2>1. QueueInv' /\ LockNeverLeaked'
    BY <1>5, QueueUnchanged
  <2>2. MovesOnly(p) /\ pc'[p] = "send_wait" /\ arg'[p] = arg[p]
    BY <1>1, <1>2, <1>5 DEF TypeOK, MovesOnly, Places
  <2>3. TypeOK'
    BY <1>1, <1>2, <1>5, <2>2 DEF TypeOK, MovesOnly, queueVars
  <2> QED BY <1>1, <1>2, <1>3, <1>5, <2>1, <2>2, <2>3, StepInv DEF TypeOK
<1> QED BY <1>4, <1>5 DEF mq_send_resume

\* mq_receive keeps the invariant, whichever way it returns or waits.
LEMMA ReceiveInv ==
  ASSUME IInv, NEW p \in Procs, mq_receive(p)
  PROVE  IInv'
<1> USE DEF procVars
<1>1. TypeOK /\ QueueInv /\ LockNeverLeaked /\ mqh_nwait \in Nat
  BY DEF IInv, TypeOK
<1>2. pc[p] = "ready" /\ UNCHANGED <<mqh_pid, mqh_event, procVars, arg, sigpend>>
  BY DEF mq_receive
<1>3. CASE mq_curmsgs # 0 /\ Take(p) /\ UNCHANGED mqh_nwait
  <2>1. /\ QueueInv' /\ LockNeverLeaked' /\ MovesOnly(p) /\ pc'[p] = "ready"
        /\ mq_curmsgs' \in Links /\ msg_next' \in [Links -> Links]
        /\ mqh_free' \in Links /\ msg' = msg /\ last_out' \in Messages
    BY <1>1, <1>3, TakeSafe
  <2>2. TypeOK'
    BY <1>1, <1>2, <1>3, <2>1 DEF TypeOK, MovesOnly, LockNeverLeaked
  <2> QED BY <1>1, <1>2, <1>3, <2>1, <2>2, StepInv
<1>4. CASE /\ UNCHANGED <<queueVars, mqh_lock, last_out>>
           /\ \/ UNCHANGED <<pc, mqh_nwait>>
              \/ mqh_nwait' = mqh_nwait + 1 /\ pc' = [pc EXCEPT ![p] = "recv_wait"]
  <2>1. QueueInv' /\ LockNeverLeaked'
    BY <1>4, QueueUnchanged
  <2>2. /\ MovesOnly(p)
        /\ \/ pc'[p] = "ready" /\ mqh_nwait' = mqh_nwait
           \/ pc'[p] = "recv_wait" /\ mqh_nwait' = mqh_nwait + 1
    BY <1>1, <1>2, <1>4 DEF TypeOK, MovesOnly, Places
  <2>3. TypeOK'
    BY <1>1, <1>2, <1>4, <2>2 DEF TypeOK, MovesOnly, queueVars
  <2> QED BY <1>1, <1>2, <2>1, <2>2, <2>3, StepInv
<1> QED BY <1>3, <1>4 DEF mq_receive

\* So does mq_receive after its wait.
LEMMA ReceiveResumeInv ==
  ASSUME IInv, NEW p \in Procs, mq_receive_resume(p)
  PROVE  IInv'
<1> USE DEF procVars
<1>1. TypeOK /\ QueueInv /\ LockNeverLeaked /\ mqh_nwait \in Nat
  BY DEF IInv, TypeOK
<1>2. pc[p] = "recv_wake" /\ UNCHANGED <<mqh_pid, mqh_event, procVars, arg, sigpend>>
  BY DEF mq_receive_resume
<1>3. CASE mq_curmsgs # 0 /\ mqh_nwait' = mqh_nwait - 1 /\ Take(p)
  <2>1. /\ QueueInv' /\ LockNeverLeaked' /\ MovesOnly(p) /\ pc'[p] = "ready"
        /\ mq_curmsgs' \in Links /\ msg_next' \in [Links -> Links]
        /\ mqh_free' \in Links /\ msg' = msg /\ last_out' \in Messages
    BY <1>1, <1>3, TakeSafe
  \* p itself is counted, so the count is at least 1.
  <2>2. mqh_nwait' \in Nat
    <3>1. BlockedReceivers # {} /\ IsFiniteSet(BlockedReceivers)
      BY <1>2, ProcsAssumption, FS_Subset DEF BlockedReceivers
    <3>2. Cardinality(BlockedReceivers) \in Nat /\ Cardinality(BlockedReceivers) # 0
      BY <3>1, FS_CardinalityType, FS_EmptySet
    <3>3. mqh_nwait >= Cardinality(BlockedReceivers)
      BY DEF IInv, NwaitCovers
    <3> QED BY <1>1, <1>3, <3>2, <3>3
  <2>3. TypeOK'
    BY <1>1, <1>2, <1>3, <2>1, <2>2 DEF TypeOK, MovesOnly, LockNeverLeaked
  <2> QED BY <1>1, <1>2, <1>3, <2>1, <2>3, StepInv
<1>4. CASE /\ pc' = [pc EXCEPT ![p] = "recv_wait"]
           /\ UNCHANGED <<queueVars, mqh_lock, mqh_nwait, last_out>>
  <2>1. QueueInv' /\ LockNeverLeaked'
    BY <1>4, QueueUnchanged
  <2>2. MovesOnly(p) /\ pc'[p] = "recv_wait"
    BY <1>1, <1>2, <1>4 DEF TypeOK, MovesOnly, Places
  <2>3. TypeOK'
    BY <1>1, <1>2, <1>4, <2>2 DEF TypeOK, MovesOnly, queueVars
  <2> QED BY <1>1, <1>2, <1>4, <2>1, <2>2, <2>3, StepInv
<1> QED BY <1>3, <1>4 DEF mq_receive_resume

\* Every other step leaves the queue, mqh_nwait and the mutex alone.
LEMMA OtherInv ==
  ASSUME IInv, NEW p \in Procs,
         \/ \E event \in Events : mq_notify(p, event)
         \/ mq_notify_null(p) \/ mq_setattr(p) \/ mq_close(p) \/ mq_open(p)
         \/ SpuriousWake(p) \/ HandleSignal(p) \/ Die(p)
  PROVE  IInv'
<1> USE DEF procVars, Unregister
<1>1. TypeOK
  BY DEF IInv
<1>2. UNCHANGED <<queueVars, mqh_lock, mqh_nwait, last_out>>
  BY DEF mq_notify, mq_notify_null, mq_setattr, mq_close, mq_open, SpuriousWake,
         HandleSignal, Die
<1>3. QueueInv' /\ LockNeverLeaked'
  BY <1>2, QueueUnchanged
<1>4. /\ \A q \in Procs \ {p} : arg'[q] = arg[q]
      /\ \/ pc' = pc /\ arg' = arg
         \/ SpuriousWake(p)
         \/ pc[p] # "dead" /\ pc' = [pc EXCEPT ![p] = "dead"]
  BY <1>1 DEF TypeOK, mq_notify, mq_notify_null, mq_setattr, mq_close, mq_open,
         SpuriousWake, HandleSignal, Die
<1>5. MovesOnly(p)
  BY <1>1, <1>4 DEF TypeOK, MovesOnly, Places, SpuriousWake
<1>6. TypeOK'
  <2>1. pc' \in [Procs -> Places]
    BY <1>5 DEF MovesOnly
  <2>2. /\ mqi_open' \in [Procs -> BOOLEAN] /\ mqi_flags' \in [Procs -> BOOLEAN]
    BY <1>1 DEF TypeOK, mq_notify, mq_notify_null, mq_setattr, mq_close, mq_open,
         SpuriousWake, HandleSignal, Die
  <2>3. mqh_pid' \in Procs \cup {NoProc} /\ mqh_event' \in Events
    BY <1>1 DEF TypeOK, mq_notify, mq_notify_null, mq_setattr, mq_close, mq_open,
         SpuriousWake, HandleSignal, Die
  <2>4. arg' \in [Procs -> Messages \cup {NoMsg}] /\ sigpend' \in SUBSET Procs
    BY <1>1 DEF TypeOK, mq_notify, mq_notify_null, mq_setattr, mq_close, mq_open,
         SpuriousWake, HandleSignal, Die
  <2> QED BY <1>1, <1>2, <2>1, <2>2, <2>3, <2>4 DEF TypeOK, queueVars
<1>7. CASE pc' = pc /\ arg' = arg
  <2>1. pc[p] # "dead" \/ pc'[p] = "dead"
    BY <1>7
  <2>2. pc'[p] \in {"send_wait", "send_wake"} => arg'[p] \in Messages
    BY <1>7 DEF IInv, ArgInv
  <2> QED BY <1>1, <1>2, <1>3, <1>4, <1>5, <1>6, <1>7, <2>1, <2>2, StepInv DEF TypeOK
<1>8. CASE SpuriousWake(p)
  <2>1. \/ pc[p] = "send_wait" /\ pc'[p] = "send_wake" /\ arg'[p] \in Messages
        \/ pc[p] = "recv_wait" /\ pc'[p] = "recv_wake"
    BY <1>1, <1>8 DEF SpuriousWake, TypeOK, IInv, ArgInv
  <2> QED BY <1>1, <1>2, <1>3, <1>4, <1>5, <1>6, <2>1, StepInv DEF TypeOK
<1>9. CASE pc[p] # "dead" /\ pc' = [pc EXCEPT ![p] = "dead"]
  <2>1. pc'[p] = "dead"
    BY <1>1, <1>9 DEF TypeOK
  <2> QED BY <1>1, <1>2, <1>3, <1>4, <1>5, <1>6, <2>1, StepInv DEF TypeOK
<1> QED BY <1>4, <1>7, <1>8, <1>9

\* Every step keeps the invariant.
LEMMA NextInv == IInv /\ [Next]_vars => IInv'
<1> SUFFICES ASSUME IInv, [Next]_vars PROVE IInv'
  OBVIOUS
<1>1. CASE UNCHANGED vars
  BY <1>1 DEF vars, IInv, TypeOK, QueueInv, Counted, ArgInv, LockNeverLeaked,
       NwaitCovers, NwaitExact, BlockedReceivers
<1>2. ASSUME NEW p \in Procs, Step(p) PROVE IInv'
  BY <1>2, SendInv, SendResumeInv, ReceiveInv, ReceiveResumeInv, OtherInv
     DEF Step, Resume
<1> QED BY <1>1, <1>2 DEF Next

\* The inductive invariant holds in every reachable state: mq_send and
\* mq_receive keep the two lists of the file well formed and counted, whatever
\* the interleaving, and account for every thread blocked in mq_receive.
THEOREM Invariance == Spec => []IInv
<1>1. Init => IInv
  BY InitInv
<1>2. IInv /\ [Next]_vars => IInv'
  BY NextInv
<1> QED BY <1>1, <1>2, PTL DEF Spec

-----------------------------------------------------------------------------
(* The results.                                                            *)

\* The type invariant of the queue's state, in particular: the number of
\* messages stays within the capacity and mqh_nwait never goes negative.
THEOREM TypeCorrect == Spec => []TypeOK
<1>1. IInv => TypeOK
  BY DEF IInv
<1> QED BY <1>1, Invariance, PTL

\* Message list and free list are well formed and share the slots between them.
THEOREM ListsCorrect == Spec => []EverySlotOnOneList
<1>1. IInv => EverySlotOnOneList
  BY DEF IInv, QueueInv, Counted, TwoLists, EverySlotOnOneList
<1> QED BY <1>1, Invariance, PTL

\* Neither mq_send nor mq_receive ever returns with mqh_lock locked.
THEOREM LockCorrect == Spec => []LockNeverLeaked
<1>1. IInv => LockNeverLeaked
  BY DEF IInv
<1> QED BY <1>1, Invariance, PTL

\* mqh_nwait counts the blocked receivers, exactly so while nobody has died.
THEOREM NwaitCorrect == Spec => []NwaitCounts
<1>1. IInv => NwaitCounts
  BY DEF IInv, NwaitCounts
<1> QED BY <1>1, Invariance, PTL

-----------------------------------------------------------------------------
(* Notification.                                                           *)

\* Where a message can come from, and what becomes of the registration: it is
\* put by a sender that found room at once, and then the registered process
\* was notified if the queue was empty, or by one that slept for room.
LEMMA Arrival ==
  ASSUME IInv, NEW p \in Procs, Step(p), mq_curmsgs' > mq_curmsgs
  PROVE  /\ mq_curmsgs' = mq_curmsgs + 1
         /\ \/ /\ pc[p] = "ready"
               /\ mq_curmsgs = 0 => NotifyRegistered
               /\ mq_curmsgs # 0 => UNCHANGED <<mqh_pid, sigpend>>
            \/ /\ pc[p] = "send_wake" /\ pc'[p] = "ready"
               /\ UNCHANGED <<mqh_pid, sigpend>>
<1>1. TypeOK /\ QueueInv /\ LockNeverLeaked /\ mq_curmsgs \in 0..mq_maxmsg
  BY DEF IInv, TypeOK, Links
<1>2. mq_curmsgs \in Nat /\ mq_maxmsg \in Nat /\ mq_maxmsg > 0
  BY <1>1, MaxMsgAssumption
<1>3. ASSUME NEW x \in Messages, Put(p, x)
      PROVE  mq_curmsgs' = mq_curmsgs + 1
  BY <1>3, <1>2 DEF Put, queueVars
<1>4. CASE \E m \in Messages : mq_send(p, m)
  <2>1. PICK m \in Messages : mq_send(p, m)
    BY <1>4
  <2> QED BY <2>1, <1>2, <1>3 DEF mq_send, queueVars
<1>5. CASE mq_send_resume(p)
  <2>1. mq_curmsgs < mq_maxmsg /\ Put(p, arg[p]) /\ pc[p] = "send_wake"
        /\ UNCHANGED <<mqh_pid, sigpend>>
    BY <1>5, <1>2 DEF mq_send_resume, queueVars
  <2>2. PICK x \in Messages : x = arg[p]
    BY <2>1 DEF IInv, ArgInv
  <2>3. pc'[p] = "ready"
    BY <1>1, <2>1, <2>2, PutSafe
  <2> QED BY <1>3, <2>1, <2>2, <2>3
<1>6. Take(p) => ~(mq_curmsgs' > mq_curmsgs)
  BY <1>2 DEF Take, queueVars
<1>7. ~mq_receive(p) /\ ~mq_receive_resume(p)
  BY <1>2, <1>6 DEF mq_receive, mq_receive_resume, queueVars
<1>8. ~(UNCHANGED queueVars)
  BY <1>2 DEF queueVars
<1>9. /\ \A event \in Events : ~mq_notify(p, event)
      /\ ~mq_notify_null(p) /\ ~mq_setattr(p) /\ ~mq_close(p) /\ ~mq_open(p)
      /\ ~SpuriousWake(p) /\ ~HandleSignal(p) /\ ~Die(p)
  BY <1>8 DEF mq_notify, mq_notify_null, mq_setattr, mq_close, mq_open, SpuriousWake,
              HandleSignal, Die
<1> QED BY <1>4, <1>5, <1>7, <1>9 DEF Step, Resume

\* What else can change the registration or queue a signal.
LEMMA Registration ==
  ASSUME IInv, NEW p \in Procs, Step(p)
  PROVE  \/ mqh_pid' = mqh_pid /\ sigpend' \subseteq sigpend
         \/ mq_notify_null(p) \/ mq_close(p)
         \/ /\ mqh_pid' = p /\ (mqh_pid = NoProc \/ pc[mqh_pid] = "dead")
            /\ sigpend' = sigpend
         \/ mq_curmsgs = 0 /\ mq_curmsgs' = 1 /\ NotifyRegistered
<1>1. TypeOK /\ mq_curmsgs \in 0..mq_maxmsg
  BY DEF IInv, TypeOK, Links
<1>2. CASE \E m \in Messages : mq_send(p, m)
  <2>1. PICK m \in Messages : mq_send(p, m)
    BY <1>2
  <2>2. \/ UNCHANGED <<mqh_pid, sigpend>>
        \/ mq_curmsgs = 0 /\ NotifyRegistered /\ Put(p, m)
    BY <2>1 DEF mq_send
  <2>3. Put(p, m) /\ mq_curmsgs = 0 => mq_curmsgs' = 1
    <3> SUFFICES ASSUME Put(p, m), mq_curmsgs = 0 PROVE mq_curmsgs' = 1
      OBVIOUS
    <3>1. QueueInv /\ LockNeverLeaked /\ mq_curmsgs < mq_maxmsg
      BY MaxMsgAssumption DEF IInv
    <3>2. mqh_lock' = NoProc
      BY <1>1, <3>1, PutSafe DEF LockNeverLeaked
    <3> QED BY <3>2, ProcsAssumption DEF Put
  <2> QED BY <2>2, <2>3
<1>3. CASE Resume(p)
  BY <1>3 DEF Resume, mq_send_resume, mq_receive_resume
<1>4. CASE mq_receive(p) \/ mq_setattr(p) \/ mq_open(p) \/ SpuriousWake(p)
           \/ HandleSignal(p) \/ Die(p)
  BY <1>4 DEF mq_receive, mq_setattr, mq_open, SpuriousWake, HandleSignal, Die
<1>5. CASE \E event \in Events : mq_notify(p, event)
  BY <1>5 DEF mq_notify
<1> QED BY <1>2, <1>3, <1>4, <1>5 DEF Step

\* A live process keeps its registration until it gives it up itself or is
\* notified of the message that reached the empty queue.
THEOREM RegistrationCorrect == Spec => RegistrationKept
<1> DEFINE A == \A p \in Procs :
                  mqh_pid = p /\ mqh_pid' # p /\ pc[p] # "dead" =>
                    /\ mqh_pid' = NoProc
                    /\ \/ mq_notify_null(p) \/ mq_close(p)
                       \/ /\ mq_curmsgs = 0 /\ mq_curmsgs' = 1
                          /\ mqh_event = "SIGEV_SIGNAL" => p \in sigpend'
<1>1. IInv /\ [Next]_vars => [A]_vars
  <2> SUFFICES ASSUME IInv, Next, NEW p \in Procs,
                      mqh_pid = p, mqh_pid' # p, pc[p] # "dead"
               PROVE  /\ mqh_pid' = NoProc
                      /\ \/ mq_notify_null(p) \/ mq_close(p)
                         \/ /\ mq_curmsgs = 0 /\ mq_curmsgs' = 1
                            /\ mqh_event = "SIGEV_SIGNAL" => p \in sigpend'
    OBVIOUS
  <2>1. PICK q \in Procs : Step(q)
    BY DEF Next
  <2>2. p # NoProc
    BY ProcsAssumption
  <2>3. CASE mq_notify_null(q) \/ mq_close(q)
    <3>1. q = p /\ mqh_pid' = NoProc
      BY <2>3 DEF mq_notify_null, mq_close, Unregister
    <3> QED BY <2>3, <3>1
  <2>4. CASE mq_curmsgs = 0 /\ mq_curmsgs' = 1 /\ NotifyRegistered
    BY <2>2, <2>4 DEF NotifyRegistered
  <2> QED BY <2>1, <2>2, <2>3, <2>4, Registration
<1> QED BY <1>1, Invariance, PTL DEF Spec, RegistrationKept

\* A signal goes to the registered process only, when a message reaches the
\* empty queue with nobody blocked in mq_receive, and then it is not missed.
THEOREM SignalsCorrect == Spec => SignalsExact
<1> DEFINE OnlyThen == \A p \in sigpend' \ sigpend :
                         /\ mqh_pid = p /\ mqh_pid' = NoProc
                         /\ mq_curmsgs = 0 /\ mq_curmsgs' = 1
                         /\ BlockedReceivers = {}
           Then == /\ mq_curmsgs = 0 /\ mq_curmsgs' = 1 /\ ~LateArrival
                   /\ BlockedReceivers = {} /\ \A p \in Procs : pc[p] # "dead"
                   => /\ mqh_pid' = NoProc
                      /\ mqh_pid # NoProc /\ mqh_event = "SIGEV_SIGNAL"
                           => mqh_pid \in sigpend'
<1>1. ASSUME IInv, Next PROVE OnlyThen /\ Then
  <2>1. PICK q \in Procs : Step(q)
    BY <1>1 DEF Next
  <2>2. IsFiniteSet(BlockedReceivers)
    BY ProcsAssumption, FS_Subset DEF BlockedReceivers
  <2>3. mqh_nwait = 0 => BlockedReceivers = {}
    <3>1. Cardinality(BlockedReceivers) \in Nat /\ mqh_nwait >= Cardinality(BlockedReceivers)
      BY <1>1, <2>2, FS_CardinalityType DEF IInv, NwaitCovers
    <3> QED BY <2>2, <3>1, FS_EmptySet
  <2>4. BlockedReceivers = {} /\ (\A p \in Procs : pc[p] # "dead") => mqh_nwait = 0
    BY <1>1, FS_EmptySet DEF IInv, NwaitExact
  <2>5. OnlyThen
    <3>1. CASE mq_notify_null(q) \/ mq_close(q)
      BY <3>1 DEF mq_notify_null, mq_close
    <3>2. CASE mq_curmsgs = 0 /\ mq_curmsgs' = 1 /\ NotifyRegistered
      BY <2>3, <3>2 DEF NotifyRegistered
    <3> QED BY <1>1, <2>1, <3>1, <3>2, Registration
  <2>6. Then
    <3> SUFFICES ASSUME mq_curmsgs = 0, mq_curmsgs' = 1, ~LateArrival,
                        BlockedReceivers = {}, \A p \in Procs : pc[p] # "dead"
                 PROVE  /\ mqh_pid' = NoProc
                        /\ mqh_pid # NoProc /\ mqh_event = "SIGEV_SIGNAL"
                             => mqh_pid \in sigpend'
      OBVIOUS
    <3>1. NotifyRegistered
      BY <1>1, <2>1, Arrival DEF LateArrival
    <3>2. mqh_nwait = 0 /\ mqh_pid \in Procs \cup {NoProc}
      BY <1>1, <2>4 DEF IInv, TypeOK
    <3> QED BY <3>1, <3>2 DEF NotifyRegistered
  <2> QED BY <2>5, <2>6
<1>2. IInv /\ [Next]_vars => [OnlyThen /\ Then]_vars
  BY <1>1
<1> QED BY <1>2, Invariance, PTL DEF Spec, SignalsExact

-----------------------------------------------------------------------------
(* Who sleeps when there is one sender and one receiver.                   *)

\* No two processes send, and no two receive; one may do both, each may be
\* woken at will, may die, and others may do anything else.
OneEach ==
  \A p, q \in Procs : \A op \in {"send", "receive"} :
    op \in Calls[p] /\ op \in Calls[q] => p = q

\* Only a sender sleeps in mq_send, only a receiver in mq_receive.
CallerInv ==
  \A p \in Procs : /\ pc[p] \in {"send_wait", "send_wake"} => "send" \in Calls[p]
                   /\ pc[p] \in {"recv_wait", "recv_wake"} => "receive" \in Calls[p]

\* If at most one process sleeps, pthread_cond_signal leaves none asleep.
LEMMA SignalsAll ==
  ASSUME NEW pcs \in [Procs -> Places], CondSignal(pcs),
         \A q, r \in Procs :
           {pcs[q], pcs[r]} \subseteq {"send_wait", "recv_wait"} => q = r
  PROVE  \A q \in Procs : /\ pc'[q] \notin {"send_wait", "recv_wait"}
                          /\ pc'[q] = "send_wake" => pcs[q] \in {"send_wait", "send_wake"}
                          /\ pc'[q] = "recv_wake" => pcs[q] \in {"recv_wait", "recv_wake"}
<1> DEFINE sleepers == {q \in Procs : pcs[q] \in {"send_wait", "recv_wait"}}
<1>1. CASE sleepers = {}
  BY <1>1 DEF CondSignal
<1>2. CASE sleepers # {}
  <2>1. PICK r \in sleepers : pc' = [pcs EXCEPT ![r] = IF pcs[r] = "send_wait"
                                                       THEN "send_wake" ELSE "recv_wake"]
    BY <1>2 DEF CondSignal
  <2> QED BY <2>1
<1> QED BY <1>1, <1>2

\* The only sender puts a message: the receiver, if it slept, is awake.
LEMMA PutWaits ==
  ASSUME TypeOK, OneEach, CallerInv, WaitsJustified, mq_curmsgs < mq_maxmsg,
         NEW p \in Procs, "send" \in Calls[p], NEW m, Put(p, m)
  PROVE  CallerInv' /\ WaitsJustified'
<1> DEFINE home == [pc EXCEPT ![p] = "ready"]
<1>1. /\ home \in [Procs -> Places] /\ mq_curmsgs \in Nat
      /\ \A q \in Procs : home[q] = IF q = p THEN "ready" ELSE pc[q]
  BY MaxMsgAssumption DEF TypeOK, Places, Links
<1>2. \A q \in Procs : /\ home[q] # "send_wait" /\ home[q] # "send_wake"
                       /\ home[q] \in {"recv_wait", "recv_wake"} => "receive" \in Calls[q]
  BY <1>1 DEF CallerInv, OneEach
<1>3. CASE pc' = home /\ mq_curmsgs' = mq_curmsgs
  BY <1>1, <1>2, <1>3 DEF CallerInv, WaitsJustified
<1>4. CASE SignalArrival(home)
  <2>1. CASE mq_curmsgs = 0
    <3>1. CondSignal(home)
      BY <1>4, <2>1 DEF SignalArrival
    <3>2. \A q, r \in Procs :
            {home[q], home[r]} \subseteq {"send_wait", "recv_wait"} => q = r
      <4> HIDE DEF home
      <4>1. \A q, r \in Procs : "receive" \in Calls[q] /\ "receive" \in Calls[r] => q = r
        BY DEF OneEach
      <4> QED BY <1>2, <4>1
    <3> HIDE DEF home
    <3> QED BY <1>1, <1>2, <3>1, <3>2, SignalsAll DEF CallerInv, WaitsJustified
  <2>2. CASE mq_curmsgs # 0
    <3>1. pc' = home /\ \A q \in Procs : home[q] # "recv_wait"
      BY <1>1, <1>4, <2>2 DEF SignalArrival, WaitsJustified
    <3> QED BY <1>2, <3>1 DEF CallerInv, WaitsJustified
  <2> QED BY <2>1, <2>2
<1> QED BY <1>3, <1>4 DEF Put, queueVars

\* The only receiver takes a message: the sender, if it slept, is awake.
LEMMA TakeWaits ==
  ASSUME TypeOK, OneEach, CallerInv, WaitsJustified, mq_curmsgs # 0,
         NEW p \in Procs, "receive" \in Calls[p], Take(p)
  PROVE  CallerInv' /\ WaitsJustified'
<1> DEFINE home == [pc EXCEPT ![p] = "ready"]
<1>1. /\ home \in [Procs -> Places] /\ mq_curmsgs \in Nat
      /\ \A q \in Procs : home[q] = IF q = p THEN "ready" ELSE pc[q]
  BY MaxMsgAssumption DEF TypeOK, Places, Links
<1>2. \A q \in Procs : /\ home[q] # "recv_wait" /\ home[q] # "recv_wake"
                       /\ home[q] \in {"send_wait", "send_wake"} => "send" \in Calls[q]
  BY <1>1 DEF CallerInv, OneEach
<1>3. CASE pc' = home /\ mq_curmsgs' = mq_curmsgs
  BY <1>1, <1>2, <1>3 DEF CallerInv, WaitsJustified
<1>4. CASE SignalRoom(home)
  <2>1. CASE mq_curmsgs = mq_maxmsg
    <3>1. CondSignal(home)
      BY <1>4, <2>1 DEF SignalRoom
    <3>2. \A q, r \in Procs :
            {home[q], home[r]} \subseteq {"send_wait", "recv_wait"} => q = r
      <4> HIDE DEF home
      <4>1. \A q, r \in Procs : "send" \in Calls[q] /\ "send" \in Calls[r] => q = r
        BY DEF OneEach
      <4> QED BY <1>2, <4>1
    <3> HIDE DEF home
    <3> QED BY <1>1, <1>2, <3>1, <3>2, SignalsAll DEF CallerInv, WaitsJustified
  <2>2. CASE mq_curmsgs # mq_maxmsg
    <3>1. pc' = home /\ \A q \in Procs : home[q] # "send_wait"
      BY <1>1, <1>4, <2>2 DEF SignalRoom, WaitsJustified
    <3> QED BY <1>2, <3>1 DEF CallerInv, WaitsJustified
  <2> QED BY <2>1, <2>2
<1> QED BY <1>3, <1>4 DEF Take, queueVars

\* Every step keeps the sleepers where they have a reason to be.
LEMMA WaitsKept ==
  ASSUME IInv, OneEach, CallerInv, WaitsJustified, [Next]_vars
  PROVE  CallerInv' /\ WaitsJustified'
<1>1. /\ TypeOK /\ pc \in [Procs -> Places]
      /\ mq_curmsgs \in 0..mq_maxmsg /\ mq_maxmsg \in Nat \ {0}
  BY MaxMsgAssumption DEF IInv, TypeOK, Links
<1>2. CASE UNCHANGED vars
  BY <1>2 DEF vars, CallerInv, WaitsJustified
<1>3. CASE UNCHANGED <<pc, queueVars>>
  BY <1>3 DEF queueVars, CallerInv, WaitsJustified
<1>4. ASSUME NEW p \in Procs, Step(p) PROVE CallerInv' /\ WaitsJustified'
  <2>1. CASE \E m \in Messages : mq_send(p, m)
    <3>1. PICK m \in Messages : mq_send(p, m)
      BY <2>1
    <3>2. \/ mq_curmsgs < mq_maxmsg /\ Put(p, m)
          \/ UNCHANGED <<pc, queueVars>>
          \/ /\ mq_curmsgs = mq_maxmsg /\ UNCHANGED queueVars
             /\ pc' = [pc EXCEPT ![p] = "send_wait"]
      BY <1>1, <3>1 DEF mq_send
    <3>3. "send" \in Calls[p]
      BY <3>1 DEF mq_send
    <3>4. CASE /\ mq_curmsgs = mq_maxmsg /\ UNCHANGED queueVars
               /\ pc' = [pc EXCEPT ![p] = "send_wait"]
      BY <1>1, <3>3, <3>4 DEF CallerInv, WaitsJustified, queueVars
    <3> QED BY <1>1, <1>3, <3>2, <3>3, <3>4, PutWaits
  <2>2. CASE mq_send_resume(p)
    <3>1. \/ mq_curmsgs < mq_maxmsg /\ Put(p, arg[p])
          \/ /\ mq_curmsgs = mq_maxmsg /\ UNCHANGED queueVars
             /\ pc' = [pc EXCEPT ![p] = "send_wait"]
      BY <1>1, <2>2 DEF mq_send_resume
    <3>2. "send" \in Calls[p]
      BY <2>2 DEF mq_send_resume, CallerInv
    <3>3. CASE /\ mq_curmsgs = mq_maxmsg /\ UNCHANGED queueVars
               /\ pc' = [pc EXCEPT ![p] = "send_wait"]
      BY <1>1, <3>2, <3>3 DEF CallerInv, WaitsJustified, queueVars
    <3> QED BY <1>1, <3>1, <3>2, <3>3, PutWaits
  <2>3. CASE mq_receive(p) \/ mq_receive_resume(p)
    <3>1. \/ mq_curmsgs # 0 /\ Take(p)
          \/ UNCHANGED <<pc, queueVars>>
          \/ /\ mq_curmsgs = 0 /\ UNCHANGED queueVars
             /\ pc' = [pc EXCEPT ![p] = "recv_wait"]
      BY <1>1, <2>3 DEF mq_receive, mq_receive_resume
    <3>2. "receive" \in Calls[p]
      BY <2>3 DEF mq_receive, mq_receive_resume, CallerInv
    <3>3. CASE /\ mq_curmsgs = 0 /\ UNCHANGED queueVars
               /\ pc' = [pc EXCEPT ![p] = "recv_wait"]
      BY <1>1, <3>2, <3>3 DEF CallerInv, WaitsJustified, queueVars
    <3> QED BY <1>1, <1>3, <3>1, <3>2, <3>3, TakeWaits
  <2>4. CASE SpuriousWake(p)
    BY <1>1, <2>4 DEF SpuriousWake, CallerInv, WaitsJustified, queueVars
  <2>5. CASE Die(p)
    BY <1>1, <2>5 DEF Die, CallerInv, WaitsJustified, queueVars
  <2>6. CASE \/ \E event \in Events : mq_notify(p, event)
             \/ mq_notify_null(p) \/ mq_setattr(p) \/ mq_close(p) \/ mq_open(p)
             \/ HandleSignal(p)
    BY <1>3, <2>6 DEF mq_notify, mq_notify_null, mq_setattr, mq_close, mq_open, HandleSignal
  <2> QED BY <1>4, <2>1, <2>2, <2>3, <2>4, <2>5, <2>6 DEF Step, Resume
<1> QED BY <1>2, <1>4 DEF Next

\* With one sender and one receiver no wake-up is lost, also if they are woken
\* spuriously or killed: mq_send and mq_receive signal only when the queue
\* stops being empty or full, and that is enough for two.
THEOREM WaitsCorrect ==
  ASSUME OneEach
  PROVE  Spec => []WaitsJustified
<1>1. Init => CallerInv /\ WaitsJustified
  BY DEF Init, CallerInv, WaitsJustified
<1>2. IInv /\ CallerInv /\ WaitsJustified /\ [Next]_vars => (CallerInv /\ WaitsJustified)'
  BY WaitsKept
<1> QED BY <1>1, <1>2, Invariance, PTL DEF Spec

-----------------------------------------------------------------------------
(* The queue in the file implements the bounded priority queue.            *)

\* What PQ puts for its queue: the messages in the order of the list.
Queue == [i \in 1..Len(MessageList) |-> msg[MessageList[i]]]

\* The messages are in order of priority.
Sorted == \A i, j \in 1..Len(Queue) : i <= j => Queue[i].prio >= Queue[j].prio

\* Queue, in this state and in the next one, given the list.
LEMMA QueueIs ==
  ASSUME NEW s \in Lists, NEW f \in Lists, Counted(s, f)
  PROVE  /\ Queue = [i \in 1..Len(s) |-> msg[s[i]]]
         /\ Queue \in Seq(Messages) /\ Len(Queue) = Len(s) /\ Len(s) \in Nat
<1>1. MessageList = s
  BY MessageListIs
<1>2. Len(s) \in Nat /\ \A i \in 1..Len(s) : msg[s[i]] \in Messages
  BY ListType, MaxMsgAssumption DEF Counted
<1> DEFINE n == Len(s)
           Q == [i \in 1..n |-> msg[s[i]]]
<1>3. Queue = Q
  BY <1>1 DEF Queue
<1> HIDE DEF n
<1>4. Q \in [1..n -> Messages] /\ n \in Nat
  BY <1>2 DEF n
<1>5. Q \in Seq(Messages) /\ Len(Q) = n
  <2> HIDE DEF Q
  <2> QED BY <1>4
<1> QED BY <1>3, <1>4, <1>5 DEF n

\* The same in the next state, of the list there.
LEMMA QueueIsNext ==
  ASSUME NEW s \in Lists, NEW f \in Lists, Counted(s, f)'
  PROVE  Queue' = [i \in 1..Len(s) |-> msg'[s[i]]]
<1>1. IsList(msg_next', s, msg_next'[0])
  BY DEF Counted, TwoLists
<1>2. /\ MessageList' \in Lists
      /\ IsList(msg_next', MessageList', msg_next'[0])
  BY <1>1 DEF MessageList
<1>3. MessageList' = s
  BY <1>1, <1>2, ListUnique
<1> QED BY <1>3 DEF Queue

\* The queue with x inserted after its first k messages.
Inserted(Q, k, x) ==
  [i \in 1..Len(Q) + 1 |-> IF i <= k THEN Q[i] ELSE IF i = k + 1 THEN x ELSE Q[i - 1]]

\* The effect of mq_send and of mq_receive on the queue.
PutStep(x) ==
  /\ Len(Queue) < mq_maxmsg /\ last_out' = last_out
  /\ \E k \in 0..Len(Queue) :
       /\ \A i \in 1..k : x.prio <= Queue[i].prio
       /\ k < Len(Queue) => x.prio > Queue[k + 1].prio
       /\ Queue' = Inserted(Queue, k, x)

TakeStep ==
  /\ Len(Queue) > 0 /\ last_out' = Queue[1]
  /\ Queue' = [i \in 1..Len(Queue) - 1 |-> Queue[i + 1]]

\* Linking a slot in inserts its message into the queue.
LEMMA PutQueue ==
  ASSUME TypeOK, NEW x \in Messages, PutMoves(x), UNCHANGED last_out
  PROVE  PutStep(x)
<1>0. PICK s \in Lists, f \in Lists : \E k \in 0..Len(s) :
        /\ Counted(s, f) /\ Len(s) < mq_maxmsg
        /\ \A i \in 1..k : x.prio <= msg[s[i]].prio
        /\ k < Len(s) => x.prio > msg[s[k + 1]].prio
        /\ msg' = [msg EXCEPT ![mqh_free] = x]
        /\ mqh_free \in Slots /\ \A i \in 1..Len(s) : s[i] # mqh_free
        /\ \E t, g \in Lists : t = PutAfter(s, k, mqh_free) /\ Counted(t, g)'
  BY DEF PutMoves
<1>1. PICK k \in 0..Len(s) :
        /\ Counted(s, f) /\ Len(s) < mq_maxmsg
        /\ \A i \in 1..k : x.prio <= msg[s[i]].prio
        /\ k < Len(s) => x.prio > msg[s[k + 1]].prio
        /\ msg' = [msg EXCEPT ![mqh_free] = x]
        /\ mqh_free \in Slots /\ \A i \in 1..Len(s) : s[i] # mqh_free
        /\ \E t, g \in Lists : t = PutAfter(s, k, mqh_free) /\ Counted(t, g)'
  BY <1>0
<1>2. PICK t \in Lists, g \in Lists : t = PutAfter(s, k, mqh_free) /\ Counted(t, g)'
  BY <1>1
<1> DEFINE n == Len(s)
<1>3. /\ Queue = [i \in 1..n |-> msg[s[i]]]
      /\ Len(Queue) = n /\ n \in Nat /\ k \in 0..n
  BY <1>1, QueueIs
<1>4. s \in [1..n -> Slots]
  BY ListType
<1>5. t = [i \in 1..n + 1 |->
             IF i <= k THEN s[i] ELSE IF i = k + 1 THEN mqh_free ELSE s[i - 1]]
  BY <1>2 DEF PutAfter
<1>6. n < mq_maxmsg /\ \A i \in 1..n : s[i] # mqh_free
  BY <1>1
<1> HIDE DEF n
<1>7. Len(t) = n + 1
  <2>1. n + 1 \in 0..mq_maxmsg
    BY <1>3, <1>6, MaxMsgAssumption
  <2>2. t \in [1..n + 1 -> Slots]
    <3>1. \A i \in 1..n + 1 : (i <= k => i \in 1..n)
                            /\ (~(i <= k) /\ i # k + 1 => i - 1 \in 1..n)
      BY <1>3
    <3> QED BY <1>1, <1>4, <1>5, <3>1
  <2> QED BY <2>1, <2>2, ListIntro
<1>8. Queue' = [i \in 1..n + 1 |-> msg'[t[i]]]
  BY <1>2, <1>7, QueueIsNext
<1>9. \A i \in 1..n + 1 :
        msg'[t[i]] = IF i <= k THEN Queue[i] ELSE IF i = k + 1 THEN x ELSE Queue[i - 1]
  <2> SUFFICES ASSUME NEW i \in 1..n + 1
               PROVE  msg'[t[i]] = IF i <= k THEN Queue[i]
                                   ELSE IF i = k + 1 THEN x ELSE Queue[i - 1]
    OBVIOUS
  <2>1. msg \in [Slots -> Messages \cup {NoMsg}]
    BY DEF TypeOK
  <2>2. \A j \in 1..n : msg'[s[j]] = Queue[j]
    BY <1>1, <1>3, <1>4, <1>6, <2>1
  <2>3. msg'[mqh_free] = x
    BY <1>1, <2>1
  <2>4. /\ i <= k => i \in 1..n /\ t[i] = s[i]
        /\ i = k + 1 => ~(i <= k) /\ t[i] = mqh_free
        /\ ~(i <= k) /\ i # k + 1 => i - 1 \in 1..n /\ t[i] = s[i - 1]
    BY <1>3, <1>5
  <2> QED BY <2>2, <2>3, <2>4
<1>10. Queue' = Inserted(Queue, k, x)
  BY <1>3, <1>8, <1>9 DEF Inserted
<1>11. /\ \A i \in 1..k : x.prio <= Queue[i].prio
       /\ k < n => x.prio > Queue[k + 1].prio
  BY <1>1, <1>3 DEF n
<1> QED BY <1>3, <1>6, <1>10, <1>11 DEF PutStep

\* Unlinking the first slot takes its message off the queue.
LEMMA TakeQueue ==
  ASSUME TakeMoves
  PROVE  TakeStep
<1>1. PICK s \in Lists, f \in Lists :
        /\ Counted(s, f) /\ Len(s) > 0 /\ msg' = msg /\ last_out' = msg[s[1]]
        /\ \E t, g \in Lists : t = Rest(s) /\ Counted(t, g)'
  BY DEF TakeMoves
<1>2. PICK t \in Lists, g \in Lists : t = Rest(s) /\ Counted(t, g)'
  BY <1>1
<1> DEFINE n == Len(s)
<1>3. /\ Queue = [i \in 1..n |-> msg[s[i]]]
      /\ Len(Queue) = n /\ n \in Nat /\ n > 0 /\ n \in 0..mq_maxmsg
  BY <1>1, QueueIs, ListType
<1>4. s \in [1..n -> Slots] /\ t = [i \in 1..n - 1 |-> s[i + 1]]
  BY <1>2, ListType DEF Rest
<1>5. last_out' = msg[s[1]] /\ msg' = msg
  BY <1>1
<1> HIDE DEF n
<1>6. Len(t) = n - 1
  <2>1. n - 1 \in 0..mq_maxmsg /\ t \in [1..n - 1 -> Slots]
    BY <1>3, <1>4, MaxMsgAssumption
  <2> QED BY <2>1, ListIntro
<1>7. Queue' = [i \in 1..n - 1 |-> msg'[t[i]]]
  BY <1>2, <1>6, QueueIsNext
<1>8. \A i \in 1..n - 1 : msg'[t[i]] = Queue[i + 1]
  BY <1>3, <1>4, <1>5
<1>9. last_out' = Queue[1]
  BY <1>3, <1>5
<1> QED BY <1>3, <1>7, <1>8, <1>9 DEF TakeStep

\* A step puts a message, takes one, or leaves the queue alone.
LEMMA QueueStep ==
  ASSUME IInv, Next
  PROVE  \/ UNCHANGED <<Queue, last_out>>
         \/ \E x \in Messages : PutStep(x)
         \/ TakeStep
<1>1. PICK p \in Procs : Step(p)
  BY DEF Next
<1>2. TypeOK /\ QueueInv /\ LockNeverLeaked /\ mq_curmsgs \in 0..mq_maxmsg
      /\ mq_maxmsg > 0
  BY MaxMsgAssumption DEF IInv, TypeOK, Links
<1>3. UNCHANGED queueVars => UNCHANGED Queue
  BY DEF queueVars, Queue, MessageList
<1>4. CASE \E m \in Messages : mq_send(p, m)
  <2>1. PICK m \in Messages : mq_send(p, m)
    BY <1>4
  <2>2. UNCHANGED last_out
    BY <2>1 DEF mq_send
  <2>3. UNCHANGED queueVars \/ (mq_curmsgs < mq_maxmsg /\ Put(p, m))
    BY <1>2, <2>1 DEF mq_send
  <2> QED BY <1>2, <1>3, <2>2, <2>3, PutSafe, PutQueue
<1>5. CASE mq_send_resume(p)
  <2>1. UNCHANGED last_out /\ pc[p] = "send_wake"
    BY <1>5 DEF mq_send_resume
  <2>2. UNCHANGED queueVars \/ (mq_curmsgs < mq_maxmsg /\ Put(p, arg[p]))
    BY <1>5 DEF mq_send_resume
  <2>3. PICK x \in Messages : x = arg[p]
    BY <2>1 DEF IInv, ArgInv
  <2> QED BY <1>2, <1>3, <2>1, <2>2, <2>3, PutSafe, PutQueue
<1>6. CASE mq_receive(p) \/ mq_receive_resume(p)
  <2>1. \/ UNCHANGED <<queueVars, last_out>>
        \/ mq_curmsgs # 0 /\ Take(p)
    BY <1>6 DEF mq_receive, mq_receive_resume
  <2> QED BY <1>2, <1>3, <2>1, TakeSafe, TakeQueue
<1>7. CASE \/ \E event \in Events : mq_notify(p, event)
           \/ mq_notify_null(p) \/ mq_setattr(p) \/ mq_close(p) \/ mq_open(p)
           \/ SpuriousWake(p) \/ HandleSignal(p) \/ Die(p)
  <2>1. UNCHANGED <<queueVars, last_out>>
    BY <1>7 DEF mq_notify, mq_notify_null, mq_setattr, mq_close, mq_open,
                SpuriousWake, HandleSignal, Die
  <2> QED BY <1>3, <2>1
<1> QED BY <1>1, <1>4, <1>5, <1>6, <1>7 DEF Step, Resume

\* The queue is a sequence of messages.
LEMMA QueueType == IInv => Queue \in Seq(Messages)
<1> SUFFICES ASSUME IInv PROVE Queue \in Seq(Messages)
  OBVIOUS
<1>1. PICK s \in Lists, f \in Lists : Counted(s, f)
  BY DEF IInv, QueueInv
<1> QED BY <1>1, QueueIs

\* Priorities are naturals, so that they can be compared.
LEMMA MessagePrio == \A x \in Messages : x.prio \in Nat
  BY PriosAssumption DEF Messages

\* So are those of the queued messages.
LEMMA QueuePrios ==
  ASSUME IInv
  PROVE  Len(Queue) \in Nat /\ \A i \in 1..Len(Queue) : Queue[i].prio \in Nat
<1>1. \A i \in 1..Len(Queue) : Queue[i] \in Messages
  BY QueueType
<1> QED BY <1>1, QueueType, MessagePrio

\* PrioQueue writes what is left of the queue with Tail.
LEMMA TailIs ==
  ASSUME NEW Q \in Seq(Messages), Len(Q) > 0
  PROVE  /\ Q # <<>> /\ Head(Q) = Q[1]
         /\ Tail(Q) = [i \in 1..Len(Q) - 1 |-> Q[i + 1]]
<1>1. Q # <<>> /\ Head(Q) = Q[1]
  OBVIOUS
<1>2. /\ Tail(Q) \in Seq(Messages) /\ Len(Tail(Q)) = Len(Q) - 1
      /\ \A i \in 1..Len(Tail(Q)) : Tail(Q)[i] = Q[i + 1]
  BY <1>1, HeadTailProperties
<1>3. PICK T \in Seq(Messages) : T = Tail(Q)
  BY <1>2
<1> DEFINE n == Len(Q) - 1
<1>4. /\ T \in Seq(Messages) /\ Len(T) = n
      /\ \A i \in 1..n : T[i] = Q[i + 1]
  BY <1>2, <1>3
<1>5. T = [i \in 1..n |-> Q[i + 1]]
  <2> HIDE DEF n
  <2>1. T \in [1..n -> Messages]
    BY <1>4
  <2> QED BY <1>4, <2>1
<1> QED BY <1>1, <1>3, <1>5

\* PrioQueue writes the insertion with subsequences.
LEMMA InsertedIs ==
  ASSUME NEW Q \in Seq(Messages), NEW k \in 0..Len(Q), NEW x \in Messages
  PROVE  Inserted(Q, k, x) = SubSeq(Q, 1, k) \o <<x>> \o SubSeq(Q, k + 1, Len(Q))
<1> DEFINE n == Len(Q)
           A == SubSeq(Q, 1, k)
           B == SubSeq(Q, k + 1, n)
           AX == A \o <<x>>
           R == AX \o B
<1>1. n \in Nat /\ k \in Nat /\ k <= n /\ \A i \in 1..n : Q[i] \in Messages
  OBVIOUS
<1> HIDE DEF n
<1>2. /\ A \in Seq(Messages) /\ Len(A) = k
      /\ \A i \in 1..k : A[i] = Q[i]
  BY <1>1, SubSeqProperties
<1>3. /\ B \in Seq(Messages) /\ Len(B) = n - k
      /\ \A i \in 1..n - k : B[i] = Q[k + i]
  BY <1>1, SubSeqProperties
<1> HIDE DEF A, B
<1>4. <<x>> \in Seq(Messages) /\ Len(<<x>>) = 1 /\ <<x>>[1] = x
  OBVIOUS
<1>5. /\ AX \in Seq(Messages) /\ Len(AX) = k + 1
      /\ \A i \in 1..k + 1 : AX[i] = IF i <= k THEN A[i] ELSE <<x>>[i - k]
  BY <1>1, <1>2, <1>4, ConcatProperties
<1> HIDE DEF AX
<1>6. /\ R \in Seq(Messages) /\ Len(R) = n + 1
      /\ \A i \in 1..n + 1 : R[i] = IF i <= k + 1 THEN AX[i] ELSE B[i - (k + 1)]
  <2>1. /\ R \in Seq(Messages) /\ Len(R) = Len(AX) + Len(B)
        /\ \A i \in 1..Len(AX) + Len(B) :
             R[i] = IF i <= Len(AX) THEN AX[i] ELSE B[i - Len(AX)]
    BY <1>3, <1>5, ConcatProperties
  <2>2. Len(AX) = k + 1 /\ Len(AX) + Len(B) = n + 1
    BY <1>1, <1>3, <1>5
  <2> HIDE DEF R
  <2> QED BY <2>1, <2>2
<1> HIDE DEF R
<1>7. ASSUME NEW i \in 1..n + 1
      PROVE  R[i] = IF i <= k THEN Q[i] ELSE IF i = k + 1 THEN x ELSE Q[i - 1]
  <2>1. CASE i <= k
    BY <1>1, <1>2, <1>5, <1>6, <2>1
  <2>2. CASE i = k + 1
    BY <1>1, <1>4, <1>5, <1>6, <2>2
  <2>3. CASE i > k + 1
    <3>1. i - (k + 1) \in 1..n - k /\ k + (i - (k + 1)) = i - 1 /\ ~(i <= k + 1)
      BY <1>1, <2>3
    <3>2. R[i] = B[i - (k + 1)]
      BY <1>6, <3>1
    <3>3. B[i - (k + 1)] = Q[i - 1]
      BY <1>3, <3>1
    <3> QED BY <1>1, <2>3, <3>2, <3>3
  <2> QED BY <1>1, <2>1, <2>2, <2>3
<1>8. R = [i \in 1..n + 1 |-> R[i]]
  BY <1>6
<1> QED BY <1>7, <1>8 DEF Inserted, n, R, AX, A, B

\* In a queue in order of priority, the messages that stay ahead of x are the
\* first k, k being how many mq_send's loop passes.
LEMMA AheadIs ==
  ASSUME IInv, Sorted, NEW x \in Messages, NEW k \in 0..Len(Queue),
         \A i \in 1..k : x.prio <= Queue[i].prio,
         k < Len(Queue) => x.prio > Queue[k + 1].prio
  PROVE  PQ!Ahead(x) = k
<1> DEFINE Q == Queue
<1>1. /\ Len(Q) \in Nat /\ x.prio \in Nat
      /\ \A i \in 1..Len(Q) : Q[i].prio \in Nat
  BY QueuePrios, MessagePrio
<1>3. \A i, j \in 1..Len(Q) : i <= j => Q[i].prio >= Q[j].prio
  BY DEF Sorted
<1>4. /\ \A i \in 1..k : x.prio <= Q[i].prio
      /\ k < Len(Q) => x.prio > Q[k + 1].prio
      /\ k \in 0..Len(Q)
  OBVIOUS
<1>5. PQ!Ahead(x) = Cardinality({i \in 1..Len(Q) : Q[i].prio >= x.prio})
  BY Zenon DEF PQ!Ahead, PQ!Cardinality, Cardinality, Queue
<1> HIDE DEF Q
<1>6. ASSUME NEW i \in 1..Len(Q) PROVE Q[i].prio >= x.prio <=> i <= k
  <2>1. CASE i <= k
    BY <1>1, <1>4, <2>1
  <2>2. CASE i > k
    <3>1. k + 1 \in 1..Len(Q) /\ k + 1 <= i /\ k < Len(Q)
      BY <1>1, <1>4, <2>2
    <3>2. Q[k + 1].prio >= Q[i].prio /\ x.prio > Q[k + 1].prio
      BY <1>3, <1>4, <3>1
    <3> QED BY <1>1, <2>2, <3>1, <3>2
  <2> QED BY <1>1, <1>4, <2>1, <2>2
<1>7. {i \in 1..Len(Q) : Q[i].prio >= x.prio} = 1..k
  BY <1>1, <1>4, <1>6
<1>8. Cardinality(1..k) = k
  <2>1. k \in Nat /\ 1 \in Int /\ k \in Int
    BY <1>1, <1>4
  <2> SUFFICES ASSUME k \in Nat, k \in Int, 1 \in Int PROVE Cardinality(1..k) = k
    BY <2>1, Zenon
  <2>2. Cardinality(1..k) = IF 1 > k THEN 0 ELSE k - 1 + 1
    BY FS_Interval, Zenon
  <2> QED BY <2>2
<1> QED BY <1>5, <1>7, <1>8

\* The order of priority is kept.
LEMMA SortedKept == IInv /\ Sorted /\ [Next]_vars => Sorted'
<1> SUFFICES ASSUME IInv, Sorted, [Next]_vars PROVE Sorted'
  OBVIOUS
<1>1. CASE UNCHANGED <<Queue, last_out>>
  BY <1>1 DEF Sorted
<1> DEFINE Q == Queue
           n == Len(Q)
<1>2. /\ n \in Nat /\ \A i \in 1..n : Q[i].prio \in Nat
      /\ \A i, j \in 1..n : i <= j => Q[i].prio >= Q[j].prio
  BY QueuePrios DEF Sorted
<1>3. CASE TakeStep
  <2>1. n > 0 /\ Queue' = [i \in 1..n - 1 |-> Q[i + 1]]
    BY <1>3 DEF TakeStep
  <2> DEFINE T == [i \in 1..n - 1 |-> Q[i + 1]]
  <2>2. Len(T) = n - 1
    <3>1. \A i \in 1..n - 1 : Q[i + 1] \in Messages
      BY <1>2, QueueType
    <3> HIDE DEF Q, n
    <3>2. T \in [1..n - 1 -> Messages] /\ n - 1 \in Nat
      BY <1>2, <2>1, <3>1
    <3> HIDE DEF T
    <3> QED BY <3>2
  <2>3. \A i, j \in 1..n - 1 : i <= j => T[i].prio >= T[j].prio
    <3> HIDE DEF Q, n
    <3> QED BY <1>2
  <2>4. Sorted' <=> \A i, j \in 1..Len(T) : i <= j => T[i].prio >= T[j].prio
    BY <2>1 DEF Sorted
  <2> HIDE DEF T
  <2> QED BY <2>2, <2>3, <2>4
<1>4. ASSUME NEW x \in Messages, PutStep(x) PROVE Sorted'
  <2>1. PICK k \in 0..n : /\ \A i \in 1..k : x.prio <= Q[i].prio
                          /\ k < n => x.prio > Q[k + 1].prio
                          /\ Queue' = Inserted(Q, k, x)
    BY <1>4 DEF PutStep
  <2> DEFINE T == Inserted(Q, k, x)
  <2>2. x.prio \in Nat
    BY PriosAssumption DEF Messages
  <2>3. Len(T) = n + 1 /\ \A i \in 1..n + 1 :
          T[i] = IF i <= k THEN Q[i] ELSE IF i = k + 1 THEN x ELSE Q[i - 1]
    <3>1. \A i \in 1..n : Q[i] \in Messages
      BY <1>2, QueueType
    <3>2. T = [i \in 1..n + 1 |-> IF i <= k THEN Q[i] ELSE IF i = k + 1 THEN x ELSE Q[i - 1]]
      BY DEF Inserted
    <3> HIDE DEF Q, n, T
    <3>3. T \in [1..n + 1 -> Messages] /\ n + 1 \in Nat
      BY <1>2, <3>1, <3>2
    <3>4. Len(T) = n + 1
      BY <3>3
    <3> QED BY <3>2, <3>4
  <2>4. Sorted' <=> \A i, j \in 1..Len(T) : i <= j => T[i].prio >= T[j].prio
    BY <2>1 DEF Sorted
  <2> HIDE DEF Q, n, T
  <2>5. \A i \in 1..n : i > k => x.prio >= Q[i].prio
    <3> SUFFICES ASSUME NEW i \in 1..n, i > k PROVE x.prio >= Q[i].prio
      OBVIOUS
    <3>1. k + 1 \in 1..n /\ k + 1 <= i /\ k < n
      BY <1>2, <2>1
    <3>2. Q[k + 1].prio >= Q[i].prio /\ x.prio > Q[k + 1].prio
      BY <1>2, <2>1, <3>1
    <3> QED BY <1>2, <2>2, <3>1, <3>2
  <2>6. ASSUME NEW i \in 1..n + 1, NEW j \in 1..n + 1, i <= j
        PROVE  T[i].prio >= T[j].prio
    <3>1. CASE j <= k
      BY <1>2, <2>1, <2>3, <2>6, <3>1
    <3>2. CASE i <= k /\ j = k + 1
      BY <1>2, <2>1, <2>2, <2>3, <3>2
    <3>3. CASE i <= k /\ j > k + 1
      <4>1. i \in 1..n /\ j - 1 \in 1..n /\ i <= j - 1
        BY <1>2, <2>1, <3>3
      <4>2. T[i] = Q[i] /\ T[j] = Q[j - 1]
        BY <1>2, <2>1, <2>3, <3>3
      <4> QED BY <1>2, <4>1, <4>2
    <3>4. CASE i = k + 1 /\ j = k + 1
      BY <2>2, <2>3, <3>4
    <3>5. CASE i = k + 1 /\ j > k + 1
      <4>1. j - 1 \in 1..n /\ j - 1 > k
        BY <1>2, <2>1, <3>5
      <4> QED BY <2>3, <2>5, <3>5, <4>1
    <3>6. CASE i > k + 1
      <4>1. i - 1 \in 1..n /\ j - 1 \in 1..n /\ i - 1 <= j - 1 /\ j > k + 1
        BY <1>2, <2>1, <2>6, <3>6
      <4> QED BY <1>2, <2>3, <3>6, <4>1
    <3> QED BY <1>2, <2>1, <2>6, <3>1, <3>2, <3>3, <3>4, <3>5, <3>6
  <2> QED BY <2>3, <2>4, <2>6
<1>5. CASE UNCHANGED vars
  BY <1>5, <1>1 DEF vars, Queue, MessageList
<1> QED BY <1>1, <1>3, <1>4, <1>5, QueueStep

\* The queue is empty at first.
LEMMA QueueInit == Init => Queue = <<>> /\ Sorted
<1> SUFFICES ASSUME Init PROVE Queue = <<>> /\ Sorted
  OBVIOUS
<1>1. PICK s \in Lists, f \in Lists : Counted(s, f)
  BY InitInv DEF IInv, QueueInv
<1>2. Queue \in Seq(Messages) /\ Len(Queue) = 0
  BY <1>1, QueueIs DEF Counted, Init
<1>3. Queue = <<>>
  BY <1>2
<1> QED BY <1>2, <1>3 DEF Sorted

\* The linked list in the mapped file implements a bounded queue ordered by
\* priority, first in first out within one priority: every critical section of
\* mq_send and mq_receive is a Send, a Receive or a stutter of PrioQueue.
THEOREM Implementation == Spec => ImplementsPrioQueue
<1>1. Init => PQ!Init
  BY QueueInit DEF PQ!Init, Queue, Init
<1>2. ASSUME IInv, Sorted, [Next]_vars PROVE [PQ!Next]_PQ!vars
  <2>1. Queue \in Seq(Messages)
    BY <1>2, QueueType
  <2>2. CASE UNCHANGED <<Queue, last_out>>
    BY <2>2 DEF PQ!vars, Queue
  <2>3. CASE TakeStep
    <3>1. Queue # <<>> /\ Queue' = Tail(Queue) /\ last_out' = Head(Queue)
      BY <2>1, <2>3, TailIs DEF TakeStep
    <3> QED BY <3>1 DEF PQ!Next, PQ!Receive, Queue
  <2>4. ASSUME NEW x \in Messages, PutStep(x) PROVE PQ!Next
    <3>1. PICK k \in 0..Len(Queue) : /\ \A i \in 1..k : x.prio <= Queue[i].prio
                                     /\ k < Len(Queue) => x.prio > Queue[k + 1].prio
                                     /\ Queue' = Inserted(Queue, k, x)
      BY <2>4 DEF PutStep
    <3>2. PQ!Ahead(x) = k
      BY <1>2, <3>1, AheadIs
    <3>3. Queue' = SubSeq(Queue, 1, k) \o <<x>> \o SubSeq(Queue, k + 1, Len(Queue))
      BY <2>1, <3>1, InsertedIs
    <3>4. PQ!Send(x)
      BY <2>4, <3>2, <3>3 DEF PQ!Send, PutStep, Queue
    <3> QED BY <3>4 DEF PQ!Next
  <2>5. CASE UNCHANGED vars
    BY <2>2, <2>5 DEF vars, Queue, MessageList
  <2> QED BY <1>2, <2>2, <2>3, <2>4, <2>5, QueueStep
<1>3. Spec => []Sorted
  BY QueueInit, SortedKept, Invariance, PTL DEF Spec
<1> QED BY <1>1, <1>2, <1>3, Invariance, PTL DEF Spec, ImplementsPrioQueue, PQ!Spec
=============================================================================
