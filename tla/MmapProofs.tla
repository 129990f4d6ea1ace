----------------------------- MODULE MmapProofs -----------------------------
(***************************************************************************)
(* Proofs about what lies in a mapped file.  About MqOpen, for any         *)
(* processes and either library: who has the name open shares one          *)
(* initialized file with the others unless the name was removed, O_EXCL    *)
(* admits one creator of a file, and a failing creator removes its own     *)
(* file.  About MappedSem, for any callers and any initial value: the      *)
(* calls on the semaphore do not disturb its opening, no wait completes    *)
(* without a value to take, and nobody sleeps through the initialization.  *)
(***************************************************************************)
EXTENDS MappedSem, TLAPS

\* Every file ever made has the name or has lost it for good.
NameInv ==
  /\ made = removed \cup ({path} \ {NoFile})
  /\ path \notin removed

\* A creator's descriptor is of a file that no other process made.
OwnerInv ==
  /\ \A p \in Procs :
       /\ pc[p] \in {"size", "init", "chmod"} => created[p]
       /\ pc[p] \in {"again", "exists", "failed", "killed"} => fd[p] = NoFile
       /\ created[p] => /\ pc[p] \notin {"again", "exists", "stat", "map"}
                        /\ pc[p] \notin {"failed", "killed"} => fd[p] \in made
  /\ \A p, q \in Procs :
       p # q /\ created[p] /\ created[q] => fd[p] # fd[q] \/ fd[p] = NoFile

\* A file keeps the user-execute bit until its creator has initialized it.
StageInv ==
  /\ made \ inited \subseteq xbit
  /\ \A p \in Procs :
       /\ pc[p] = "init" => fd[p] \in sized
       /\ pc[p] = "chmod" => fd[p] \in inited /\ mapped[p] = fd[p]

\* What an opener knows of its descriptor: it is a file that was made, and
\* once the bit was seen clear, an initialized or a removed one.
OpenerInv ==
  \A p \in Procs :
    /\ pc[p] \in {"stat", "map", "opened"} => fd[p] \in made
    /\ pc[p] \in {"stat", "map"} => tries[p] < MAX_TRIES
    /\ lib = "mq" /\ pc[p] = "map" => fd[p] \in inited \cup removed
    /\ lib = "sem" /\ pc[p] = "stat" => mapped[p] = fd[p]
    /\ pc[p] = "opened" => mapped[p] = fd[p] /\ fd[p] \in inited \cup removed

\* A call with O_EXCL never tries to open an existing file.
ExclInv ==
  \A p \in Excl : /\ pc[p] \notin {"exists", "stat", "map"}
                  /\ pc[p] = "opened" => created[p]

IInv == TypeOK /\ NameInv /\ OwnerInv /\ StageInv /\ OpenerInv /\ ExclInv
-----------------------------------------------------------------------------

\* Initially there is no file and no process has opened one.
LEMMA InitInv == Init => IInv
<1> SUFFICES ASSUME Init PROVE IInv
  OBVIOUS
<1> USE MqOpenAssumption DEF Init
<1>1. TypeOK
  BY DEF TypeOK, Places
<1>2. NameInv /\ StageInv /\ ExclInv
  BY DEF NameInv, StageInv, ExclInv
<1>3. OwnerInv /\ OpenerInv
  BY DEF OwnerInv, OpenerInv
<1> QED BY <1>1, <1>2, <1>3 DEF IInv

\* A step of p leaves what the other processes know of the call alone.
Alone(p) ==
  \A q \in Procs \ {p} :
    /\ pc'[q] = pc[q] /\ fd'[q] = fd[q] /\ created'[q] = created[q]
    /\ tries'[q] = tries[q] /\ mapped'[q] = mapped[q]

\* open with O_CREAT|O_EXCL: a fresh inode gets the name, or the file exists.
LEMMA CreateInv ==
  ASSUME IInv, UNCHANGED lib, NEW p \in Procs, Create(p)
  PROVE  IInv'
<1> USE MqOpenAssumption
<1>0. TypeOK
  BY DEF IInv
<1>1. Alone(p)
  BY <1>0 DEF Create, Goto, Alone, TypeOK
<1>2. \/ \E i \in Inodes \ made :
            /\ path = NoFile /\ path' = i /\ made' = made \cup {i} /\ xbit' = xbit \cup {i}
            /\ pc[p] = "again" /\ pc'[p] = "size" /\ fd'[p] = i /\ created'[p]
            /\ UNCHANGED <<sized, inited, removed>>
      \/ /\ pc[p] = "again" /\ pc'[p] = IF p \in Excl THEN "failed" ELSE "exists"
         /\ created'[p] = created[p] /\ fd'[p] = fd[p]
         /\ UNCHANGED <<path, made, xbit, sized, inited, removed>>
  BY <1>0 DEF Create, Goto, TypeOK, files
<1>3. TypeOK'
  <2>1. path' \in Inodes \cup {NoFile} /\ made' \subseteq Inodes /\ made \subseteq made'
        /\ xbit' \subseteq made'
    BY <1>0, <1>2 DEF TypeOK
  <2>2. /\ pc' \in [Procs -> Places] /\ created' \in [Procs -> BOOLEAN]
        /\ fd' \in [Procs -> Inodes \cup {NoFile}]
    <3>1. CASE path = NoFile
      <4>1. PICK i \in Inodes : /\ fd' = [fd EXCEPT ![p] = i]
                               /\ created' = [created EXCEPT ![p] = TRUE]
                               /\ pc' = [pc EXCEPT ![p] = "size"]
        BY <3>1 DEF Create, Goto
      <4> QED BY <1>0, <4>1 DEF TypeOK, Places
    <3>2. CASE path # NoFile
      BY <1>0, <3>2 DEF Create, Goto, TypeOK, Places
    <3> QED BY <3>1, <3>2
  <2> QED BY <1>0, <2>1, <2>2 DEF Create, TypeOK
<1>4. NameInv'
  BY <1>0, <1>1, <1>2 DEF Alone, IInv, TypeOK, NameInv
<1>5. OwnerInv'
  BY <1>0, <1>1, <1>2 DEF Alone, IInv, TypeOK, OwnerInv
<1>6. StageInv'
  BY <1>0, <1>1, <1>2 DEF Alone, IInv, TypeOK, StageInv
<1>7. OpenerInv'
  BY <1>0, <1>1, <1>2 DEF Alone, IInv, TypeOK, OpenerInv
<1>8. ExclInv'
  BY <1>0, <1>1, <1>2 DEF Alone, IInv, TypeOK, ExclInv
<1> QED BY <1>3, <1>4, <1>5, <1>6, <1>7, <1>8 DEF IInv

\* The creator gives its file the full size.
LEMMA SetSizeInv ==
  ASSUME IInv, UNCHANGED lib, NEW p \in Procs, SetSize(p)
  PROVE  IInv'
<1> USE MqOpenAssumption
<1>0. TypeOK
  BY DEF IInv
<1>1. Alone(p)
  BY <1>0 DEF SetSize, Goto, Alone, TypeOK
<1>2. /\ pc[p] = "size" /\ pc'[p] = "init" /\ sized' = sized \cup {fd[p]}
      /\ fd'[p] = fd[p] /\ created'[p] = created[p]
      /\ UNCHANGED <<path, xbit, inited, made, removed>>
  BY <1>0 DEF SetSize, Goto, TypeOK, files
<1>3. TypeOK'
  BY <1>0 DEF SetSize, Goto, TypeOK, Places, files, IInv, OwnerInv
<1>4. NameInv'
  BY <1>0, <1>1, <1>2 DEF Alone, IInv, TypeOK, NameInv
<1>5. OwnerInv'
  BY <1>0, <1>1, <1>2 DEF Alone, IInv, TypeOK, OwnerInv
<1>6. StageInv'
  BY <1>0, <1>1, <1>2 DEF Alone, IInv, TypeOK, StageInv
<1>7. OpenerInv'
  BY <1>0, <1>1, <1>2 DEF Alone, IInv, TypeOK, OpenerInv
<1>8. ExclInv'
  BY <1>0, <1>1, <1>2 DEF Alone, IInv, TypeOK, ExclInv
<1> QED BY <1>3, <1>4, <1>5, <1>6, <1>7, <1>8 DEF IInv

\* The creator maps and initializes its file.
LEMMA InitializeInv ==
  ASSUME IInv, UNCHANGED lib, NEW p \in Procs, Initialize(p)
  PROVE  IInv'
<1> USE MqOpenAssumption
<1>0. TypeOK
  BY DEF IInv
<1>1. Alone(p)
  BY <1>0 DEF Initialize, Goto, Alone, TypeOK
<1>2. /\ pc[p] = "init" /\ pc'[p] = "chmod" /\ inited' = inited \cup {fd[p]}
      /\ fd'[p] = fd[p] /\ created'[p] = created[p] /\ mapped'[p] = fd[p]
      /\ UNCHANGED <<path, xbit, sized, made, removed>>
  BY <1>0 DEF Initialize, Goto, TypeOK, files
<1>3. TypeOK'
  BY <1>0 DEF Initialize, Goto, TypeOK, Places, files, IInv, StageInv
<1>4. NameInv'
  BY <1>0, <1>1, <1>2 DEF Alone, IInv, TypeOK, NameInv
<1>5. OwnerInv'
  BY <1>0, <1>1, <1>2 DEF Alone, IInv, TypeOK, OwnerInv
<1>6. StageInv'
  BY <1>0, <1>1, <1>2 DEF Alone, IInv, TypeOK, StageInv
<1>7. OpenerInv'
  BY <1>0, <1>1, <1>2 DEF Alone, IInv, TypeOK, OpenerInv
<1>8. ExclInv'
  BY <1>0, <1>1, <1>2 DEF Alone, IInv, TypeOK, ExclInv
<1> QED BY <1>3, <1>4, <1>5, <1>6, <1>7, <1>8 DEF IInv

\* The creator clears the bit of its file, which is initialized.
LEMMA PublishInv ==
  ASSUME IInv, UNCHANGED lib, NEW p \in Procs, Publish(p)
  PROVE  IInv'
<1> USE MqOpenAssumption
<1>0. TypeOK
  BY DEF IInv
<1>1. Alone(p)
  BY <1>0 DEF Publish, Goto, Alone, TypeOK
<1>2. /\ pc[p] = "chmod" /\ pc'[p] = "opened" /\ xbit' = xbit \ {fd[p]}
      /\ fd'[p] = fd[p] /\ created'[p] = created[p] /\ mapped'[p] = mapped[p]
      /\ UNCHANGED <<path, sized, inited, made, removed>>
  BY <1>0 DEF Publish, Goto, TypeOK, files
<1>3. TypeOK'
  BY <1>0 DEF Publish, Goto, TypeOK, Places, files
<1>4. NameInv'
  BY <1>0, <1>1, <1>2 DEF Alone, IInv, TypeOK, NameInv
<1>5. OwnerInv'
  BY <1>0, <1>1, <1>2 DEF Alone, IInv, TypeOK, OwnerInv
<1>6. StageInv'
  BY <1>0, <1>1, <1>2 DEF Alone, IInv, TypeOK, StageInv
<1>7. OpenerInv'
  BY <1>0, <1>1, <1>2 DEF Alone, IInv, TypeOK, OpenerInv, StageInv
<1>8. ExclInv'
  BY <1>0, <1>1, <1>2 DEF Alone, IInv, TypeOK, ExclInv, OwnerInv
<1> QED BY <1>3, <1>4, <1>5, <1>6, <1>7, <1>8 DEF IInv

\* A creator that fails goes to its error path.
LEMMA CreatorFailsInv ==
  ASSUME IInv, UNCHANGED lib, NEW p \in Procs, CreatorFails(p)
  PROVE  IInv'
<1> USE MqOpenAssumption
<1>0. TypeOK
  BY DEF IInv
<1>1. Alone(p)
  BY <1>0 DEF CreatorFails, Goto, Alone, TypeOK
<1>2. /\ pc[p] \in {"size", "init", "chmod"} /\ pc'[p] = "err"
      /\ fd'[p] = fd[p] /\ created'[p] = created[p]
      /\ UNCHANGED <<path, xbit, sized, inited, made, removed>>
  BY <1>0 DEF CreatorFails, Goto, TypeOK, files
<1>3. TypeOK'
  BY <1>0 DEF CreatorFails, Goto, TypeOK, Places, files
<1>4. NameInv'
  BY <1>0, <1>1, <1>2 DEF Alone, IInv, TypeOK, NameInv
<1>5. OwnerInv'
  BY <1>0, <1>1, <1>2 DEF Alone, IInv, TypeOK, OwnerInv
<1>6. StageInv'
  BY <1>0, <1>1, <1>2 DEF Alone, IInv, TypeOK, StageInv
<1>7. OpenerInv'
  BY <1>0, <1>1, <1>2 DEF Alone, IInv, TypeOK, OpenerInv
<1>8. ExclInv'
  BY <1>0, <1>1, <1>2 DEF Alone, IInv, TypeOK, ExclInv
<1> QED BY <1>3, <1>4, <1>5, <1>6, <1>7, <1>8 DEF IInv

\* An opener gets the file that has the name now, if there is one.
LEMMA OpenExistingInv ==
  ASSUME IInv, UNCHANGED lib, NEW p \in Procs, OpenExisting(p)
  PROVE  IInv'
<1> USE MqOpenAssumption
<1>0. TypeOK
  BY DEF IInv
<1>1. Alone(p)
  BY <1>0 DEF OpenExisting, Goto, Alone, TypeOK
<1>2. /\ pc[p] = "exists" /\ created'[p] = created[p]
      /\ UNCHANGED <<path, xbit, sized, inited, made, removed>>
      /\ \/ /\ pc'[p] = (IF p \in Creat THEN "again" ELSE "err") /\ fd'[p] = fd[p]
         \/ /\ path # NoFile /\ fd'[p] = path /\ tries'[p] = 0
            /\ pc'[p] = IF lib = "mq" THEN "stat" ELSE "map"
  BY <1>0 DEF OpenExisting, Goto, TypeOK, files
<1>3. TypeOK'
  BY <1>0 DEF OpenExisting, Goto, TypeOK, Places, files
<1>4. NameInv'
  BY <1>0, <1>1, <1>2 DEF Alone, IInv, TypeOK, NameInv
<1>5. OwnerInv'
  BY <1>0, <1>1, <1>2 DEF Alone, IInv, TypeOK, OwnerInv
<1>6. StageInv'
  BY <1>0, <1>1, <1>2 DEF Alone, IInv, TypeOK, StageInv
<1>7. OpenerInv'
  BY <1>0, <1>1, <1>2 DEF Alone, IInv, TypeOK, OpenerInv, NameInv
<1>8. ExclInv'
  BY <1>0, <1>1, <1>2 DEF Alone, IInv, TypeOK, ExclInv
<1> QED BY <1>3, <1>4, <1>5, <1>6, <1>7, <1>8 DEF IInv

\* An opener looks at the bit of the file that has the name now, which may be
\* another one than it has opened: then its own was removed.
LEMMA StatInv ==
  ASSUME IInv, UNCHANGED lib, NEW p \in Procs, Stat(p)
  PROVE  IInv'
<1> USE MqOpenAssumption
<1>0. TypeOK
  BY DEF IInv
<1>1. Alone(p)
  BY <1>0 DEF Stat, Goto, Alone, TypeOK
<1>2. /\ pc[p] = "stat" /\ created'[p] = created[p] /\ mapped'[p] = mapped[p]
      /\ UNCHANGED <<path, xbit, sized, inited, made, removed>>
      /\ \/ /\ pc'[p] = (IF p \in Creat THEN "again" ELSE "err")
            /\ fd'[p] = (IF p \in Creat THEN NoFile ELSE fd[p])
         \/ /\ path # NoFile /\ path \notin xbit /\ fd'[p] = fd[p] /\ tries'[p] = tries[p]
            /\ pc'[p] = IF lib = "mq" THEN "map" ELSE "opened"
         \/ /\ pc'[p] = (IF tries[p] + 1 = MAX_TRIES THEN "err" ELSE "stat")
            /\ fd'[p] = fd[p] /\ tries'[p] = tries[p] + 1
  BY <1>0 DEF Stat, Goto, TypeOK, files, AfterStat
<1>3. TypeOK'
  BY <1>0 DEF Stat, Goto, TypeOK, Places, files, AfterStat, IInv, OpenerInv
<1>4. NameInv'
  BY <1>0, <1>1, <1>2 DEF Alone, IInv, TypeOK, NameInv
<1>5. OwnerInv'
  BY <1>0, <1>1, <1>2 DEF Alone, IInv, TypeOK, OwnerInv
<1>6. StageInv'
  BY <1>0, <1>1, <1>2 DEF Alone, IInv, TypeOK, StageInv
<1>7. OpenerInv'
  BY <1>0, <1>1, <1>2 DEF Alone, IInv, TypeOK, OpenerInv, NameInv, StageInv
<1>8. ExclInv'
  BY <1>0, <1>1, <1>2 DEF Alone, IInv, TypeOK, ExclInv
<1> QED BY <1>3, <1>4, <1>5, <1>6, <1>7, <1>8 DEF IInv

\* An opener maps the file it has opened.
LEMMA MapExistingInv ==
  ASSUME IInv, UNCHANGED lib, NEW p \in Procs, MapExisting(p)
  PROVE  IInv'
<1> USE MqOpenAssumption
<1>0. TypeOK
  BY DEF IInv
<1>1. Alone(p)
  BY <1>0 DEF MapExisting, Goto, Alone, TypeOK
<1>2. /\ pc[p] = "map" /\ mapped'[p] = fd[p] /\ tries'[p] = tries[p]
      /\ pc'[p] = (IF lib = "mq" THEN "opened" ELSE "stat")
      /\ fd'[p] = fd[p] /\ created'[p] = created[p]
      /\ UNCHANGED <<path, xbit, sized, inited, made, removed>>
  BY <1>0 DEF MapExisting, Goto, TypeOK, files
<1>3. TypeOK'
  BY <1>0 DEF MapExisting, Goto, TypeOK, Places, files
<1>4. NameInv'
  BY <1>0, <1>1, <1>2 DEF Alone, IInv, TypeOK, NameInv
<1>5. OwnerInv'
  BY <1>0, <1>1, <1>2 DEF Alone, IInv, TypeOK, OwnerInv
<1>6. StageInv'
  BY <1>0, <1>1, <1>2 DEF Alone, IInv, TypeOK, StageInv
<1>7. OpenerInv'
  BY <1>0, <1>1, <1>2 DEF Alone, IInv, TypeOK, OpenerInv
<1>8. ExclInv'
  BY <1>0, <1>1, <1>2 DEF Alone, IInv, TypeOK, ExclInv
<1> QED BY <1>3, <1>4, <1>5, <1>6, <1>7, <1>8 DEF IInv

\* The error path removes the name if this process created a file.
LEMMA FailInv ==
  ASSUME IInv, UNCHANGED lib, NEW p \in Procs, Fail(p)
  PROVE  IInv'
<1> USE MqOpenAssumption
<1>0. TypeOK
  BY DEF IInv
<1>1. Alone(p)
  BY <1>0 DEF Fail, Goto, Alone, TypeOK
<1>2. /\ pc[p] = "err" /\ pc'[p] = "failed" /\ fd'[p] = NoFile /\ created'[p] = created[p]
      /\ \/ UNCHANGED <<path, removed>>
         \/ path' = NoFile /\ removed' = removed \cup ({path} \ {NoFile})
      /\ UNCHANGED <<xbit, sized, inited, made>>
  BY <1>0 DEF Fail, Goto, TypeOK, files, RemoveName
<1>3. TypeOK'
  BY <1>0 DEF Fail, Goto, TypeOK, Places, RemoveName, IInv, NameInv
<1>4. NameInv'
  BY <1>0, <1>1, <1>2 DEF Alone, IInv, TypeOK, NameInv
<1>5. OwnerInv'
  BY <1>0, <1>1, <1>2 DEF Alone, IInv, TypeOK, OwnerInv
<1>6. StageInv'
  BY <1>0, <1>1, <1>2 DEF Alone, IInv, TypeOK, StageInv
<1>7. OpenerInv'
  BY <1>0, <1>1, <1>2 DEF Alone, IInv, TypeOK, OpenerInv
<1>8. ExclInv'
  BY <1>0, <1>1, <1>2 DEF Alone, IInv, TypeOK, ExclInv
<1> QED BY <1>3, <1>4, <1>5, <1>6, <1>7, <1>8 DEF IInv

\* mq_unlink removes the name, of whatever file.
LEMMA UnlinkInv ==
  ASSUME IInv, UNCHANGED lib, NEW p \in Procs, mq_unlink(p)
  PROVE  IInv'
<1> USE MqOpenAssumption
<1>0. TypeOK
  BY DEF IInv
<1>1. Alone(p)
  BY <1>0 DEF mq_unlink, Goto, Alone, TypeOK
<1>2. /\ path' = NoFile /\ removed' = removed \cup ({path} \ {NoFile})
      /\ UNCHANGED <<pc, fd, created, tries, mapped, xbit, sized, inited, made>>
  BY <1>0 DEF mq_unlink, Goto, TypeOK, files, RemoveName
<1>3. TypeOK'
  BY <1>0 DEF mq_unlink, Goto, TypeOK, Places, RemoveName, IInv, NameInv
<1>4. NameInv'
  BY <1>0, <1>1, <1>2 DEF Alone, IInv, TypeOK, NameInv
<1>5. OwnerInv'
  BY <1>0, <1>1, <1>2 DEF Alone, IInv, TypeOK, OwnerInv
<1>6. StageInv'
  BY <1>0, <1>1, <1>2 DEF Alone, IInv, TypeOK, StageInv
<1>7. OpenerInv'
  BY <1>0, <1>1, <1>2 DEF Alone, IInv, TypeOK, OpenerInv
<1>8. ExclInv'
  BY <1>0, <1>1, <1>2 DEF Alone, IInv, TypeOK, ExclInv
<1> QED BY <1>3, <1>4, <1>5, <1>6, <1>7, <1>8 DEF IInv

\* A killed process leaves the file as it is.
LEMMA DieInv ==
  ASSUME IInv, UNCHANGED lib, NEW p \in Procs, Die(p)
  PROVE  IInv'
<1> USE MqOpenAssumption
<1>0. TypeOK
  BY DEF IInv
<1>1. Alone(p)
  BY <1>0 DEF Die, Goto, Alone, TypeOK
<1>2. /\ pc'[p] = "killed" /\ fd'[p] = NoFile /\ created'[p] = created[p]
      /\ UNCHANGED <<path, removed, xbit, sized, inited, made>>
  BY <1>0 DEF Die, Goto, TypeOK, files
<1>3. TypeOK'
  BY <1>0 DEF Die, Goto, TypeOK, Places, files
<1>4. NameInv'
  BY <1>0, <1>1, <1>2 DEF Alone, IInv, TypeOK, NameInv
<1>5. OwnerInv'
  BY <1>0, <1>1, <1>2 DEF Alone, IInv, TypeOK, OwnerInv
<1>6. StageInv'
  BY <1>0, <1>1, <1>2 DEF Alone, IInv, TypeOK, StageInv
<1>7. OpenerInv'
  BY <1>0, <1>1, <1>2 DEF Alone, IInv, TypeOK, OpenerInv
<1>8. ExclInv'
  BY <1>0, <1>1, <1>2 DEF Alone, IInv, TypeOK, ExclInv
<1> QED BY <1>3, <1>4, <1>5, <1>6, <1>7, <1>8 DEF IInv

\* Every step of every process keeps the invariant.
LEMMA NextInv == IInv /\ [Next]_vars => IInv'
<1> SUFFICES ASSUME IInv, [Next]_vars PROVE IInv'
  OBVIOUS
<1>1. ASSUME NEW p \in Procs, mq_open(p) \/ sem_open(p) PROVE IInv'
  <2>1. UNCHANGED lib /\ call(p)
    BY <1>1 DEF mq_open, sem_open
  <2> QED BY <2>1, CreateInv, SetSizeInv, InitializeInv, PublishInv, OpenExistingInv,
             StatInv, MapExistingInv, FailInv DEF call
<1>2. ASSUME NEW p \in Procs, UNCHANGED lib, CreatorFails(p) \/ mq_unlink(p) \/ Die(p)
      PROVE IInv'
  BY <1>2, CreatorFailsInv, UnlinkInv, DieInv
<1>3. CASE UNCHANGED vars
  BY <1>3 DEF vars, IInv, TypeOK, NameInv, OwnerInv, StageInv, OpenerInv, ExclInv
<1> QED BY <1>1, <1>2, <1>3 DEF Next
-----------------------------------------------------------------------------

\* The inductive invariant holds in every reachable state.
THEOREM Invariance == Spec => []IInv
<1> QED BY InitInv, NextInv, PTL DEF Spec

\* mq_open and sem_open keep their state in its types: a file is initialized
\* only at its full size, and MAX_TRIES bounds the looks at the bit.
THEOREM TypeCorrect == Spec => []TypeOK
<1>1. IInv => TypeOK
  BY DEF IInv
<1> QED BY <1>1, Invariance, PTL

\* Who has the queue or semaphore open has an initialized file mapped, unless
\* the name of that file was removed.
THEOREM ReadyCorrect == Spec => []ReadyOrRemoved
<1>1. IInv => ReadyOrRemoved
  BY DEF IInv, OpenerInv, ReadyOrRemoved
<1> QED BY <1>1, Invariance, PTL

\* All processes that have the name open share the one file it leads to,
\* unless theirs was removed since.
THEOREM OneQueueCorrect == Spec => []OneQueue
<1>1. IInv => OneQueue
  BY DEF IInv, NameInv, OpenerInv, OneQueue
<1> QED BY <1>1, Invariance, PTL

\* A call with O_EXCL succeeds only by creating the file, and two succeed only
\* if the file of one was removed.
THEOREM ExclusiveCorrect == Spec => []ExclusiveCreates
<1>1. IInv => ExclusiveCreates
  <2> SUFFICES ASSUME IInv, NEW p \in Excl, NEW q \in Excl,
                      pc[p] = "opened", pc[q] = "opened", p # q
               PROVE  created[p] /\ {mapped[p], mapped[q]} \cap removed # {}
    BY DEF ExclusiveCreates, IInv, ExclInv
  <2>1. p \in Procs /\ q \in Procs /\ created[p] /\ created[q]
    BY MqOpenAssumption DEF IInv, ExclInv
  <2>2. mapped[p] \in made /\ mapped[q] \in made /\ mapped[p] # mapped[q]
    BY <2>1, MqOpenAssumption DEF IInv, TypeOK, OpenerInv, OwnerInv
  <2>3. mapped[p] \in removed \/ mapped[q] \in removed
    BY <2>2 DEF IInv, NameInv
  <2> QED BY <2>1, <2>3
<1> QED BY <1>1, Invariance, PTL

\* The error path removes the file that the failing process created, and
\* another one only if its own had lost its name before.
THEOREM FailCorrect == Spec => FailRemovesOwn
<1> DEFINE A == \A p \in Procs : pc[p] = "err" /\ pc'[p] = "failed" /\ path' # path
                  => created[p] /\ (path = fd[p] \/ fd[p] \in removed)
<1>1. IInv /\ [Next]_vars => [A]_vars
  <2> SUFFICES ASSUME IInv, Next, NEW p \in Procs,
                      pc[p] = "err", pc'[p] = "failed", path' # path
               PROVE  created[p] /\ (path = fd[p] \/ fd[p] \in removed)
    OBVIOUS
  <2>1. created[p]
    BY DEF Next, mq_open, sem_open, call, Create, SetSize, Initialize, Publish,
           OpenExisting, Stat, MapExisting, Fail, CreatorFails, mq_unlink, Die,
           Goto, files, IInv, TypeOK
  <2>2. fd[p] \in made
    BY <2>1 DEF IInv, OwnerInv
  <2> QED BY <2>1, <2>2 DEF IInv, NameInv
<1> QED BY <1>1, Invariance, PTL DEF Spec, FailRemovesOwn

-----------------------------------------------------------------------------
(* The calls on a semaphore while others open it.                          *)

\* A creator that has not finished has a file that is not initialized.
FreshInv == \A p \in Procs : pc[p] \in {"size", "init"} => fd[p] \notin inited

\* The value is the initial one less the completed waits, once it is set.
ValueInv ==
  IF lib = "sem" /\ Followed \in inited THEN sem_count = Value - waits
                                        ELSE sem_count = 0 /\ waits = 0

\* Who is in sem_wait came in after the initialization, or the removal.
InsideInv ==
  \A p \in Procs : thread[p] # "idle" => Followed \in inited \cup removed

MappedInv ==
  IInv /\ FreshInv /\ CallsTypeOK /\ ValueInv /\ InsideInv /\ AsleepAtZero

\* The invariant holds of a semaphore that nobody has created yet.
LEMMA MappedInitInv == MappedInit => MappedInv
<1> SUFFICES ASSUME MappedInit PROVE MappedInv
  OBVIOUS
<1>1. IInv
  BY InitInv DEF MappedInit
<1>2. FreshInv /\ ValueInv
  BY DEF MappedInit, Init, NoCalls, FreshInv, ValueInv
<1>3. CallsTypeOK /\ InsideInv /\ AsleepAtZero
  BY SemAssumption, MappedSemAssumption
  DEF MappedInit, NoCalls, CallsTypeOK, InsideInv, AsleepAtZero
<1> QED BY <1>1, <1>2, <1>3 DEF MappedInv

\* A step of the composition is a step or a stutter of MqOpen: the calls on
\* the semaphore leave the opening alone.
LEMMA StepsAlone == [MappedNext]_allvars => [Next]_vars
<1>1. ASSUME NEW p \in Procs, opening(p) PROVE Next
  BY <1>1 DEF opening, Next
<1>2. ASSUME NEW p \in Procs, calling(p) PROVE UNCHANGED vars
  BY <1>2 DEF calling
<1>3. ASSUME NEW p \in Procs, ending(p) PROVE Next
  BY <1>3 DEF ending, Next
<1>4. UNCHANGED allvars => UNCHANGED vars
  BY DEF allvars
<1> QED BY <1>1, <1>2, <1>3, <1>4 DEF MappedNext

\* A step of MqOpen initializes no file but that of the process that takes it,
\* keeps the initialized and the removed ones, and makes a creator's file anew.
LEMMA FreshStep ==
  ASSUME IInv, FreshInv, [Next]_vars
  PROVE  FreshInv' /\ inited \subseteq inited' /\ removed \subseteq removed' /\ lib' = lib
<1> USE MqOpenAssumption
<1>0. TypeOK /\ OwnerInv
  BY DEF IInv
<1>1. ASSUME NEW p \in Procs, Create(p)
      PROVE  FreshInv' /\ inited \subseteq inited' /\ removed \subseteq removed'
  <2>1. Alone(p) /\ inited' = inited /\ removed' = removed
    BY <1>0, <1>1 DEF Create, Goto, Alone, TypeOK
  <2>2. pc'[p] = "size" => fd'[p] \notin made
    BY <1>0, <1>1 DEF Create, Goto, TypeOK
  <2>3. pc'[p] # "init"
    BY <1>0, <1>1 DEF Create, Goto, TypeOK
  <2> QED BY <1>0, <2>1, <2>2, <2>3 DEF FreshInv, Alone, TypeOK
<1>2. ASSUME NEW p \in Procs, Initialize(p)
      PROVE  FreshInv' /\ inited \subseteq inited' /\ removed \subseteq removed'
  <2>1. /\ Alone(p) /\ inited' = inited \cup {fd[p]} /\ removed' = removed
        /\ pc[p] = "init" /\ pc'[p] = "chmod"
    BY <1>0, <1>2 DEF Initialize, Goto, Alone, TypeOK
  <2>2. \A q \in Procs \ {p} : pc[q] \in {"size", "init"} => fd[q] # fd[p]
    BY <1>0, <2>1 DEF OwnerInv, TypeOK
  <2> QED BY <2>1, <2>2 DEF FreshInv, Alone
<1>3. ASSUME NEW p \in Procs,
             \/ SetSize(p) \/ Publish(p) \/ OpenExisting(p) \/ Stat(p) \/ MapExisting(p)
             \/ Fail(p) \/ CreatorFails(p) \/ mq_unlink(p) \/ Die(p)
      PROVE  FreshInv' /\ inited \subseteq inited' /\ removed \subseteq removed'
  <2>1. inited' = inited /\ removed \subseteq removed'
    BY <1>3 DEF SetSize, Publish, OpenExisting, Stat, MapExisting, Fail, CreatorFails,
                mq_unlink, Die, files, RemoveName
  <2>2. \A q \in Procs : pc'[q] \in {"size", "init"} =>
                           pc[q] \in {"size", "init"} /\ fd'[q] = fd[q]
    BY <1>0, <1>3 DEF SetSize, Publish, OpenExisting, Stat, MapExisting, Fail, CreatorFails,
                mq_unlink, Die, Goto, AfterStat, TypeOK
  <2> QED BY <2>1, <2>2 DEF FreshInv
<1>4. CASE UNCHANGED vars
  BY <1>4 DEF vars, FreshInv
<1>5. Next => UNCHANGED lib
  BY DEF Next, mq_open, sem_open
<1> QED BY <1>1, <1>2, <1>3, <1>4, <1>5 DEF Next, mq_open, sem_open, call, vars

\* A step of an opener or of a process that ends: the value is set when the
\* file is initialized, and whoever is asleep then came in after its removal.
LEMMA OpeningInv ==
  ASSUME MappedInv, NEW p \in Procs, opening(p) \/ ending(p)
  PROVE  CallsTypeOK' /\ ValueInv' /\ InsideInv' /\ AsleepAtZero'
<1>1. /\ inited \subseteq inited' /\ removed \subseteq removed' /\ lib' = lib
      /\ thread' = thread /\ posts' = posts /\ waits' = waits
      /\ \/ sem_count' = sem_count /\ lib # "sem"
         \/ lib = "sem" /\ SetValue
         \/ sem_count' = sem_count /\ inited' = inited
  <2>1. [Next]_vars
    BY StepsAlone DEF MappedNext
  <2>2. ending(p) => inited' = inited
    BY DEF ending, CreatorFails, Die, mq_unlink, files
  <2> QED BY <2>1, <2>2, FreshStep
          DEF MappedInv, opening, ending, mq_open, sem_open, callvars
<1>2. sem_count' = IF lib = "sem" /\ Followed \in inited' \ inited THEN Value ELSE sem_count
  BY <1>1 DEF SetValue
<1>3. CallsTypeOK'
  BY <1>1, <1>2, SemAssumption DEF MappedInv, CallsTypeOK
<1>4. ValueInv'
  BY <1>1, <1>2, SemAssumption DEF MappedInv, CallsTypeOK, ValueInv
<1>5. InsideInv'
  BY <1>1 DEF MappedInv, InsideInv
<1>6. AsleepAtZero'
  BY <1>1, <1>2 DEF MappedInv, AsleepAtZero, InsideInv
<1> QED BY <1>3, <1>4, <1>5, <1>6

\* A call takes from a positive value or sleeps at 0; a post leaves the value.
LEMMA CallingInv ==
  ASSUME MappedInv, NEW p \in Procs, calling(p)
  PROVE  CallsTypeOK' /\ ValueInv' /\ InsideInv' /\ AsleepAtZero'
<1> DEFINE Goal == CallsTypeOK' /\ ValueInv' /\ InsideInv' /\ AsleepAtZero'
<1>1. /\ p \in Threads /\ lib = "sem" /\ Followed \in inited \cup removed
      /\ UNCHANGED <<lib, inited, removed>>
  BY MappedSemAssumption DEF calling, MappedInv, IInv, OpenerInv, vars
<1>2. /\ CallsTypeOK /\ ValueInv /\ InsideInv /\ AsleepAtZero
      /\ \A q \in Procs : q \in Threads
  BY MappedSemAssumption DEF MappedInv
<1>3. ASSUME Take(p), sem_count # 0 PROVE Goal
  <2>1. sem_count \in Nat /\ sem_count > 0 /\ sem_count' = sem_count - 1 /\ waits' = waits + 1
    BY <1>2, <1>3 DEF Take, CallsTypeOK
  <2>2. CallsTypeOK'
    BY <1>2, <1>3, <2>1 DEF Take, CallsTypeOK
  <2>3. ValueInv'
    BY <1>1, <1>2, <2>1, SemAssumption DEF ValueInv, CallsTypeOK
  <2>4. InsideInv' /\ AsleepAtZero'
    BY <1>1, <1>2, <1>3 DEF Take, InsideInv, AsleepAtZero, CallsTypeOK
  <2> QED BY <2>2, <2>3, <2>4
<1>4. ASSUME Sleep(p), sem_count = 0 PROVE Goal
  BY <1>1, <1>2, <1>4 DEF Sleep, CallsTypeOK, ValueInv, InsideInv, AsleepAtZero
<1>5. ASSUME sem_post(p) PROVE Goal
  <2>1. /\ \A q \in Threads : thread'[q] # thread[q] =>
                                thread[q] = "wait" /\ thread'[q] = "wake"
        /\ thread' \in [Threads -> {"idle", "wait", "wake"}]
    BY <1>2, <1>5 DEF sem_post, CondSignal, CallsTypeOK
  <2>2. CallsTypeOK' /\ ValueInv'
    BY <1>1, <1>2, <1>5, <2>1, SemAssumption DEF sem_post, CallsTypeOK, ValueInv
  <2>3. InsideInv' /\ AsleepAtZero'
    BY <1>1, <1>2, <1>5, <2>1 DEF sem_post, InsideInv, AsleepAtZero
  <2> QED BY <2>2, <2>3
<1>6. ASSUME SpuriousWake(p) PROVE Goal
  BY <1>1, <1>2, <1>6 DEF SpuriousWake, CallsTypeOK, ValueInv, InsideInv, AsleepAtZero
<1>7. ASSUME UNCHANGED callvars PROVE Goal
  BY <1>1, <1>2, <1>7 DEF callvars, CallsTypeOK, ValueInv, InsideInv, AsleepAtZero
<1>8. sem_count > 0 => sem_count # 0
  BY <1>2 DEF CallsTypeOK
<1> QED BY <1>3, <1>4, <1>5, <1>6, <1>7, <1>8
        DEF calling, semcall, sem_wait, sem_wait_resume, sem_trywait

\* Every step keeps the invariant.
LEMMA MappedNextInv == MappedInv /\ [MappedNext]_allvars => MappedInv'
<1> SUFFICES ASSUME MappedInv, [MappedNext]_allvars PROVE MappedInv'
  OBVIOUS
<1>1. IInv' /\ FreshInv'
  BY StepsAlone, NextInv, FreshStep DEF MappedInv
<1>2. CASE UNCHANGED allvars
  BY <1>1, <1>2
  DEF allvars, vars, callvars, MappedInv, CallsTypeOK, ValueInv, InsideInv, AsleepAtZero
<1> QED BY <1>1, <1>2, OpeningInv, CallingInv DEF MappedNext, MappedInv

\* Whatever the callers do, the semaphore is opened as MqOpen says: all that is
\* proved of Spec holds beside the calls.
THEOREM OpensAlone == MappedSpec => Spec
<1>1. MappedInit => Init
  BY DEF MappedInit
<1> QED BY <1>1, StepsAlone, PTL DEF MappedSpec, Spec

\* The inductive invariant of the calls holds in every reachable state.
THEOREM MappedInvariance == MappedSpec => []MappedInv
<1> QED BY MappedInitInv, MappedNextInv, PTL DEF MappedSpec

\* A wait completes only against a value that nobody else took, and the
\* unsigned count does not wrap, for any callers that race and are killed.
THEOREM OverdraftExcluded == MappedSpec => []NoOverdraft
<1>1. MappedInv => NoOverdraft
  BY SemAssumption DEF MappedInv, CallsTypeOK, ValueInv, NoOverdraft
<1> QED BY <1>1, MappedInvariance, PTL

\* Nobody sleeps through the initialization of a semaphore that has its name.
THEOREM SleepersEarly == MappedSpec => []AsleepAtZero
<1>1. MappedInv => AsleepAtZero
  BY DEF MappedInv
<1> QED BY <1>1, MappedInvariance, PTL
=============================================================================
