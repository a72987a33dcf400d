-------------------------- MODULE StateFileProofs --------------------------
(***************************************************************************)
(* For every number of processes, token sets, kinds and sandboxes and any  *)
(* failing system calls: the types of StateFile, and, as long as no two    *)
(* writers run at once, NeverTorn and PublishedWholeAndPrivate.            *)
(***************************************************************************)
EXTENDS StateFile, TLAPS

Fds  == {"none", "tmp", "state", "gone"}
Vals == Tokens \cup Boxes \cup [Kinds -> Boxes \cup {NoBox}] \cup {NoAuth}

(* The two halves of TypeOK, after a step.                                 *)
DiskTyped ==
  /\ disk' \in [Names -> Files]
  /\ \A n \in Names : disk'[n].form # "ok" => disk'[n].body = Zero

LocalTyped ==
  /\ pc' \in [Procs -> Steps]
  /\ call' \in [Procs -> Calls \cup {NoCall}]
  /\ buf' \in [Procs -> Format]
  /\ fd' \in [Procs -> Fds]
  /\ res' \in [Procs -> Results]
  /\ \A p \in Procs : (fd'[p] # "none" <=> pc'[p] = "write")
  /\ \A p \in Procs : (call'[p] = NoCall <=> pc'[p] = "idle")

LEMMA Halves == TypeOK /\ UNCHANGED env /\ DiskTyped /\ LocalTyped => TypeOK'
  BY DEF DiskTyped, LocalTyped, TypeOK, Fds

LEMMA NoReplyTyped == NoReply \in Results
  BY DEF NoReply, Results

LEMMA ZeroTyped == Zero \in Format
  BY DEF Zero, Format, Auths, Caches, NoBoxes, Entries

-----------------------------------------------------------------------------
(* A step that keeps the call going.                                       *)
LEMMA GoingOn ==
  ASSUME TypeOK, NEW p \in Procs, NEW step \in Steps \ {"idle"}, call[p] # NoCall,
         Goto(p, step), UNCHANGED <<call, res>>, buf' \in [Procs -> Format],
         fd' \in [Procs -> Fds],
         \A q \in Procs : (fd'[q] # "none" <=> pc'[q] = "write")
  PROVE  LocalTyped
<1>1. pc' \in [Procs -> Steps] /\ pc'[p] = step
  BY DEF TypeOK, Goto
<1>2. ASSUME NEW q \in Procs PROVE call'[q] = NoCall <=> pc'[q] = "idle"
  <2>1. CASE q = p
    BY <1>1, <2>1
  <2>2. CASE q # p
    BY <2>2 DEF TypeOK, Goto
  <2> QED
    BY <2>1, <2>2
<1> QED
  BY <1>1, <1>2 DEF TypeOK, LocalTyped

(* The same when it opens and closes nothing.                              *)
LEMMA GoingOnPlainly ==
  ASSUME TypeOK, NEW p \in Procs, NEW step \in Steps \ {"idle", "write"},
         call[p] # NoCall, pc[p] # "write", Goto(p, step),
         UNCHANGED <<call, fd, res>>, buf' \in [Procs -> Format]
  PROVE  LocalTyped
<1>1. \A q \in Procs : (fd'[q] # "none" <=> pc'[q] = "write")
  BY DEF TypeOK, Goto
<1>2. fd' \in [Procs -> Fds]
  BY DEF TypeOK, Fds
<1> QED
  BY <1>1, <1>2, GoingOn

(* A step that ends the call, with the descriptors that are left.          *)
LEMMA Finishing ==
  ASSUME TypeOK, NEW p \in Procs, NEW val \in Vals,
         NEW tag \in {"ok", "miss", "error", "hit", "crashed"}, Finish(p, tag, val),
         fd' \in [Procs -> Fds], fd'[p] = "none",
         \A q \in Procs \ {p} : fd'[q] = "none" <=> fd[q] = "none"
  PROVE  LocalTyped
<1>1. /\ pc' = [pc EXCEPT ![p] = "idle"]
      /\ call' = [call EXCEPT ![p] = NoCall]
      /\ buf' = [buf EXCEPT ![p] = Zero]
      /\ res' = [res EXCEPT ![p] = [tag |-> tag, val |-> val]]
  BY DEF Finish, Goto
<1>2. pc' \in [Procs -> Steps] /\ call' \in [Procs -> Calls \cup {NoCall}]
  BY <1>1 DEF TypeOK, Steps
<1>3. buf' \in [Procs -> Format]
  BY <1>1, ZeroTyped DEF TypeOK
<1>4. res' \in [Procs -> Results]
  <2>1. [tag |-> tag, val |-> val] \in Results
    BY DEF Results, Vals
  <2> QED
    BY <1>1, <2>1 DEF TypeOK
<1>5. ASSUME NEW q \in Procs
      PROVE  /\ fd'[q] # "none" <=> pc'[q] = "write"
             /\ call'[q] = NoCall <=> pc'[q] = "idle"
  <2>1. CASE q = p
    BY <1>1, <2>1 DEF TypeOK
  <2>2. CASE q # p
    BY <1>1, <2>2 DEF TypeOK
  <2> QED
    BY <2>1, <2>2
<1> QED
  BY <1>2, <1>3, <1>4, <1>5 DEF LocalTyped

LEMMA Returning ==
  ASSUME TypeOK, NEW p \in Procs, NEW val \in Vals,
         NEW tag \in {"ok", "miss", "error", "hit", "crashed"}, Return(p, tag, val)
  PROVE  LocalTyped
<1>1. /\ fd' \in [Procs -> Fds] /\ fd'[p] = "none"
      /\ \A q \in Procs \ {p} : fd'[q] = fd[q]
      /\ Finish(p, tag, val)
  BY DEF Return, TypeOK, Fds
<1> QED
  BY <1>1, Finishing

(* Replying without a value.                                               *)
LEMMA Replying ==
  ASSUME TypeOK, NEW p \in Procs, Ok(p) \/ Fail(p) \/ Miss(p)
  PROVE  LocalTyped
  BY Returning DEF Ok, Fail, Miss, Vals

(* One of the two files is replaced.                                       *)
LEMMA Storing ==
  ASSUME TypeOK, NEW n \in Names, NEW file \in Files, file.form # "ok" => file.body = Zero,
         disk' = [disk EXCEPT ![n] = file]
  PROVE  DiskTyped
  BY DEF TypeOK, DiskTyped

LEMMA FileTyped ==
  ASSUME NEW form \in Forms, NEW body \in Format, NEW mode \in Modes
  PROVE  File(form, body, mode) \in Files /\ Missing \in Files
  BY ZeroTyped DEF File, Files, Missing, Forms, Modes

(* A name goes, and descriptors of that file lose it.                      *)
LEMMA Unlinking ==
  ASSUME TypeOK, NEW n \in Names, NEW p \in Procs, pc[p] # "write", Unlink(n)
  PROVE  /\ DiskTyped
         /\ fd' \in [Procs -> Fds] /\ fd'[p] = "none"
         /\ \A q \in Procs : fd'[q] = "none" <=> fd[q] = "none"
<1>1. DiskTyped
  BY Storing, FileTyped, ZeroTyped DEF Unlink, Missing, File, Forms, Modes
<1>2. fd' = Moved(n, "gone") /\ fd[p] = "none" /\ n # "none"
  BY DEF Unlink, TypeOK, Names
<1> QED
  BY <1>1, <1>2 DEF Moved, TypeOK, Fds

(* What a reader finds is something it may return.                         *)
LEMMA Looking ==
  ASSUME TypeOK, NEW p \in Procs, NEW good \in SUBSET Vals, NEW value, Lookup(p, good, value)
  PROVE  LocalTyped
  BY Returning, Replying DEF Lookup
-----------------------------------------------------------------------------
LEMMA Unmoved ==
  ASSUME TypeOK, UNCHANGED disk
  PROVE  DiskTyped
  BY DEF TypeOK, DiskTyped

LEMMA MergedTyped ==
  ASSUME TypeOK, NEW f \in Current
  PROVE  f \in Format
  BY ZeroTyped DEF Current, TypeOK, Names, Files

LEMMA Publishing ==
  ASSUME TypeOK, NEW p \in Procs, pc[p] = "read", NEW body \in Format, Publish(p, body)
  PROVE  LocalTyped
<1>1. buf' \in [Procs -> Format] /\ call[p] # NoCall
  BY DEF Publish, TypeOK
<1> QED
  BY <1>1, GoingOnPlainly DEF Publish, Steps

LEMMA BeginTyped ==
  ASSUME TypeOK, UNCHANGED env, NEW p \in Procs, NEW c \in Calls, Begin(p, c)
  PROVE  TypeOK'
<1>1. /\ call' = [call EXCEPT ![p] = c]
      /\ pc' = [pc EXCEPT ![p] = IF c.name \in {"Save", "SaveSandbox"} THEN "read" ELSE "stat"]
      /\ res' = [res EXCEPT ![p] = NoReply]
      /\ UNCHANGED <<disk, buf, fd>>
      /\ pc[p] = "idle"
  BY DEF Begin, Goto, TypeOK
<1>2. c # NoCall
  BY DEF Calls, NoCall
<1>3. LocalTyped
  <2>1. /\ pc' \in [Procs -> Steps] /\ call' \in [Procs -> Calls \cup {NoCall}]
        /\ res' \in [Procs -> Results]
    BY <1>1, NoReplyTyped DEF TypeOK, Steps
  <2>2. ASSUME NEW q \in Procs
        PROVE  /\ fd'[q] # "none" <=> pc'[q] = "write"
               /\ call'[q] = NoCall <=> pc'[q] = "idle"
    <3>1. CASE q = p
      BY <1>1, <1>2, <3>1 DEF TypeOK
    <3>2. CASE q # p
      BY <1>1, <3>2 DEF TypeOK
    <3> QED
      BY <3>1, <3>2
  <2> QED
    BY <1>1, <2>1, <2>2 DEF TypeOK, LocalTyped, Fds
<1> QED
  BY <1>1, <1>3, Unmoved, Halves

LEMMA CallTyped ==
  ASSUME TypeOK, NEW p \in Procs, call[p] # NoCall
  PROVE  /\ call[p] \in Calls
         /\ call[p].name = "Save" => call[p].tokens \in Tokens
         /\ call[p].name \in {"LoadSandbox", "SaveSandbox"} => call[p].kind \in Kinds
         /\ call[p].name = "SaveSandbox" => call[p].box \in Boxes
  BY DEF TypeOK, Calls

LEMMA BodyTyped ==
  ASSUME TypeOK
  PROVE  /\ disk["state"] \in Files /\ disk["tmp"] \in Files
         /\ disk["state"].body.auth \in Auths /\ disk["state"].body.cache \in Caches
  BY DEF TypeOK, Names, Files, Format

(* What the steps of Load and of the sandbox reads leave typed.            *)
LEMMA ReadTyped ==
  ASSUME TypeOK, UNCHANGED env, NEW p \in Procs,
         \/ StatForRead(p) \/ StatForClear(p) \/ ReadFails(p)
         \/ ReadTokens(p) \/ ReadSandbox(p) \/ ReadSandboxes(p)
  PROVE  TypeOK'
<1>1. NoBoxes \in Vals /\ Readable(disk["state"].body.cache) \in Vals
  BY BodyTyped DEF NoBoxes, Readable, Vals, Caches, Entries
<1>2. ASSUME NEW step \in Steps \ {"idle", "write"}, Goto(p, step),
             UNCHANGED <<call, buf, fd, res>>, pc[p] \notin {"idle", "write"}
      PROVE  LocalTyped
  <2>1. call[p] # NoCall /\ buf' \in [Procs -> Format]
    BY <1>2 DEF TypeOK
  <2> QED
    BY <1>2, <2>1, GoingOnPlainly
<1>3. CASE StatForRead(p)
  BY <1>1, <1>2, <1>3, Returning, Replying, Unmoved, Halves DEF StatForRead, Steps
<1>4. CASE StatForClear(p)
  BY <1>2, <1>4, Replying, Unmoved, Halves DEF StatForClear, Steps
<1>5. CASE ReadFails(p)
  BY <1>5, Replying, Unmoved, Halves DEF ReadFails
<1>6. CASE ReadTokens(p)
  BY <1>2, <1>6, Looking, Unmoved, Halves DEF ReadTokens, Steps, Vals
<1>7. CASE ReadSandbox(p)
  BY <1>7, Looking, Unmoved, Halves DEF ReadSandbox, Vals
<1>8. CASE ReadSandboxes(p)
  BY <1>1, <1>8, Returning, Unmoved, Halves DEF ReadSandboxes
<1> QED
  BY <1>3, <1>4, <1>5, <1>6, <1>7, <1>8

LEMMA MergeTyped ==
  ASSUME TypeOK, UNCHANGED env, NEW p \in Procs,
         MergeTokens(p) \/ MergeSandbox(p) \/ MergeClear(p) \/ MergeClearSandboxes(p)
  PROVE  TypeOK'
<1>1. pc[p] = "read" /\ call[p] # NoCall /\ UNCHANGED disk
  BY DEF MergeTokens, MergeSandbox, MergeClear, MergeClearSandboxes, TypeOK
<1>2. ASSUME Goto(p, "remove"), UNCHANGED <<call, buf, fd, res>>
      PROVE  LocalTyped
  <2>1. buf' \in [Procs -> Format]
    BY <1>2 DEF TypeOK
  <2> QED
    BY <1>1, <1>2, <2>1, GoingOnPlainly DEF Steps
<1>3. CASE MergeTokens(p)
  <2>1. PICK f \in Current : Publish(p, [f EXCEPT !.auth = StoredTokens(call[p].tokens)])
    BY <1>3 DEF MergeTokens
  <2>2. StoredTokens(call[p].tokens) \in Auths
    BY <1>1, <1>3, CallTyped DEF MergeTokens, StoredTokens, Auths
  <2>3. [f EXCEPT !.auth = StoredTokens(call[p].tokens)] \in Format
    BY <2>2, MergedTyped DEF Format
  <2> QED
    BY <1>1, <2>1, <2>3, Publishing, Unmoved, Halves
<1>4. CASE MergeSandbox(p)
  <2>1. PICK f \in Current : Publish(p, [f EXCEPT !.cache[call[p].kind] = call[p].box])
    BY <1>4 DEF MergeSandbox
  <2>2. call[p].box \in Entries
    BY <1>1, <1>4, CallTyped DEF MergeSandbox, Entries
  <2>3. [f EXCEPT !.cache[call[p].kind] = call[p].box] \in Format
    BY <2>2, MergedTyped DEF Format, Caches
  <2> QED
    BY <1>1, <2>1, <2>3, Publishing, Unmoved, Halves
<1>5. CASE MergeClear(p)
  <2>1. PICK f \in Current : IF f.cache = NoBoxes
                             THEN Goto(p, "remove") /\ UNCHANGED <<call, buf, fd, res>>
                             ELSE Publish(p, [f EXCEPT !.auth = NoAuth])
    BY <1>5 DEF MergeClear
  <2>2. [f EXCEPT !.auth = NoAuth] \in Format
    BY MergedTyped DEF Format, Auths
  <2> QED
    BY <1>1, <1>2, <2>1, <2>2, Publishing, Unmoved, Halves
<1>6. CASE MergeClearSandboxes(p)
  <2>1. PICK f \in Current :
          \/ Ok(p)
          \/ Goto(p, "remove") /\ UNCHANGED <<call, buf, fd, res>>
          \/ Publish(p, [f EXCEPT !.cache = NoBoxes])
    BY <1>6 DEF MergeClearSandboxes
  <2>2. [f EXCEPT !.cache = NoBoxes] \in Format
    BY MergedTyped DEF Format, Caches, NoBoxes, Entries
  <2> QED
    BY <1>1, <1>2, <2>1, <2>2, Publishing, Replying, Unmoved, Halves
<1> QED
  BY <1>3, <1>4, <1>5, <1>6

(* writeAtomic.  Whoever writes has his file open; nobody else's moves but *)
(* with its name.                                                          *)
LEMMA WriteTyped ==
  ASSUME TypeOK, UNCHANGED env, NEW p \in Procs,
         OpenTmp(p) \/ WriteTmp(p) \/ WriteFails(p) \/ ChmodTmp(p)
  PROVE  TypeOK'
<1>1. buf \in [Procs -> Format] /\ fd \in [Procs -> Fds]
  BY DEF TypeOK, Fds
<1>2. CASE OpenTmp(p)
  <2>1. CASE Fail(p) /\ UNCHANGED disk
    BY <2>1, Replying, Unmoved, Halves
  <2>2. CASE ~(Fail(p) /\ UNCHANGED disk)
    <3>0. disk["tmp"].mode \in Modes /\ CreatedModes \subseteq Modes
      BY DEF TypeOK, Files, Names, CreatedModes, Modes
    <3>1. PICK m \in Modes : disk' = [disk EXCEPT !["tmp"] = File("empty", Zero, m)]
      BY <1>2, <2>2, <3>0 DEF OpenTmp
    <3>2. fd' = [fd EXCEPT ![p] = "tmp"] /\ Goto(p, "write") /\ UNCHANGED <<call, buf, res>>
      BY <1>2, <2>2 DEF OpenTmp
    <3>3. DiskTyped
      BY <3>1, Storing, FileTyped, ZeroTyped DEF File, Forms, Names
    <3>4. \A q \in Procs : (fd'[q] # "none" <=> pc'[q] = "write")
      BY <3>2 DEF TypeOK, Goto
    <3>5. call[p] # NoCall
      BY <1>2 DEF OpenTmp, TypeOK
    <3>6. fd' \in [Procs -> Fds]
      BY <1>1, <3>2 DEF Fds
    <3>7. LocalTyped
      BY <1>1, <3>2, <3>4, <3>5, <3>6, GoingOn DEF Steps
    <3> QED
      BY <3>3, <3>7, Halves
  <2> QED
    BY <2>1, <2>2
<1>3. CASE WriteTmp(p)
  <2>1. fd' = [fd EXCEPT ![p] = "none"] /\ Goto(p, "chmod") /\ UNCHANGED <<call, buf, res>>
    BY <1>3 DEF WriteTmp
  <2>2. DiskTyped
    <3>1. CASE fd[p] = "gone"
      BY <1>3, <3>1, Unmoved DEF WriteTmp
    <3>2. CASE fd[p] # "gone"
      <4>1. fd[p] \in Names
        BY <1>3, <3>2 DEF WriteTmp, TypeOK, Names
      <4>2. PICK form \in {"ok", "torn"} :
              disk' = [disk EXCEPT ![fd[p]] =
                         File(form, IF form = "ok" THEN buf[p] ELSE Zero, disk[fd[p]].mode)]
        BY <1>3, <3>2, <4>1 DEF WriteTmp, TypeOK
      <4>3. disk[fd[p]].mode \in Modes /\ buf[p] \in Format
        BY <4>1 DEF TypeOK, Files
      <4> DEFINE body == IF form = "ok" THEN buf[p] ELSE Zero
      <4>4. body \in Format /\ form \in Forms
        BY <4>3, ZeroTyped DEF Forms
      <4>5. File(form, body, disk[fd[p]].mode) \in Files
        BY <4>3, <4>4, FileTyped
      <4>6. File(form, body, disk[fd[p]].mode).form # "ok"
              => File(form, body, disk[fd[p]].mode).body = Zero
        BY DEF File
      <4> QED
        BY <4>1, <4>2, <4>5, <4>6, Storing
    <3> QED
      BY <3>1, <3>2
  <2>3. \A q \in Procs : (fd'[q] # "none" <=> pc'[q] = "write")
    BY <2>1 DEF TypeOK, Goto
  <2>4. call[p] # NoCall /\ fd' \in [Procs -> Fds]
    BY <1>1, <1>3, <2>1 DEF WriteTmp, TypeOK, Fds
  <2>5. LocalTyped
    BY <1>1, <2>1, <2>3, <2>4, GoingOn DEF Steps
  <2> QED
    BY <2>2, <2>5, Halves
<1>4. CASE WriteFails(p)
  <2>1. Fail(p) /\ fd[p] \in Fds \ {"none"}
    BY <1>4 DEF WriteFails, TypeOK, Fds
  <2>2. CASE UNCHANGED disk
    BY <2>1, <2>2, Replying, Unmoved, Halves
  <2>3. CASE ~UNCHANGED disk
    <3>1. fd[p] \in Names
      BY <1>4, <2>1, <2>3 DEF WriteFails, Names, Fds
    <3>2. disk' = [disk EXCEPT ![fd[p]] = File("torn", Zero, disk[fd[p]].mode)]
      BY <1>4, <2>3, <3>1 DEF WriteFails, TypeOK
    <3>3. disk[fd[p]].mode \in Modes
      BY <3>1 DEF TypeOK, Files
    <3>4. DiskTyped
      BY <3>1, <3>2, <3>3, Storing, FileTyped, ZeroTyped DEF File, Forms
    <3> QED
      BY <2>1, <3>4, Replying, Halves
  <2> QED
    BY <2>2, <2>3
<1>5. CASE ChmodTmp(p)
  <2>1. call[p] # NoCall /\ pc[p] = "chmod" /\ UNCHANGED <<call, buf, fd, res>>
    BY <1>5 DEF ChmodTmp, TypeOK
  <2>2. \E step \in {"rename", "cleanup"} : Goto(p, step)
    BY <1>5 DEF ChmodTmp
  <2>3. LocalTyped
    BY <1>1, <2>1, <2>2, GoingOnPlainly DEF Steps
  <2>4. CASE UNCHANGED disk
    BY <2>3, <2>4, Unmoved, Halves
  <2>5. CASE ~UNCHANGED disk
    <3>1. disk' = [disk EXCEPT !["tmp"].mode = "0600"]
      BY <1>5, <2>5 DEF ChmodTmp
    <3>2. DiskTyped
      BY <3>1 DEF TypeOK, DiskTyped, Names, Files, Modes
    <3> QED
      BY <2>3, <3>2, Halves
  <2> QED
    BY <2>4, <2>5
<1> QED
  BY <1>2, <1>3, <1>4, <1>5

LEMMA UnlinkTyped ==
  ASSUME TypeOK, UNCHANGED env, NEW p \in Procs, NEW n \in Names, NEW tag \in {"ok", "miss", "error"},
         pc[p] # "write", Unlink(n), Finish(p, tag, NoAuth)
  PROVE  TypeOK'
  BY Unlinking, Finishing, Halves DEF Vals

LEMMA RenameTyped ==
  ASSUME TypeOK, UNCHANGED env, NEW p \in Procs, RenameTmp(p)
  PROVE  TypeOK'
<1>1. /\ fd' = Moved("tmp", "state") /\ fd[p] = "none" /\ Finish(p, "ok", NoAuth)
      /\ disk' = [disk EXCEPT !["state"] = disk["tmp"], !["tmp"] = Missing]
  BY DEF RenameTmp, TypeOK
<1>2. DiskTyped
  BY <1>1, FileTyped, ZeroTyped DEF TypeOK, DiskTyped, Names, Missing, File, Forms, Modes
<1>3. /\ fd' \in [Procs -> Fds] /\ fd'[p] = "none"
      /\ \A q \in Procs : fd'[q] = "none" <=> fd[q] = "none"
  BY <1>1 DEF Moved, TypeOK, Fds
<1> QED
  BY <1>1, <1>2, <1>3, Finishing, Halves DEF Vals

LEMMA EndTyped ==
  ASSUME TypeOK, UNCHANGED env, NEW p \in Procs,
         \/ RenameFails(p) \/ CleanupTmp(p)
         \/ Heal(p) \/ RemoveState(p) \/ Crash(p)
  PROVE  TypeOK'
<1>1. CASE RenameFails(p)
  <2>1. /\ call[p] # NoCall /\ pc[p] = "rename" /\ Goto(p, "cleanup")
        /\ UNCHANGED <<disk, call, buf, fd, res>> /\ buf' \in [Procs -> Format]
    BY <1>1 DEF RenameFails, TypeOK
  <2> QED
    BY <2>1, GoingOnPlainly, Unmoved, Halves DEF Steps
<1>2. CASE CleanupTmp(p)
  BY <1>2, UnlinkTyped, Replying, Unmoved, Halves DEF CleanupTmp, Names
<1>3. CASE Heal(p)
  BY <1>3, UnlinkTyped, Replying, Unmoved, Halves DEF Heal, Names
<1>4. CASE RemoveState(p)
  BY <1>4, UnlinkTyped, Replying, Unmoved, Halves DEF RemoveState, Names
<1>5. CASE Crash(p)
  BY <1>5, Returning, Unmoved, Halves DEF Crash, Vals
<1> QED
  BY <1>1, <1>2, <1>3, <1>4, <1>5

LEMMA TypeStep == TypeOK /\ [Next]_vars => TypeOK'
<1> SUFFICES ASSUME TypeOK, [Next]_vars PROVE TypeOK'
  OBVIOUS
<1>1. CASE UNCHANGED vars
  BY <1>1 DEF TypeOK, vars
<1>2. ASSUME NEW p \in Procs, NEW c \in Calls, Begin(p, c), UNCHANGED env PROVE TypeOK'
  BY <1>2, BeginTyped
<1>3. ASSUME NEW p \in Procs, Step(p), UNCHANGED env PROVE TypeOK'
  BY <1>3, ReadTyped, MergeTyped, WriteTyped, RenameTyped, EndTyped DEF Step
<1>4. ASSUME NEW p \in Procs, Crash(p), UNCHANGED env PROVE TypeOK'
  BY <1>4, EndTyped
<1> QED
  BY <1>1, <1>2, <1>3, <1>4 DEF Next

LEMMA TypeInit == Init => TypeOK
<1> SUFFICES ASSUME Init PROVE TypeOK
  OBVIOUS
<1>1. CleanBodies \subseteq Format
  BY DEF CleanBodies
<1>2. \A file \in {Missing} \cup CleanFiles \cup OddFiles \cup Leftovers :
        file \in Files /\ (file.form # "ok" => file.body = Zero)
  BY <1>1, FileTyped, ZeroTyped
  DEF CleanFiles, OddFiles, Leftovers, Files, Missing, File, Forms, Modes, CreatedModes
<1>3. PICK state \in {Missing} \cup (IF env.unparsable THEN OddFiles ELSE CleanFiles),
           tmp \in {Missing} \cup (IF env.unparsable THEN Leftovers ELSE {}) :
           disk = [n \in Names |-> IF n = "state" THEN state ELSE tmp]
  BY DEF Init
<1>4. /\ state \in Files /\ (state.form # "ok" => state.body = Zero)
      /\ tmp \in Files /\ (tmp.form # "ok" => tmp.body = Zero)
  BY <1>2, <1>3
<1>6. disk \in [Names -> Files] /\ \A n \in Names : disk[n].form # "ok" => disk[n].body = Zero
  BY <1>3, <1>4
<1> QED
  BY <1>6, NoReplyTyped, ZeroTyped DEF Init, TypeOK, Steps

(***************************************************************************)
(* Every variable of the state file keeps its type, and a method that      *)
(* returns leaves no file open, for every number of processes, every       *)
(* overlap and every set of failing system calls.                          *)
(***************************************************************************)
THEOREM TypeCorrect == Spec => []TypeOK
<1>1. Init => TypeOK
  BY TypeInit
<1>2. TypeOK /\ [Next]_vars => TypeOK'
  BY TypeStep
<1> QED
  BY <1>1, <1>2, PTL DEF Spec

-----------------------------------------------------------------------------
(***************************************************************************)
(* While no two writers run at once, the temporary file belongs to the one *)
(* writer there is: Phase says how far it is at each of the writer's       *)
(* steps, and SoleWriter that nobody else is at one of those.              *)
(***************************************************************************)
WritingSteps == {"open", "write", "chmod", "rename", "cleanup"}

OneWriter == \A e \in Environments : ~e.racing

SoleWriter ==
  \A p, q \in Procs : call[p].name \in Writers /\ call[q].name \in Writers => p = q

Phase(p) ==
  /\ pc[p] \in WritingSteps => call[p].name \in Writers
  /\ pc[p] = "write" => fd[p] = "tmp" /\ disk["tmp"].form = "empty"
  /\ pc[p] \in {"chmod", "rename"} => disk["tmp"].form = "ok"
  /\ pc[p] = "rename" => disk["tmp"].mode = "0600"

Inv == TypeOK /\ SoleWriter /\ NeverTorn /\ \A p \in Procs : Phase(p)

(* What a step of p leaves of everybody's place and call.                  *)
LEMMA StepIsLocal ==
  ASSUME TypeOK, NEW p \in Procs, Step(p) \/ Crash(p)
  PROVE  /\ \A q \in Procs \ {p} : pc'[q] = pc[q] /\ call'[q] = call[q]
         /\ call'[p] \in {call[p], NoCall}
<1> DEFINE Moves == \E step \in Steps : Goto(p, step) /\ UNCHANGED call
           Ends  == \E tag, val : Finish(p, tag, val)
<1>1. Moves \/ Ends
  <2>1. ASSUME NEW body, Publish(p, body) PROVE Moves
    BY <2>1 DEF Publish, Steps
  <2>2. ASSUME Ok(p) \/ Fail(p) \/ Miss(p) \/ (\E tag, val : Return(p, tag, val)) PROVE Ends
    BY <2>2 DEF Ok, Fail, Miss, Return
  <2>3. ASSUME NEW good, NEW val, Lookup(p, good, val) PROVE Ends
    BY <2>2, <2>3 DEF Lookup
  <2>4. CASE StatForRead(p) \/ StatForClear(p) \/ ReadFails(p)
    BY <2>2, <2>4 DEF StatForRead, StatForClear, ReadFails, Steps
  <2>5. CASE ReadTokens(p) \/ ReadSandbox(p) \/ ReadSandboxes(p)
    BY <2>2, <2>3, <2>5 DEF ReadTokens, ReadSandbox, ReadSandboxes, Steps
  <2>6. CASE MergeTokens(p) \/ MergeSandbox(p) \/ MergeClear(p) \/ MergeClearSandboxes(p)
    BY <2>1, <2>2, <2>6 DEF MergeTokens, MergeSandbox, MergeClear, MergeClearSandboxes, Steps
  <2>7. CASE OpenTmp(p) \/ WriteTmp(p) \/ WriteFails(p) \/ ChmodTmp(p)
    BY <2>2, <2>7 DEF OpenTmp, WriteTmp, WriteFails, ChmodTmp, Steps
  <2>8. CASE RenameTmp(p) \/ RenameFails(p) \/ CleanupTmp(p)
    BY <2>2, <2>8 DEF RenameTmp, RenameFails, CleanupTmp, Steps
  <2>9. CASE Heal(p) \/ RemoveState(p) \/ Crash(p)
    BY <2>2, <2>9 DEF Heal, RemoveState, Crash
  <2> QED
    BY <2>4, <2>5, <2>6, <2>7, <2>8, <2>9 DEF Step
<1> QED
  BY <1>1 DEF Finish, Goto, TypeOK

(* Only a process at one of the writing steps touches the temporary file,  *)
(* or a descriptor open on it.                                             *)
LEMMA TmpUntouched ==
  ASSUME TypeOK, NEW p \in Procs, Step(p) \/ Crash(p), pc[p] \notin WritingSteps
  PROVE  /\ disk'["tmp"] = disk["tmp"]
         /\ \A q \in Procs \ {p} : fd[q] # "state" => fd'[q] = fd[q]
<1> USE DEF WritingSteps, TypeOK, Names
<1> DEFINE Quiet == UNCHANGED <<disk, fd>>
           Ends  == UNCHANGED disk /\ \E tag, val : Return(p, tag, val)
           Loses == Unlink("state")
<1>1. Quiet \/ Ends \/ Loses
  <2>1. ASSUME Ok(p) \/ Fail(p) \/ Miss(p), UNCHANGED disk PROVE Ends
    BY <2>1 DEF Ok, Fail, Miss
  <2>2. ASSUME NEW good, NEW val, Lookup(p, good, val), UNCHANGED disk PROVE Ends
    BY <2>1, <2>2 DEF Lookup
  <2>3. CASE StatForRead(p) \/ StatForClear(p) \/ ReadFails(p)
    BY <2>1, <2>3 DEF StatForRead, StatForClear, ReadFails
  <2>4. CASE ReadTokens(p) \/ ReadSandbox(p) \/ ReadSandboxes(p)
    BY <2>1, <2>2, <2>4 DEF ReadTokens, ReadSandbox, ReadSandboxes
  <2>5. CASE MergeTokens(p) \/ MergeSandbox(p) \/ MergeClear(p) \/ MergeClearSandboxes(p)
    BY <2>1, <2>5 DEF MergeTokens, MergeSandbox, MergeClear, MergeClearSandboxes, Publish
  <2>6. CASE Heal(p) \/ RemoveState(p) \/ Crash(p)
    BY <2>1, <2>6 DEF Heal, RemoveState, Crash
  <2> QED
    BY <2>3, <2>4, <2>5, <2>6
    DEF Step, OpenTmp, WriteTmp, WriteFails, ChmodTmp, RenameTmp, RenameFails, CleanupTmp
<1>2. CASE Loses
  BY <1>2 DEF Unlink, Moved
<1> QED
  BY <1>1, <1>2 DEF Return

(* A step moves a call on without changing it, or ends it, so who is a     *)
(* writer changes at the beginning of a call only.                         *)
LEMMA SoleWriterStep ==
  ASSUME Inv, NEW p \in Procs, Step(p) \/ Crash(p)
  PROVE  SoleWriter'
<1>1. \A q \in Procs : call'[q].name \in Writers => call[q].name \in Writers
  BY StepIsLocal DEF Inv, NoCall, Writers
<1> QED
  BY <1>1 DEF Inv, SoleWriter

LEMMA BeginInv ==
  ASSUME OneWriter, Inv, UNCHANGED env, NEW p \in Procs, NEW c \in Calls, Begin(p, c)
  PROVE  Inv' /\ UNCHANGED disk
<1>1. /\ call' = [call EXCEPT ![p] = c] /\ UNCHANGED <<disk, buf, fd>>
      /\ pc'[p] \in {"read", "stat"} /\ \A q \in Procs \ {p} : pc'[q] = pc[q]
  BY DEF Begin, Goto, Inv, TypeOK
<1>2. TypeOK'
  BY BeginTyped DEF Inv
<1>3. ASSUME NEW q \in Procs \ {p}
      PROVE  ~(c.name \in Writers /\ call[q].name \in Writers)
  BY DEF Begin, MayBegin, Inv, TypeOK, OneWriter
<1>4. SoleWriter'
  BY <1>1, <1>3 DEF Inv, TypeOK, SoleWriter
<1>5. NeverTorn' /\ \A q \in Procs : Phase(q)'
  BY <1>1 DEF Inv, TypeOK, NeverTorn, Phase, WritingSteps
<1> QED
  BY <1>1, <1>2, <1>4, <1>5 DEF Inv

(* A process that is not writing leaves the writer's phase alone, and does *)
(* not start to write in the middle.                                       *)
LEMMA OthersStep ==
  ASSUME Inv, NEW p \in Procs, Step(p) \/ Crash(p), pc[p] \notin WritingSteps
  PROVE  /\ \A q \in Procs : Phase(q)'
         /\ disk'["state"] \in {disk["state"], Missing}
<1>1. TypeOK
  BY DEF Inv
<1>2. ASSUME NEW q \in Procs \ {p} PROVE Phase(q)'
  BY <1>1, <1>2, StepIsLocal, TmpUntouched DEF Inv, Phase
<1>3. /\ pc'[p] \in {"idle", "read", "heal", "remove", "open"}
      /\ pc'[p] = "open" => call'[p].name \in Writers
      /\ disk'["state"] \in {disk["state"], Missing}
  <2> USE <1>1 DEF TypeOK, Goto, Names
  <2>1. ASSUME \/ Ok(p) \/ Fail(p) \/ Miss(p) \/ (\E tag, val : Return(p, tag, val))
               \/ \E tag, val : Finish(p, tag, val)
        PROVE  pc'[p] = "idle"
    BY <2>1 DEF Ok, Fail, Miss, Return, Finish
  <2>2. ASSUME NEW body, Publish(p, body) PROVE pc'[p] = "open" /\ UNCHANGED call
    BY <2>2 DEF Publish
  <2>3. CASE StatForRead(p) \/ StatForClear(p) \/ ReadFails(p)
    BY <2>1, <2>3 DEF StatForRead, StatForClear, ReadFails
  <2>4. CASE ReadTokens(p) \/ ReadSandbox(p) \/ ReadSandboxes(p)
    BY <2>1, <2>4 DEF ReadTokens, ReadSandbox, ReadSandboxes, Lookup
  <2>5. CASE MergeTokens(p) \/ MergeSandbox(p) \/ MergeClear(p) \/ MergeClearSandboxes(p)
    BY <2>1, <2>2, <2>5
    DEF MergeTokens, MergeSandbox, MergeClear, MergeClearSandboxes, Writers
  <2>6. CASE Heal(p) \/ RemoveState(p) \/ Crash(p)
    BY <2>1, <2>6 DEF Heal, RemoveState, Crash, Unlink, Miss, Fail, Return
  <2> QED
    BY <2>3, <2>4, <2>5, <2>6
    DEF Step, WritingSteps, OpenTmp, WriteTmp, WriteFails, ChmodTmp, RenameTmp, RenameFails,
        CleanupTmp
<1>4. Phase(p)'
  BY <1>3 DEF Phase, WritingSteps
<1> QED
  BY <1>2, <1>3, <1>4

(* Each step of the writer leads from its phase to the next, and only the  *)
(* rename, of a whole and private file, reaches state.json.                *)
LEMMA WriterStep ==
  ASSUME Inv, NEW p \in Procs, Step(p) \/ Crash(p), pc[p] \in WritingSteps
  PROVE  /\ Phase(p)'
         /\ \/ disk'["state"] = disk["state"]
            \/ disk'["state"].form = "ok" /\ disk'["state"].mode = "0600"
<1> USE DEF Inv, TypeOK, Goto, Names, Phase, WritingSteps
<1> DEFINE Kept == disk'["state"] = disk["state"]
<1>1. call[p].name \in Writers
  OBVIOUS
<1>2. ASSUME Fail(p) \/ \E tag, val : Return(p, tag, val) \/ Finish(p, tag, val)
      PROVE  Phase(p)'
  BY <1>2 DEF Fail, Return, Finish
<1>3. CASE OpenTmp(p)
  BY <1>1, <1>2, <1>3 DEF OpenTmp, File
<1>4. CASE WriteTmp(p)
  <2>1. /\ disk' = [disk EXCEPT !["tmp"] = File("ok", buf[p], disk["tmp"].mode)]
        /\ pc'[p] = "chmod" /\ UNCHANGED call
    BY <1>4 DEF WriteTmp
  <2> QED
    BY <1>1, <2>1 DEF File
<1>5. CASE WriteFails(p)
  BY <1>2, <1>5 DEF WriteFails
<1>6. CASE ChmodTmp(p)
  BY <1>1, <1>6 DEF ChmodTmp, Files
<1>7. CASE RenameTmp(p)
  BY <1>2, <1>7 DEF RenameTmp
<1>8. CASE RenameFails(p)
  BY <1>1, <1>8 DEF RenameFails
<1>9. CASE CleanupTmp(p)
  BY <1>2, <1>9 DEF CleanupTmp, Unlink
<1>10. CASE Crash(p)
  BY <1>2, <1>10 DEF Crash
<1> QED
  BY <1>3, <1>4, <1>5, <1>6, <1>7, <1>8, <1>9, <1>10
  DEF Step, StatForRead, StatForClear, ReadFails, ReadTokens, ReadSandbox, ReadSandboxes,
      MergeTokens, MergeSandbox, MergeClear, MergeClearSandboxes, Heal, RemoveState

(* Every step keeps the invariant, and replaces state.json, if at all, by  *)
(* nothing or by a whole file of mode 0600.                                *)
LEMMA InvStep ==
  ASSUME OneWriter, Inv, [Next]_vars
  PROVE  /\ Inv'
         /\ \/ disk'["state"] = disk["state"]
            \/ disk'["state"].form \in {"ok", "missing"} /\ disk'["state"].mode = "0600"
<1> DEFINE Reaches == \/ disk'["state"] = disk["state"]
                      \/ disk'["state"].form \in {"ok", "missing"} /\ disk'["state"].mode = "0600"
<1>1. TypeOK'
  BY TypeStep DEF Inv
<1>2. Reaches => NeverTorn'
  BY DEF Inv, NeverTorn
<1>3. CASE UNCHANGED vars
  BY <1>3, <1>1 DEF Inv, vars, SoleWriter, NeverTorn, Phase
<1>4. ASSUME NEW p \in Procs, NEW c \in Calls, Begin(p, c), UNCHANGED env
      PROVE  Inv' /\ Reaches
  BY <1>4, BeginInv
<1>5. ASSUME NEW p \in Procs, Step(p) \/ Crash(p) PROVE Inv' /\ Reaches
  <2>1. SoleWriter'
    BY <1>5, SoleWriterStep
  <2>2. CASE pc[p] \in WritingSteps
    <3>1. ASSUME NEW q \in Procs \ {p} PROVE Phase(q)'
      <4>1. pc[q] \notin WritingSteps
        BY <2>2 DEF Inv, Phase, SoleWriter
      <4>2. pc'[q] \notin WritingSteps
        BY <1>5, <4>1, StepIsLocal DEF Inv
      <4> QED
        BY <4>2 DEF Phase, WritingSteps
    <3>2. Phase(p)' /\ Reaches
      BY <1>5, <2>2, WriterStep
    <3> QED
      BY <1>1, <1>2, <2>1, <3>1, <3>2 DEF Inv
  <2>3. CASE pc[p] \notin WritingSteps
    <3>1. Reaches /\ \A q \in Procs : Phase(q)'
      BY <1>5, <2>3, OthersStep DEF Missing, File
    <3> QED
      BY <1>1, <1>2, <2>1, <3>1 DEF Inv
  <2> QED
    BY <2>2, <2>3
<1> QED
  BY <1>3, <1>4, <1>5 DEF Next

LEMMA InvInit == Init => Inv
<1> SUFFICES ASSUME Init PROVE Inv
  OBVIOUS
<1>1. TypeOK
  BY TypeInit
<1>2. NeverTorn
  BY DEF Init, NeverTorn, Names, CleanFiles, OddFiles, Missing, File
<1>3. SoleWriter /\ \A p \in Procs : Phase(p)
  BY DEF Init, SoleWriter, Phase, WritingSteps, NoCall, Writers
<1> QED
  BY <1>1, <1>2, <1>3 DEF Inv

(***************************************************************************)
(* However many invocations read, fail and die, state.json is never torn   *)
(* as long as no two of them write at once.  (The run state_torn shows     *)
(* that the condition is needed.)                                          *)
(***************************************************************************)
THEOREM WholeWithOneWriter ==
  ASSUME OneWriter
  PROVE  Spec => []NeverTorn
<1>1. Init => Inv
  BY InvInit
<1>2. Inv /\ [Next]_vars => Inv'
  BY InvStep
<1>3. Inv => NeverTorn
  BY DEF Inv
<1> QED
  BY <1>1, <1>2, <1>3, PTL DEF Spec

(***************************************************************************)
(* Under the same condition every file that appears as state.json is       *)
(* complete and private at that instant, whatever temporary file, with     *)
(* whatever mode, was left behind by a writer that died.                   *)
(***************************************************************************)
THEOREM PrivateWithOneWriter ==
  ASSUME OneWriter
  PROVE  Spec => PublishedWholeAndPrivate
<1>1. Init => Inv
  BY InvInit
<1>2. Inv /\ [Next]_vars => Inv'
  BY InvStep
<1>3. Inv /\ [Next]_vars =>
        [disk'["state"] # disk["state"] =>
           disk'["state"].form \in {"ok", "missing"} /\ disk'["state"].mode = "0600"]_vars
  BY InvStep
<1> QED
  BY <1>1, <1>2, <1>3, PTL DEF Spec, PublishedWholeAndPrivate

=============================================================================
