--------------------------- MODULE ContractProofs ---------------------------
(***************************************************************************)
(* StateFile implements StoreContract, for every number of processes and   *)
(* every set of failing system calls, in the environments that Sheltered   *)
(* describes; and what follows from that for the stored session.           *)
(***************************************************************************)
EXTENDS StateFileProofs

(* No two writers overlap, and where the file may not parse nobody else is *)
(* there to replace it between a look at it and its removal.               *)
Sheltered ==
  \A e \in Environments :
    /\ ~e.racing
    /\ e.unparsable => \A p, q \in e.users : p = q

Stored == disk["state"].body

(* c makes new of old.                                                     *)
Updates(c, old, new) ==
  /\ c.name = "Save" => new.auth = StoredTokens(c.tokens)
  /\ c.name = "Clear" => new.auth = NoAuth
  /\ c.name \in {"Save", "Clear"} => new.cache = old.cache
  /\ c.name = "SaveSandbox" => new.cache = [old.cache EXCEPT ![c.kind] = c.box]
  /\ c.name = "ClearSandboxes" => new.cache = NoBoxes
  /\ c.name \in {"SaveSandbox", "ClearSandboxes"} => new.auth = old.auth

(* c makes new of what a merge reads.  To read nothing leaves nothing to   *)
(* clear, so that a sandbox clear which publishes has read the file.       *)
Merges(c, new) ==
  \E f \in Current : Updates(c, f, new) /\ (c.name = "ClearSandboxes" => f = Stored)

(***************************************************************************)
(* What p is about to publish is its call's update of what is there now,   *)
(* or of the empty store, and what it is about to remove is what that      *)
(* update leaves nothing of, or of no use.                                 *)
(***************************************************************************)
Prepared == {"open", "write", "chmod", "rename"}

Carried(p) ==
  /\ call[p] # NoCall => p \in env.users
  /\ call[p].name = "Save" /\ call[p].tokens \in Unprintable => env.unparsable
  /\ pc[p] = "stat" => call[p].name \notin {"Save", "SaveSandbox"}
  /\ pc[p] \in Prepared => Merges(call[p], buf[p])
  /\ pc[p] \in {"chmod", "rename"} => disk["tmp"].body = buf[p]
  /\ pc[p] = "remove" => call[p].name \in Writers /\ Merges(call[p], Zero)
  /\ pc[p] = "heal" =>
       call[p].name = "Load" /\ env.unparsable /\ (Stored.auth = BadAuth \/ Stored = Zero)
  /\ ~env.unparsable => buf[p].auth # BadAuth

Clean ==
  ~env.unparsable => disk["state"].form \in {"ok", "missing"} /\ Stored.auth # BadAuth

FullInv == Inv /\ Clean /\ \A p \in Procs : Carried(p)

(* One step of the two registers, or none.                                 *)
Implements == [Contract!Next]_(Contract!vars)

-----------------------------------------------------------------------------
(* The contract's types are those of the file.                             *)
LEMMA SameTypes ==
  /\ Contract!NoCall = NoCall /\ Contract!NoReply = NoReply /\ Contract!Calls = Calls
  /\ Contract!NoBoxes = NoBoxes /\ Contract!Auths = Auths /\ Contract!Caches = Caches
  /\ \A t : Contract!StoredTokens(t) = StoredTokens(t)
  /\ \A c : Contract!Readable(c) = Readable(c)
  BY DEF NoCall, Contract!NoCall, NoReply, Contract!NoReply, Calls, Contract!Calls,
         NoBoxes, Contract!NoBoxes, Auths, Contract!Auths, Caches, Contract!Caches,
         Entries, Contract!Entries, StoredTokens, Contract!StoredTokens,
         Readable, Contract!Readable

LEMMA StoredTyped ==
  ASSUME TypeOK
  PROVE  Stored \in Format /\ Stored.auth \in Auths /\ Stored.cache \in Caches
  BY BodyTyped DEF Stored, Files, Format

LEMMA ZeroParts == Zero.auth = NoAuth /\ Zero.cache = NoBoxes
  BY DEF Zero

(* What a merge may read, and that it stays as long as the file does.      *)
LEMMA MergeReads ==
  ASSUME TypeOK, Clean
  PROVE  /\ Stored \in Current
         /\ \A f \in Current :
              /\ f = Stored \/ f = Zero
              /\ f \in Format /\ (~env.unparsable => f.auth # BadAuth)
<1>1. \A f \in Current : f = Stored \/ f = Zero
  BY DEF Current, Stored
<1>2. Stored \in Format /\ Zero \in Format /\ Stored \in Current
  BY StoredTyped, ZeroTyped DEF Current, Stored
<1> QED
  BY <1>1, <1>2, ZeroParts, DistinctValues DEF Clean

LEMMA MergesStay ==
  ASSUME UNCHANGED <<env, Stored>>
  PROVE  UNCHANGED Current
  BY DEF Current, Stored, Faulty

LEMMA Replies ==
  ASSUME NEW p \in Procs, NEW tag, NEW val, Finish(p, tag, val)
  PROVE  Contract!Reply(p, tag, val)
  BY SameTypes DEF Finish, Contract!Reply

(* A write that takes effect.                                              *)
LEMMA TakesEffect ==
  ASSUME TypeOK, NEW p \in Procs, call[p].name \in Writers, UNCHANGED env,
         Merges(call[p], Stored'), Finish(p, "ok", NoAuth)
  PROVE  Contract!Next
<1>1. Contract!Reply(p, "ok", NoAuth) /\ UNCHANGED Faulty("merge")
  BY Replies DEF Faulty
<1>2. PICK f \in Current : /\ Updates(call[p], f, Stored')
                           /\ call[p].name = "ClearSandboxes" => f = Stored
  BY DEF Merges
<1>3. [auth |-> f.auth, cache |-> f.cache] \in Contract!Bases
  BY <1>2, ZeroParts, SameTypes DEF Current, Contract!Bases, Stored
<1>4. CASE call[p].name = "Save"
  <2>1. Contract!Save(p)
    BY <1>1, <1>2, <1>3, <1>4, SameTypes DEF Updates, Contract!Save, Stored
  <2> QED
    BY <1>1, <2>1 DEF Contract!Next
<1>5. CASE call[p].name = "Clear"
  <2>1. Contract!Clear(p)
    BY <1>1, <1>2, <1>3, <1>5, SameTypes DEF Updates, Contract!Clear, Stored
  <2> QED
    BY <1>1, <2>1 DEF Contract!Next
<1>6. CASE call[p].name = "SaveSandbox"
  <2>1. Contract!SaveSandbox(p)
    BY <1>1, <1>2, <1>3, <1>6, SameTypes DEF Updates, Contract!SaveSandbox, Stored
  <2> QED
    BY <1>1, <2>1 DEF Contract!Next
<1>7. CASE call[p].name = "ClearSandboxes"
  <2>1. Contract!ClearSandboxes(p)
    BY <1>1, <1>2, <1>7, SameTypes DEF Updates, Contract!ClearSandboxes, Stored
  <2> QED
    BY <1>1, <2>1 DEF Contract!Next
<1> QED
  BY <1>4, <1>5, <1>6, <1>7 DEF Writers

(* An error, or death, has had no effect.                                  *)
LEMMA GivesUp ==
  ASSUME NEW p \in Procs, call[p] # NoCall, UNCHANGED <<env, Stored>>,
         Finish(p, "error", NoAuth) \/ Finish(p, "crashed", NoAuth)
  PROVE  Contract!Next
<1>1. Contract!Fail(p) \/ Contract!Die(p)
  BY Replies, SameTypes DEF Contract!Fail, Contract!Die, Stored
<1> QED
  BY <1>1 DEF Contract!Next, Faulty

(* A call that has ended carries nothing.                                  *)
LEMMA EndCarries ==
  ASSUME TypeOK, NEW p \in Procs, NEW tag, NEW val, Finish(p, tag, val)
  PROVE  Carried(p)'
<1>1. pc'[p] = "idle" /\ call'[p] = NoCall /\ buf'[p] = Zero
  BY DEF Finish, Goto, TypeOK
<1>2. Zero.auth # BadAuth
  BY ZeroParts, DistinctValues
<1> QED
  BY <1>1, <1>2 DEF Carried, Prepared, NoCall
-----------------------------------------------------------------------------
(* What the step of p does for p itself and for the file.                  *)
Faithful(p) == Implements /\ Carried(p)' /\ Clean'

LEMMA EnvTyped ==
  ASSUME Sheltered, TypeOK
  PROVE  /\ ~env.racing /\ env.unparsable \in BOOLEAN
         /\ env.unparsable => \A p, q \in env.users : p = q
  BY EnvironmentAssumption DEF Sheltered, TypeOK

(* A step that only moves p's program counter.                             *)
LEMMA StutterSteps ==
  ASSUME UNCHANGED <<env, Stored, call, res>>
  PROVE  Implements
  BY DEF Implements, Contract!vars, Stored, Faulty

LEMMA CleanStays ==
  ASSUME Clean, UNCHANGED <<disk, env>>
  PROVE  Clean'
  BY DEF Clean, Stored

(* Ends without effect.                                                    *)
LEMMA FailsFaithfully ==
  ASSUME FullInv, NEW p \in Procs, call[p] # NoCall, UNCHANGED <<env, Stored>>,
         Fail(p) \/ Finish(p, "error", NoAuth) \/ Return(p, "crashed", NoAuth)
  PROVE  Implements /\ Carried(p)'
<1>1. Finish(p, "error", NoAuth) \/ Finish(p, "crashed", NoAuth)
  BY DEF Fail, Return
<1>2. Carried(p)'
  BY <1>1, EndCarries DEF FullInv, Inv
<1> QED
  BY <1>1, <1>2, GivesUp DEF Implements

(* What the lookups return is what the registers hold.                     *)
LEMMA Answers ==
  ASSUME FullInv, NEW p \in Procs, call[p] # NoCall, UNCHANGED <<env, disk>>,
         NEW tag, NEW val, Return(p, tag, val),
         \/ /\ call[p].name = "Load"
            /\ IF Stored.auth \in Tokens THEN tag = "hit" /\ val = Stored.auth
                                         ELSE tag = "miss" /\ val = NoAuth
         \/ /\ call[p].name = "LoadSandbox"
            /\ IF Stored.cache[call[p].kind] \in Boxes
               THEN tag = "hit" /\ val = Stored.cache[call[p].kind]
               ELSE tag = "miss" /\ val = NoAuth
         \/ call[p].name = "LoadAllSandboxes" /\ tag = "hit" /\ val = Readable(Stored.cache)
  PROVE  Faithful(p)
<1>1. Contract!Reply(p, tag, val)
  BY Replies DEF Return
<1>2. Contract!Load(p) \/ Contract!LoadSandbox(p) \/ Contract!LoadAllSandboxes(p)
  BY <1>1, SameTypes DEF Contract!Load, Contract!LoadSandbox, Contract!LoadAllSandboxes, Stored
<1>3. Carried(p)'
  BY EndCarries DEF FullInv, Inv, Return
<1>4. Clean'
  BY CleanStays DEF FullInv
<1>5. Contract!Next
  BY <1>2 DEF Contract!Next, Faulty
<1> QED
  BY <1>3, <1>4, <1>5 DEF Faithful, Implements
-----------------------------------------------------------------------------
(* The steps that look the file up and leave it as it is.                  *)
LEMMA LooksFaithfully ==
  ASSUME FullInv, NEW p \in Procs, UNCHANGED env,
         \/ StatForRead(p) \/ StatForClear(p) \/ ReadFails(p)
         \/ ReadTokens(p) \/ ReadSandbox(p) \/ ReadSandboxes(p)
  PROVE  Faithful(p)
<1>1. TypeOK /\ Clean /\ Carried(p)
  BY DEF FullInv, Inv
<1>2. /\ UNCHANGED disk /\ call[p] # NoCall /\ call[p] \in Calls
      /\ pc[p] \in {"stat", "read"}
  BY <1>1, CallTyped
  DEF StatForRead, StatForClear, ReadFails, ReadTokens, ReadSandbox, ReadSandboxes, TypeOK
<1>3. Clean' /\ UNCHANGED Stored
  BY <1>1, <1>2, CleanStays DEF Stored
<1>4. ASSUME NEW step \in {"read", "heal"}, Goto(p, step), UNCHANGED <<call, buf, fd, res>>,
             step = "heal" =>
               call[p].name = "Load" /\ env.unparsable /\ (Stored.auth = BadAuth \/ Stored = Zero)
      PROVE  Faithful(p)
  <2>1. pc'[p] = step
    BY <1>1, <1>4 DEF Goto, TypeOK
  <2>2. Carried(p)'
    BY <1>1, <1>2, <1>3, <1>4, <2>1 DEF Carried, Prepared
  <2> QED
    BY <1>3, <1>4, <2>2, StutterSteps DEF Faithful
<1>5. ASSUME Fail(p) PROVE Faithful(p)
  BY <1>2, <1>3, <1>5, FailsFaithfully DEF Faithful
<1>6. ~Exists("state") => Stored = Zero /\ Stored.auth = NoAuth /\ Stored.cache = NoBoxes
  BY <1>1, ZeroParts DEF TypeOK, Exists, Stored, Names
<1>7. CASE StatForRead(p)
  <2>1. CASE ~Exists("state") /\ call[p].name = "LoadAllSandboxes"
    <3>1. Readable(Stored.cache) = NoBoxes
      BY <1>6, <2>1 DEF Readable, NoBoxes
    <3>2. Return(p, "hit", NoBoxes) \/ Fail(p)
      BY <1>7, <2>1 DEF StatForRead
    <3> QED
      BY <1>2, <1>5, <2>1, <3>1, <3>2, Answers
  <2>2. CASE ~Exists("state") /\ call[p].name # "LoadAllSandboxes"
    <3>1. call[p].name \in {"Load", "LoadSandbox"}
      BY <1>2, <1>7, <2>2 DEF StatForRead, Calls, Writers
    <3>2. Stored.auth \notin Tokens
      BY <1>6, <2>2, DistinctValues
    <3>3. call[p].name = "LoadSandbox" => Stored.cache[call[p].kind] \notin Boxes
      BY <1>1, <1>2, <1>6, <2>2, CallTyped, DistinctValues DEF NoBoxes
    <3>4. Return(p, "miss", NoAuth) \/ Fail(p)
      BY <1>7, <2>2 DEF StatForRead, Miss
    <3> QED
      BY <1>2, <1>5, <3>1, <3>2, <3>3, <3>4, Answers
  <2>3. CASE Exists("state")
    BY <1>4, <1>5, <1>7, <2>3 DEF StatForRead
  <2> QED
    BY <2>1, <2>2, <2>3
<1>8. CASE StatForClear(p)
  <2>1. CASE ~Exists("state") /\ Ok(p)
    <3>1. call[p].name \in {"Clear", "ClearSandboxes"} /\ Finish(p, "ok", NoAuth)
      BY <1>1, <1>8, <2>1 DEF StatForClear, Writers, Carried, Ok, Return
    <3>2. Updates(call[p], Stored, Stored')
      BY <1>3, <1>6, <2>1, <3>1 DEF Updates
    <3>3. Contract!Next
      BY <1>1, <3>1, <3>2, MergeReads, TakesEffect DEF Writers, Merges
    <3> QED
      BY <1>1, <1>3, <3>1, <3>3, EndCarries DEF Faithful, Implements
  <2>2. CASE ~(~Exists("state") /\ Ok(p))
    BY <1>4, <1>8, <2>2 DEF StatForClear
  <2> QED
    BY <2>1, <2>2
<1>9. CASE ReadFails(p)
  BY <1>5, <1>9 DEF ReadFails
<1>10. CASE ReadTokens(p)
  <2>1. CASE disk["state"].form # "ok" \/ Stored.auth = BadAuth
    <3>1. Goto(p, "heal") /\ UNCHANGED <<call, buf, fd, res>> /\ call[p].name = "Load"
      BY <1>10, <2>1 DEF ReadTokens, Stored
    <3>2. Stored.auth = BadAuth \/ Stored = Zero
      BY <1>1, <2>1 DEF TypeOK, Names, Stored
    <3>3. env.unparsable
      BY <1>1, <1>10, <2>1 DEF Clean, ReadTokens, Exists
    <3> QED
      BY <1>4, <3>1, <3>2, <3>3
  <2>2. CASE ~(disk["state"].form # "ok" \/ Stored.auth = BadAuth)
    <3>1. call[p].name = "Load" /\ Lookup(p, Tokens, Stored.auth)
      BY <1>10, <2>2 DEF ReadTokens, Stored
    <3> QED
      BY <1>2, <3>1, Answers DEF Lookup, Miss
  <2> QED
    BY <2>1, <2>2
<1>11. CASE ReadSandbox(p)
  <2>1. call[p].name = "LoadSandbox" /\ Lookup(p, Boxes, Stored.cache[call[p].kind])
    BY <1>11 DEF ReadSandbox, Stored
  <2> QED
    BY <1>2, <2>1, Answers DEF Lookup, Miss
<1>12. CASE ReadSandboxes(p)
  BY <1>2, <1>12, Answers DEF ReadSandboxes, Stored
<1> QED
  BY <1>7, <1>8, <1>9, <1>10, <1>11, <1>12

(* readCurrent and the merges: what is built is the update of what is      *)
(* there, and a file is removed only when nothing would be left in it.     *)
LEMMA MergesFaithfully ==
  ASSUME FullInv, NEW p \in Procs, UNCHANGED env,
         MergeTokens(p) \/ MergeSandbox(p) \/ MergeClear(p) \/ MergeClearSandboxes(p)
  PROVE  Faithful(p)
<1>1. TypeOK /\ Clean /\ Carried(p)
  BY DEF FullInv, Inv
<1>2. /\ UNCHANGED disk /\ pc[p] = "read" /\ call[p] # NoCall
      /\ call[p].name \in Writers
  BY <1>1 DEF MergeTokens, MergeSandbox, MergeClear, MergeClearSandboxes, TypeOK, Writers
<1>3. Clean' /\ UNCHANGED Stored /\ Stored \in Format
  BY <1>1, <1>2, CleanStays, StoredTyped DEF Stored
<1>4. UNCHANGED Current
  BY <1>3, MergesStay
<1>5. ASSUME NEW body, Publish(p, body), Merges(call[p], body),
             ~env.unparsable => body.auth # BadAuth
      PROVE  Faithful(p)
  <2>1. pc'[p] = "open" /\ buf'[p] = body /\ UNCHANGED <<call, res>>
    BY <1>1, <1>5 DEF Publish, Goto, TypeOK
  <2>2. Carried(p)'
    BY <1>1, <1>2, <1>3, <1>4, <1>5, <2>1 DEF Carried, Prepared, Merges
  <2> QED
    BY <1>3, <2>1, <2>2, StutterSteps DEF Faithful
<1>6. ASSUME Goto(p, "remove"), UNCHANGED <<call, buf, fd, res>>,
             Merges(call[p], Zero)
      PROVE  Faithful(p)
  <2>1. pc'[p] = "remove"
    BY <1>1, <1>6 DEF Goto, TypeOK
  <2>2. Carried(p)'
    BY <1>1, <1>2, <1>3, <1>4, <1>6, <2>1 DEF Carried, Prepared, Merges
  <2> QED
    BY <1>3, <1>6, <2>2, StutterSteps DEF Faithful
<1>7. CASE MergeTokens(p)
  <2>1. PICK f \in Current :
          Publish(p, [f EXCEPT !.auth = StoredTokens(call[p].tokens)]) /\ call[p].name = "Save"
    BY <1>7 DEF MergeTokens
  <2> DEFINE body == [f EXCEPT !.auth = StoredTokens(call[p].tokens)]
  <2>2. body.auth = StoredTokens(call[p].tokens) /\ body.cache = f.cache
    BY <1>1, MergeReads DEF Format
  <2>3. Merges(call[p], body)
    BY <2>1, <2>2 DEF Updates, Merges
  <2>4. ~env.unparsable => body.auth # BadAuth
    BY <1>1, <1>2, <2>1, <2>2, CallTyped, DistinctValues DEF Carried, StoredTokens
  <2> QED
    BY <1>5, <2>1, <2>3, <2>4
<1>8. CASE MergeSandbox(p)
  <2>1. PICK f \in Current :
          /\ Publish(p, [f EXCEPT !.cache[call[p].kind] = call[p].box])
          /\ call[p].name = "SaveSandbox"
    BY <1>8 DEF MergeSandbox
  <2> DEFINE body == [f EXCEPT !.cache[call[p].kind] = call[p].box]
  <2>2. /\ body.auth = f.auth
        /\ body.cache = [f.cache EXCEPT ![call[p].kind] = call[p].box]
    BY <1>1, MergeReads DEF Format
  <2>3. Merges(call[p], body)
    BY <2>1, <2>2 DEF Updates, Merges
  <2>4. ~env.unparsable => body.auth # BadAuth
    BY <1>1, <2>2, MergeReads
  <2> QED
    BY <1>5, <2>1, <2>3, <2>4
<1>9. CASE MergeClear(p)
  <2>1. PICK f \in Current :
          IF f.cache = NoBoxes THEN Goto(p, "remove") /\ UNCHANGED <<call, buf, fd, res>>
                               ELSE Publish(p, [f EXCEPT !.auth = NoAuth])
    BY <1>9 DEF MergeClear
  <2> DEFINE body == [f EXCEPT !.auth = NoAuth]
  <2>2. call[p].name = "Clear"
    BY <1>9 DEF MergeClear
  <2>3. body.auth = NoAuth /\ body.cache = f.cache
    BY <1>1, MergeReads DEF Format
  <2>4. CASE f.cache = NoBoxes
    BY <1>6, <2>1, <2>2, <2>4, ZeroParts DEF Updates, Merges
  <2>5. CASE f.cache # NoBoxes
    <3>1. Merges(call[p], body)
      BY <2>2, <2>3 DEF Updates, Merges
    <3> QED
      BY <1>5, <2>1, <2>3, <2>5, <3>1, DistinctValues
  <2> QED
    BY <2>4, <2>5
<1>10. CASE MergeClearSandboxes(p)
  <2>1. call[p].name = "ClearSandboxes"
    BY <1>10 DEF MergeClearSandboxes
  <2>2. PICK f \in Current :
          \/ f.cache = NoBoxes /\ Ok(p)
          \/ /\ f.cache # NoBoxes /\ f.auth = NoAuth
             /\ Goto(p, "remove") /\ UNCHANGED <<call, buf, fd, res>>
          \/ f.cache # NoBoxes /\ Publish(p, [f EXCEPT !.cache = NoBoxes])
    BY <1>10 DEF MergeClearSandboxes
  <2> DEFINE body == [f EXCEPT !.cache = NoBoxes]
  <2>3. f.cache # NoBoxes => f = Stored
    BY <1>1, MergeReads, ZeroParts
  <2>4. CASE f.cache = NoBoxes /\ Ok(p)
    <3>1. Finish(p, "ok", NoAuth) /\ (Stored.cache = NoBoxes \/ Faulty("merge"))
      BY <1>3, <2>4 DEF Ok, Return, Current, Stored
    <3>2. Contract!ClearSandboxes(p)
      BY <1>3, <2>1, <2>4, <3>1, Replies, SameTypes DEF Contract!ClearSandboxes, Stored, Ok, Return
    <3>3. Contract!Next
      BY <3>2 DEF Contract!Next, Faulty
    <3> QED
      BY <1>1, <1>3, <2>4, <3>3, EndCarries DEF Faithful, Implements, Ok, Return
  <2>5. CASE Goto(p, "remove") /\ UNCHANGED <<call, buf, fd, res>> /\ f.cache # NoBoxes /\ f.auth = NoAuth
    BY <1>6, <2>1, <2>3, <2>5, ZeroParts DEF Updates, Merges
  <2>6. CASE f.cache # NoBoxes /\ Publish(p, body)
    <3>1. body.auth = f.auth /\ body.cache = NoBoxes
      BY <1>1, MergeReads DEF Format
    <3>2. Merges(call[p], body)
      BY <2>1, <2>3, <2>6, <3>1 DEF Updates, Merges
    <3>3. ~env.unparsable => body.auth # BadAuth
      BY <1>1, <3>1, MergeReads
    <3> QED
      BY <1>5, <2>6, <3>2, <3>3
  <2> QED
    BY <2>2, <2>4, <2>5, <2>6
<1> QED
  BY <1>7, <1>8, <1>9, <1>10
-----------------------------------------------------------------------------
(* writeAtomic up to the rename works on the temporary file alone.         *)
LEMMA WritesFaithfully ==
  ASSUME FullInv, NEW p \in Procs, UNCHANGED env,
         \/ OpenTmp(p) \/ WriteTmp(p) \/ WriteFails(p) \/ ChmodTmp(p)
         \/ RenameFails(p) \/ CleanupTmp(p)
  PROVE  Faithful(p)
<1>1. TypeOK /\ Clean /\ Carried(p) /\ Phase(p)
  BY DEF FullInv, Inv
<1>2. call[p] # NoCall /\ pc[p] \in WritingSteps
  BY <1>1
  DEF OpenTmp, WriteTmp, WriteFails, ChmodTmp, RenameFails, CleanupTmp, TypeOK, WritingSteps
<1>3. disk \in [Names -> Files] /\ "tmp" \in Names /\ "state" \in Names
  BY <1>1 DEF TypeOK, Names
<1>4. ASSUME disk'["state"] = disk["state"]
      PROVE  Clean' /\ UNCHANGED Stored
  BY <1>1, <1>4 DEF Clean, Stored
<1>5. ASSUME disk'["state"] = disk["state"], Fail(p) \/ Finish(p, "error", NoAuth)
      PROVE  Faithful(p)
  BY <1>2, <1>4, <1>5, FailsFaithfully DEF Faithful
<1>6. ASSUME disk'["state"] = disk["state"], UNCHANGED <<call, buf, res>>,
             NEW step \in {"write", "chmod", "rename", "cleanup"}, Goto(p, step),
             step \in Prepared => pc[p] \in Prepared,
             step \in {"chmod", "rename"} => disk'["tmp"].body = buf[p]
      PROVE  Faithful(p)
  <2>1. pc'[p] = step
    BY <1>1, <1>6 DEF Goto, TypeOK
  <2>2. Carried(p)'
    BY <1>1, <1>4, <1>6, <2>1, MergesStay DEF Carried, Prepared, Merges
  <2> QED
    BY <1>4, <1>6, <2>2, StutterSteps DEF Faithful
<1>7. CASE OpenTmp(p)
  BY <1>3, <1>5, <1>6, <1>7 DEF OpenTmp, Prepared
<1>8. CASE WriteTmp(p)
  <2>1. /\ disk' = [disk EXCEPT !["tmp"] = File("ok", buf[p], disk["tmp"].mode)]
        /\ Goto(p, "chmod") /\ UNCHANGED <<call, buf, res>> /\ pc[p] = "write"
    BY <1>1, <1>3, <1>8 DEF WriteTmp, Phase
  <2>2. disk'["state"] = disk["state"] /\ disk'["tmp"].body = buf[p]
    BY <1>3, <2>1 DEF File
  <2> QED
    BY <1>6, <2>1, <2>2 DEF Prepared
<1>9. CASE WriteFails(p)
  <2>1. disk'["state"] = disk["state"] /\ Fail(p)
    BY <1>1, <1>3, <1>9 DEF WriteFails, Phase
  <2> QED
    BY <1>5, <2>1
<1>10. CASE ChmodTmp(p)
  <2>1. /\ disk'["state"] = disk["state"] /\ disk'["tmp"].body = disk["tmp"].body
        /\ UNCHANGED <<call, buf, res>> /\ pc[p] = "chmod"
        /\ \E step \in {"rename", "cleanup"} : Goto(p, step)
    BY <1>3, <1>10 DEF ChmodTmp, Files
  <2>2. disk["tmp"].body = buf[p]
    BY <1>1, <2>1 DEF Carried
  <2> QED
    BY <1>6, <2>1, <2>2 DEF Prepared
<1>11. CASE RenameFails(p)
  BY <1>6, <1>11 DEF RenameFails, Prepared
<1>12. CASE CleanupTmp(p)
  <2>1. disk'["state"] = disk["state"]
    BY <1>3, <1>12 DEF CleanupTmp, Unlink
  <2> QED
    BY <1>5, <1>12, <2>1 DEF CleanupTmp
<1> QED
  BY <1>7, <1>8, <1>9, <1>10, <1>11, <1>12

(* The steps that change state.json are those at which a call takes        *)
(* effect, and a Load's removal of what it cannot use.                     *)
LEMMA ReplacesFaithfully ==
  ASSUME FullInv, NEW p \in Procs, UNCHANGED env,
         RenameTmp(p) \/ RemoveState(p) \/ Heal(p)
  PROVE  Faithful(p)
<1>1. TypeOK /\ Clean /\ Carried(p) /\ Phase(p)
  BY DEF FullInv, Inv
<1>2. disk \in [Names -> Files] /\ "tmp" \in Names /\ "state" \in Names
  BY <1>1 DEF TypeOK, Names
<1>3. ASSUME NEW tag, NEW val, Finish(p, tag, val) PROVE Carried(p)'
  BY <1>1, <1>3, EndCarries
<1>4. ASSUME Unlink("state")
      PROVE  Stored' = Zero /\ Clean'
  BY <1>2, <1>4, ZeroParts, DistinctValues DEF Unlink, Missing, File, Stored, Clean
<1>5. ASSUME UNCHANGED disk PROVE UNCHANGED Stored /\ Clean'
  BY <1>1, <1>5, CleanStays DEF Stored
<1>6. CASE RenameTmp(p)
  <2>1. disk'["state"] = disk["tmp"] /\ Finish(p, "ok", NoAuth) /\ pc[p] = "rename"
    BY <1>2, <1>6 DEF RenameTmp
  <2>2. /\ disk["tmp"].body = buf[p] /\ disk["tmp"].form = "ok"
        /\ call[p].name \in Writers /\ Merges(call[p], buf[p])
        /\ ~env.unparsable => buf[p].auth # BadAuth
    BY <1>1, <2>1 DEF Carried, Phase, Prepared, WritingSteps
  <2>3. Stored' = buf[p] /\ Clean'
    BY <2>1, <2>2 DEF Stored, Clean
  <2>4. Contract!Next
    BY <1>1, <2>1, <2>2, <2>3, TakesEffect
  <2> QED
    BY <1>3, <2>1, <2>3, <2>4 DEF Faithful, Implements
<1>7. CASE RemoveState(p)
  <2>1. /\ pc[p] = "remove" /\ call[p] # NoCall
        /\ call[p].name \in Writers /\ Merges(call[p], Zero)
    BY <1>1, <1>7 DEF RemoveState, Carried, TypeOK
  <2>2. CASE Unlink("state") /\ Finish(p, "ok", NoAuth)
    <3>1. Contract!Next
      BY <1>1, <1>4, <2>1, <2>2, TakesEffect
    <3> QED
      BY <1>3, <1>4, <2>2, <3>1 DEF Faithful, Implements
  <2>3. CASE Fail(p) /\ UNCHANGED disk
    BY <1>5, <2>1, <2>3, FailsFaithfully DEF Faithful
  <2> QED
    BY <1>7, <2>2, <2>3 DEF RemoveState
<1>8. CASE Heal(p)
  <2>1. /\ call[p].name = "Load" /\ call[p] # NoCall
        /\ Stored.auth = BadAuth \/ Stored = Zero
    BY <1>1, <1>8 DEF Heal, Carried, TypeOK
  <2>2. Finish(p, "miss", NoAuth) /\ Stored.auth \notin Tokens
    BY <1>8, <2>1, ZeroParts, DistinctValues DEF Heal, Miss, Return
  <2>3. Contract!Reply(p, "miss", NoAuth)
    BY <2>2, Replies
  <2>4. \/ UNCHANGED Stored
        \/ Stored.auth = BadAuth /\ Stored' = Zero
    BY <1>4, <1>5, <1>8, <2>1 DEF Heal
  <2>5. Contract!Load(p)
    BY <2>1, <2>2, <2>3, <2>4, ZeroParts, SameTypes DEF Contract!Load, Stored
  <2>6. Contract!Next
    BY <2>5 DEF Contract!Next, Faulty
  <2>7. Clean'
    BY <1>4, <1>5, <1>8 DEF Heal
  <2> QED
    BY <1>3, <2>2, <2>6, <2>7 DEF Faithful, Implements
<1> QED
  BY <1>6, <1>7, <1>8

LEMMA CrashesFaithfully ==
  ASSUME FullInv, NEW p \in Procs, UNCHANGED env, Crash(p)
  PROVE  Faithful(p)
<1>1. /\ call[p] # NoCall /\ Return(p, "crashed", NoAuth)
      /\ UNCHANGED <<disk, Stored>> /\ Clean
  BY DEF Crash, Stored, FullInv
<1> QED
  BY <1>1, CleanStays, FailsFaithfully DEF Faithful

LEMMA BeginsFaithfully ==
  ASSUME FullInv, NEW p \in Procs, UNCHANGED env, NEW c \in Calls, Begin(p, c)
  PROVE  Faithful(p)
<1>1. TypeOK /\ Clean /\ Carried(p)
  BY DEF FullInv, Inv
<1>2. /\ call[p] = NoCall /\ call' = [call EXCEPT ![p] = c]
      /\ res' = [res EXCEPT ![p] = NoReply] /\ UNCHANGED <<disk, buf, Stored>>
      /\ p \in env.users
      /\ c.name = "Save" /\ c.tokens \in Unprintable => env.unparsable
  BY DEF Begin, MayBegin, Stored
<1>3. /\ pc'[p] = IF c.name \in {"Save", "SaveSandbox"} THEN "read" ELSE "stat"
      /\ call'[p] = c
  BY <1>1, <1>2 DEF Begin, Goto, TypeOK
<1>4. Contract!Next
  BY <1>2, SameTypes DEF Contract!Next, Contract!Invoke, Stored, Faulty
<1>5. Carried(p)'
  BY <1>1, <1>2, <1>3 DEF Carried, Prepared
<1> QED
  BY <1>1, <1>2, <1>4, <1>5, CleanStays DEF Faithful, Implements
-----------------------------------------------------------------------------
(* What p has built is its own, and who is neither writing nor removing    *)
(* leaves the disk alone.                                                  *)
LEMMA BufIsLocal ==
  ASSUME TypeOK, NEW p \in Procs, Step(p) \/ Crash(p), NEW q \in Procs \ {p}
  PROVE  buf'[q] = buf[q]
<1> DEFINE Own == buf'[q] = buf[q]
<1> USE DEF TypeOK
<1>1. ASSUME \/ Ok(p) \/ Fail(p) \/ Miss(p)
             \/ \E tag, val : Return(p, tag, val) \/ Finish(p, tag, val)
      PROVE  Own
  BY <1>1 DEF Ok, Fail, Miss, Return, Finish
<1>2. CASE StatForRead(p) \/ StatForClear(p) \/ ReadFails(p)
  BY <1>1, <1>2 DEF StatForRead, StatForClear, ReadFails
<1>3. CASE ReadTokens(p) \/ ReadSandbox(p) \/ ReadSandboxes(p)
  BY <1>1, <1>3 DEF ReadTokens, ReadSandbox, ReadSandboxes, Lookup
<1>4. CASE MergeTokens(p) \/ MergeSandbox(p) \/ MergeClear(p) \/ MergeClearSandboxes(p)
  BY <1>1, <1>4 DEF MergeTokens, MergeSandbox, MergeClear, MergeClearSandboxes, Publish
<1>5. CASE OpenTmp(p) \/ WriteTmp(p) \/ WriteFails(p) \/ ChmodTmp(p)
  BY <1>1, <1>5 DEF OpenTmp, WriteTmp, WriteFails, ChmodTmp
<1>6. CASE RenameTmp(p) \/ RenameFails(p) \/ CleanupTmp(p)
  BY <1>1, <1>6 DEF RenameTmp, RenameFails, CleanupTmp
<1>7. CASE Heal(p) \/ RemoveState(p) \/ Crash(p)
  BY <1>1, <1>7 DEF Heal, RemoveState, Crash
<1> QED
  BY <1>2, <1>3, <1>4, <1>5, <1>6, <1>7 DEF Step

LEMMA ReadersLeaveDisk ==
  ASSUME NEW p \in Procs, Step(p) \/ Crash(p),
         pc[p] \notin WritingSteps \cup {"remove", "heal"}
  PROVE  UNCHANGED disk
  BY DEF Step, Crash, WritingSteps, StatForRead, StatForClear, ReadFails, ReadTokens,
         ReadSandbox, ReadSandboxes, MergeTokens, MergeSandbox, MergeClear,
         MergeClearSandboxes, OpenTmp, WriteTmp, WriteFails, ChmodTmp, RenameTmp, RenameFails,
         CleanupTmp, Heal, RemoveState

(* A step of p leaves what q carries, since beside a writer there are only *)
(* readers of a file that parses, and nobody beside one that may not.      *)
LEMMA OthersCarry ==
  ASSUME Sheltered, FullInv, UNCHANGED env, NEW p \in Procs, Step(p) \/ Crash(p),
         NEW q \in Procs \ {p}
  PROVE  Carried(q)'
<1>1. TypeOK /\ SoleWriter /\ Carried(p) /\ Carried(q) /\ Phase(p) /\ Phase(q)
  BY DEF FullInv, Inv
<1>2. pc'[q] = pc[q] /\ call'[q] = call[q] /\ buf'[q] = buf[q]
  BY <1>1, StepIsLocal, BufIsLocal
<1>3. call[p] # NoCall
  BY <1>1
  DEF Step, Crash, StatForRead, StatForClear, ReadFails, ReadTokens,
      ReadSandbox, ReadSandboxes, MergeTokens, MergeSandbox, MergeClear,
      MergeClearSandboxes, OpenTmp, WriteTmp, WriteFails, ChmodTmp, RenameTmp, RenameFails,
      CleanupTmp, Heal, RemoveState, TypeOK
<1>4. CASE env.unparsable
  <2>1. call[q] = NoCall
    BY <1>1, <1>3, <1>4, EnvTyped DEF Carried
  <2>2. pc[q] = "idle"
    BY <1>1, <2>1 DEF TypeOK
  <2> QED
    BY <1>2, <1>4, <2>1, <2>2 DEF Carried, Prepared, NoCall
<1>5. CASE ~env.unparsable
  <2>1. CASE pc[q] \in Prepared \cup {"remove"}
    <3>1. call[q].name \in Writers
      BY <1>1, <2>1 DEF Carried, Phase, Prepared, WritingSteps
    <3>2. pc[p] \notin WritingSteps \cup {"remove", "heal"}
      BY <1>1, <1>5, <3>1 DEF SoleWriter, Carried, Phase
    <3>3. UNCHANGED <<disk, Stored>>
      BY <3>2, ReadersLeaveDisk DEF Stored
    <3> QED
      BY <1>1, <1>2, <3>3, MergesStay DEF Carried, Merges
  <2>2. CASE pc[q] \notin Prepared \cup {"remove"}
    BY <1>1, <1>2, <1>5, <2>2 DEF Carried, Prepared
  <2> QED
    BY <2>1, <2>2
<1> QED
  BY <1>4, <1>5

(* Beginning a call disturbs nobody.                                       *)
LEMMA OthersCarryOn ==
  ASSUME FullInv, UNCHANGED env, NEW p \in Procs, NEW c \in Calls, Begin(p, c),
         NEW q \in Procs \ {p}
  PROVE  Carried(q)'
<1>1. /\ pc'[q] = pc[q] /\ call'[q] = call[q]
      /\ UNCHANGED <<disk, buf, Stored>> /\ Carried(q)
  BY DEF Begin, Goto, FullInv, Inv, TypeOK, Stored
<1> QED
  BY <1>1, MergesStay DEF Carried, Merges

(* Every step keeps the invariant and is one of the two registers'.        *)
LEMMA FullStep ==
  ASSUME Sheltered, FullInv, [Next]_vars
  PROVE  FullInv' /\ Implements
<1>1. OneWriter
  BY DEF OneWriter, Sheltered
<1>2. Inv'
  BY <1>1, InvStep DEF FullInv
<1>3. CASE UNCHANGED vars
  <2>1. UNCHANGED <<disk, pc, call, buf, fd, res, env, Stored>>
    BY <1>3 DEF vars, Stored
  <2>2. \A p \in Procs : Carried(p)'
    BY <2>1, MergesStay DEF FullInv, Carried, Merges
  <2> QED
    BY <1>2, <2>1, <2>2, CleanStays, StutterSteps DEF FullInv
<1>4. ASSUME NEW p \in Procs, NEW c \in Calls, Begin(p, c), UNCHANGED env
      PROVE  FullInv' /\ Implements
  BY <1>2, <1>4, BeginsFaithfully, OthersCarryOn DEF FullInv, Faithful
<1>5. ASSUME NEW p \in Procs, Step(p) \/ Crash(p), UNCHANGED env
      PROVE  FullInv' /\ Implements
  <2>1. Faithful(p)
    BY <1>5, LooksFaithfully, MergesFaithfully, WritesFaithfully, ReplacesFaithfully,
       CrashesFaithfully
    DEF Step
  <2>2. \A q \in Procs \ {p} : Carried(q)'
    BY <1>5, OthersCarry
  <2> QED
    BY <1>2, <2>1, <2>2 DEF FullInv, Faithful
<1> QED
  BY <1>3, <1>4, <1>5 DEF Next

LEMMA FullInit == Init => FullInv /\ Contract!Init
<1> SUFFICES ASSUME Init PROVE FullInv /\ Contract!Init
  OBVIOUS
<1>1. Inv /\ TypeOK
  BY InvInit DEF Inv
<1>2. \A p \in Procs : Carried(p)
  BY ZeroParts, DistinctValues DEF Init, Carried, Prepared, NoCall
<1>3. Clean
  <2>1. \A file \in CleanFiles : file.form = "ok" /\ file.body.auth # BadAuth
    BY DEF CleanFiles, CleanBodies
  <2>2. Missing.form = "missing" /\ Missing.body.auth # BadAuth
    BY ZeroParts, DistinctValues DEF Missing, File
  <2> QED
    BY <2>1, <2>2 DEF Init, Clean, Stored, Names
<1>4. Contract!Init
  <2>1. Stored.auth \in Auths /\ Stored.cache \in Caches
    BY <1>1, StoredTyped
  <2> QED
    BY <2>1, SameTypes DEF Init, Contract!Init, Stored, Faulty
<1> QED
  BY <1>1, <1>2, <1>3, <1>4 DEF FullInv

(***************************************************************************)
(* The file implements the two registers that the ports promise, wherever  *)
(* it is sheltered: a call takes effect at one system call, entirely or    *)
(* not at all, and one that returns an error has changed nothing, whatever *)
(* fails and whoever dies; on its own section only, save that a merge      *)
(* which could not read the file costs the other section as a whole.       *)
(***************************************************************************)
THEOREM ImplementsContract ==
  ASSUME Sheltered
  PROVE  Spec => ContractSpec
<1>1. Init => FullInv /\ Contract!Init
  BY FullInit
<1>2. FullInv /\ [Next]_vars => FullInv'
  BY FullStep
<1>3. FullInv /\ [Next]_vars => [Contract!Next]_(Contract!vars)
  BY FullStep DEF Implements
<1> QED
  BY <1>1, <1>2, <1>3, PTL DEF Spec, ContractSpec, Contract!Spec

(* In the contract only a logout, or a login whose tokens cannot be read   *)
(* back, takes a readable session away, unless writes are blind.           *)
LEMMA RegistersKeepSessions ==
  ASSUME TypeOK, Implements, ~Faulty("merge"), Stored.auth \in Tokens, Stored'.auth \notin Tokens
  PROVE  \E p \in Procs : call[p].name \in {"Clear", "Save"} /\ call'[p] = NoCall
<1>1. Stored'.auth # Stored.auth
  OBVIOUS
<1>2. Contract!Next
  BY <1>1 DEF Implements, Contract!vars, Stored
<1>3. \A f \in Contract!Bases : f.auth = Stored.auth
  BY DEF Contract!Bases, Stored
<1>4. \A p \in Procs : Contract!SaveSandbox(p) => Stored'.auth = Stored.auth
  BY <1>3 DEF Contract!SaveSandbox, Stored
<1>5. PICK p \in Procs : Contract!Save(p) \/ Contract!Clear(p)
  BY <1>1, <1>2, <1>4, DistinctValues
  DEF Contract!Next, Contract!Invoke, Contract!Load, Contract!ClearSandboxes,
      Contract!LoadSandbox, Contract!LoadAllSandboxes, Contract!Fail, Contract!Die, Stored
<1> QED
  BY <1>5, SameTypes DEF TypeOK, Contract!Save, Contract!Clear, Contract!Reply

(***************************************************************************)
(* Where the file is sheltered and merges can read it, nothing but a       *)
(* logout costs the user a readable session, or a login whose tokens       *)
(* cannot be read back: no reader, no write of the sandbox cache, and no   *)
(* other failure or death.                                                 *)
(***************************************************************************)
THEOREM SessionsLast ==
  ASSUME Sheltered
  PROVE  Spec => SessionOutlivesReaders
<1>1. Init => FullInv
  BY FullInit
<1>2. FullInv /\ [Next]_vars => FullInv'
  BY FullStep
<1>3. FullInv /\ [Next]_vars =>
        [~Faulty("merge") /\ disk["state"].body.auth \in Tokens /\ disk'["state"].body.auth \notin Tokens =>
           \E p \in Procs : call[p].name \in {"Clear", "Save"} /\ call'[p] = NoCall]_vars
  BY FullStep, RegistersKeepSessions DEF FullInv, Inv, Stored
<1> QED
  BY <1>1, <1>2, <1>3, PTL DEF Spec, SessionOutlivesReaders

-----------------------------------------------------------------------------
(***************************************************************************)
(* What a dead writer leaves: Inv says that the temporary file is there    *)
(* when it is to be made private and renamed, so that a writer gets to its *)
(* clean-up by a failing system call only.                                 *)
(***************************************************************************)
OnlyDeaths == env.faults \subseteq {"crash"}

(* A temporary file is its owner's to write, whoever left it there.        *)
Writable == ~Faulty("umask") => disk["tmp"].mode = "0600"

Unblocked(p) ==
  /\ pc[p] = "heal" => call[p].name = "Load"
  /\ OnlyDeaths => pc[p] # "cleanup"

LEMMA OnlyDeathsFail ==
  ASSUME OnlyDeaths, NEW step, Faulty(step)
  PROVE  step = "crash"
  BY DEF OnlyDeaths, Faulty

(* A writer's step gets nowhere near the clean-up and ends, if at all, in  *)
(* success or in death.                                                    *)
LEMMA WriterSucceeds ==
  ASSUME Inv, OnlyDeaths, Writable, NEW p \in Procs, Unblocked(p), Step(p) \/ Crash(p),
         call[p].name \in Writers
  PROVE  /\ pc'[p] # "cleanup"
         /\ call'[p] = NoCall => res'[p].tag \in {"ok", "crashed"}
<1>1. TypeOK /\ Phase(p) /\ pc[p] # "cleanup" /\ disk["tmp"].mode = "0600"
  BY OnlyDeathsFail DEF Inv, Unblocked, Writable
<1>2. call[p] # NoCall
  BY DEF NoCall, Writers
<1> DEFINE Good == /\ pc'[p] # "cleanup"
                   /\ call'[p] = NoCall => res'[p].tag \in {"ok", "crashed"}
<1>3. ASSUME NEW tag \in {"ok", "crashed"}, NEW val, Finish(p, tag, val) PROVE Good
  BY <1>1, <1>3 DEF Finish, Goto, TypeOK
<1>4. ASSUME NEW step, step # "cleanup", Goto(p, step), UNCHANGED call PROVE Good
  BY <1>1, <1>2, <1>4 DEF Goto, TypeOK
<1>5. CASE StatForClear(p)
  BY <1>3, <1>4, <1>5 DEF StatForClear, Ok, Return
<1>6. CASE MergeTokens(p) \/ MergeSandbox(p) \/ MergeClear(p) \/ MergeClearSandboxes(p)
  BY <1>3, <1>4, <1>6
  DEF MergeTokens, MergeSandbox, MergeClear, MergeClearSandboxes, Publish, Ok, Return
<1>7. CASE OpenTmp(p) \/ WriteTmp(p) \/ WriteFails(p)
  BY <1>1, <1>4, <1>7, OnlyDeathsFail DEF OpenTmp, WriteTmp, WriteFails
<1>8. CASE ChmodTmp(p) \/ RenameTmp(p) \/ RenameFails(p)
  BY <1>1, <1>3, <1>4, <1>8, OnlyDeathsFail DEF ChmodTmp, RenameTmp, RenameFails, Phase, Exists
<1>9. CASE CleanupTmp(p)
  BY <1>1, <1>9 DEF CleanupTmp
<1>10. CASE RemoveState(p)
  BY <1>3, <1>10, OnlyDeathsFail DEF RemoveState
<1>11. CASE Crash(p)
  BY <1>3, <1>11 DEF Crash, Return
<1>12. CASE Heal(p)
  BY <1>12 DEF Heal, Unblocked, Writers
<1> QED
  BY <1>5, <1>6, <1>7, <1>8, <1>9, <1>10, <1>11, <1>12
  DEF Step, StatForRead, ReadFails, ReadTokens, ReadSandbox, ReadSandboxes, Writers

LEMMA WritableAtFirst == Init => Writable
BY DEF Init, Writable, Missing, File, Leftovers, CreatedModes, Names

LEMMA WritableStep ==
  ASSUME TypeOK, Writable, [Next]_vars
  PROVE  Writable'
<1> SUFFICES ASSUME ~Faulty("umask")' PROVE disk'["tmp"].mode = "0600"
  BY DEF Writable
<1>1. UNCHANGED env \/ UNCHANGED vars
  BY DEF Next
<1>2. ~Faulty("umask") /\ disk["tmp"].mode = "0600" /\ CreatedModes = {"0600"}
  BY <1>1 DEF Writable, Faulty, vars, CreatedModes
<1>3. DOMAIN disk = Names /\ Missing.mode = "0600"
  BY DEF TypeOK, Missing, File
<1> USE <1>2, <1>3 DEF File, Names
<1>4. CASE UNCHANGED disk
  BY <1>4
<1>5. ASSUME NEW n \in Names, Unlink(n) PROVE disk'["tmp"].mode = "0600"
  BY <1>5 DEF Unlink
<1>6. ASSUME NEW p \in Procs, OpenTmp(p) PROVE disk'["tmp"].mode = "0600"
  BY <1>6 DEF OpenTmp
<1>7. ASSUME NEW p \in Procs, WriteTmp(p) \/ WriteFails(p) \/ ChmodTmp(p) \/ RenameTmp(p)
      PROVE  disk'["tmp"].mode = "0600"
  <2>1. CASE WriteTmp(p)
    BY <1>4, <2>1 DEF WriteTmp
  <2>2. CASE WriteFails(p)
    BY <1>4, <2>2 DEF WriteFails
  <2>3. CASE ChmodTmp(p)
    <3>1. disk["tmp"] \in Files
      BY DEF TypeOK
    <3> QED
      BY <1>4, <2>3, <3>1 DEF ChmodTmp, Files
  <2>4. CASE RenameTmp(p)
    BY <2>4 DEF RenameTmp
  <2> QED
    BY <1>7, <2>1, <2>2, <2>3, <2>4
<1>8. ASSUME NEW p \in Procs, CleanupTmp(p) \/ Heal(p) \/ RemoveState(p)
      PROVE  disk'["tmp"].mode = "0600"
  BY <1>4, <1>5, <1>8 DEF CleanupTmp, Heal, RemoveState
<1> QED
  BY <1>4, <1>6, <1>7, <1>8
  DEF Next, vars, Step, Begin, Crash, StatForRead, ReadFails, ReadTokens, ReadSandbox,
      ReadSandboxes, StatForClear, MergeTokens, MergeSandbox, MergeClear, MergeClearSandboxes,
      RenameFails

LEMMA UnblockedStep ==
  ASSUME Inv, Writable, NEW p \in Procs, Unblocked(p), Step(p) \/ Crash(p), UNCHANGED env
  PROVE  Unblocked(p)'
<1>1. TypeOK /\ Phase(p)
  BY DEF Inv
<1> USE <1>1 DEF TypeOK, Goto
<1> DEFINE Elsewhere == pc'[p] \notin {"heal", "cleanup"}
<1>2. ASSUME \/ Ok(p) \/ Fail(p) \/ Miss(p)
             \/ \E tag, val : Return(p, tag, val) \/ Finish(p, tag, val)
      PROVE  Elsewhere
  BY <1>2 DEF Ok, Fail, Miss, Return, Finish
<1>3. OnlyDeaths' <=> OnlyDeaths
  BY DEF OnlyDeaths
<1>4. OnlyDeaths /\ call[p].name \in Writers => pc'[p] # "cleanup"
  BY WriterSucceeds
<1>5. CASE StatForRead(p) \/ StatForClear(p) \/ ReadFails(p) \/ ReadSandbox(p) \/ ReadSandboxes(p)
  BY <1>2, <1>5
  DEF StatForRead, StatForClear, ReadFails, ReadSandbox, ReadSandboxes, Lookup, Unblocked
<1>6. CASE ReadTokens(p)
  BY <1>2, <1>6 DEF ReadTokens, Lookup, Unblocked
<1>7. CASE MergeTokens(p) \/ MergeSandbox(p) \/ MergeClear(p) \/ MergeClearSandboxes(p)
  BY <1>2, <1>7
  DEF MergeTokens, MergeSandbox, MergeClear, MergeClearSandboxes, Publish, Unblocked
<1>8. CASE \/ OpenTmp(p) \/ WriteTmp(p) \/ WriteFails(p) \/ ChmodTmp(p)
           \/ RenameTmp(p) \/ RenameFails(p)
  <2>1. pc'[p] # "heal" /\ call[p].name \in Writers
    BY <1>2, <1>8
    DEF OpenTmp, WriteTmp, WriteFails, ChmodTmp, RenameTmp, RenameFails, Phase, WritingSteps
  <2> QED
    BY <1>3, <1>4, <2>1 DEF Unblocked
<1>9. CASE CleanupTmp(p) \/ Heal(p) \/ RemoveState(p) \/ Crash(p)
  BY <1>2, <1>9 DEF CleanupTmp, Heal, RemoveState, Crash, Unblocked
<1> QED
  BY <1>5, <1>6, <1>7, <1>8, <1>9 DEF Step

LEMMA EverUnblocked ==
  ASSUME OneWriter, Inv, Writable, \A p \in Procs : Unblocked(p), [Next]_vars
  PROVE  /\ \A p \in Procs : Unblocked(p)'
         /\ \A p \in Procs :
              OnlyDeaths /\ call[p].name \in Writers /\ call'[p] = NoCall
                => res'[p].tag \in {"ok", "crashed"} \/ UNCHANGED vars
<1>1. TypeOK
  BY DEF Inv
<1>2. CASE UNCHANGED vars
  BY <1>2 DEF vars, Unblocked, OnlyDeaths
<1>3. ASSUME NEW p \in Procs, NEW c \in Calls, Begin(p, c), UNCHANGED env,
             NEW q \in Procs
      PROVE  Unblocked(q)' /\ ~(call[q].name \in Writers /\ call'[q] = NoCall)
  <2>1. (pc'[q] = pc[q] /\ call'[q] = call[q]) \/ pc'[q] \in {"read", "stat"}
    BY <1>1, <1>3 DEF Begin, Goto, TypeOK
  <2>2. Unblocked(q)'
    BY <1>3, <2>1 DEF Unblocked, OnlyDeaths
  <2>3. c # NoCall /\ NoCall.name \notin Writers
    BY DEF Calls, NoCall, Writers
  <2>4. ~(call[q].name \in Writers /\ call'[q] = NoCall)
    BY <1>1, <1>3, <2>3 DEF Begin, TypeOK
  <2> QED
    BY <2>2, <2>4
<1>4. ASSUME NEW p \in Procs, Step(p) \/ Crash(p), UNCHANGED env, NEW q \in Procs
      PROVE  /\ Unblocked(q)'
             /\ OnlyDeaths /\ call[q].name \in Writers /\ call'[q] = NoCall
                  => res'[q].tag \in {"ok", "crashed"}
  <2>1. CASE q = p
    BY <1>4, <2>1, UnblockedStep, WriterSucceeds
  <2>2. CASE q # p
    <3>1. pc'[q] = pc[q] /\ call'[q] = call[q]
      BY <1>1, <1>4, <2>2, StepIsLocal
    <3> QED
      BY <1>4, <3>1 DEF Unblocked, OnlyDeaths, NoCall, Writers
  <2> QED
    BY <2>1, <2>2
<1> QED
  BY <1>2, <1>3, <1>4 DEF Next

(***************************************************************************)
(* However many writers died, and wherever: where nothing fails but        *)
(* processes, and the umask leaves the owner his permissions, every later  *)
(* write returns success, as long as no two of them overlap.               *)
(***************************************************************************)
THEOREM ResidueIsHarmless ==
  ASSUME OneWriter
  PROVE  Spec => ResidueNeverBlocks
<1> DEFINE Free == Inv /\ Writable /\ \A p \in Procs : Unblocked(p)
<1>1. Init => Free
  BY InvInit, WritableAtFirst DEF Init, Unblocked
<1>2. Free /\ [Next]_vars => Free'
  BY InvStep, EverUnblocked, WritableStep DEF Inv
<1>3. Free /\ [Next]_vars =>
        [\A p \in Procs :
           env.faults \subseteq {"crash"} /\ call[p].name \in Writers /\ call'[p] = NoCall
             => res'[p].tag \in {"ok", "crashed"}]_vars
  BY EverUnblocked DEF OnlyDeaths
<1> QED
  BY <1>1, <1>2, <1>3, PTL DEF Spec, ResidueNeverBlocks
=============================================================================
