----------------------------- MODULE StateFile -----------------------------
(***************************************************************************)
(* internal/adapters/xdgstore: the one file, state.json, that keeps the    *)
(* session tokens and the sandbox cache of every invocation of whzbox.     *)
(*                                                                         *)
(* Nothing but the file system is shared and nothing is locked, so the     *)
(* steps here are system calls: stat, read, open, write, chmod, rename and *)
(* remove.  Any of them may fail and a process may die between any two.    *)
(* A writer reads the file, merges its update into what it read, writes    *)
(* the whole result to state.json.tmp, and renames that over state.json.   *)
(*                                                                         *)
(* The two names are the domain of disk.  An open descriptor follows the   *)
(* file it was opened on: fd[p] is "tmp", "state" once that file has been  *)
(* renamed, "gone" once it has no name, and "none" when p holds none.      *)
(***************************************************************************)
EXTENDS StoreTypes

CONSTANTS
  Procs,         \* the invocations of the program
  Environments   \* the circumstances under which they may run

(***************************************************************************)
(* An environment says which invocations there are, whether two calls that *)
(* write may be in flight together, which system calls may fail ("read" is *)
(* the one of the methods that look something up, "merge" that of          *)
(* readCurrent, be it for a mode that bars the owner from reading; "crash" *)
(* is a process's death, "umask" one that bars the owner from a file he    *)
(* creates), and whether state.json may hold what does not parse, from the *)
(* start or because somebody saves it.                                     *)
(***************************************************************************)
Failures ==
  {"stat", "read", "merge", "open", "write", "chmod", "rename", "remove", "crash", "umask"}

(* Only of two writers may one publish the other's file before its chmod.  *)
ASSUME EnvironmentAssumption ==
  /\ Environments \subseteq
       [users : SUBSET Procs, racing : BOOLEAN, faults : SUBSET Failures, unparsable : BOOLEAN]
  /\ \A e \in Environments : e.racing /\ "umask" \in e.faults => "merge" \in e.faults

VARIABLES
  disk,   \* disk[name]: the file of that name
  pc,     \* pc[p]: the system call p makes next
  call,   \* call[p]: the port method p is executing
  buf,    \* buf[p]: the fileFormat p has built to write
  fd,     \* fd[p]: where the file p has open for writing is
  res,    \* res[p]: what p's last method returned, if it has
  env     \* the environment of this behaviour

vars == <<disk, pc, call, buf, fd, res, env>>

Names == {"state", "tmp"}
Modes == {"0600", "other", "unwritable"}   \* "unwritable": by its owner
Steps == {"idle", "stat", "read", "heal", "open", "write", "chmod", "rename", "cleanup", "remove"}

(***************************************************************************)
(* A file as json.Unmarshal sees it.  "foreign" stands for what others     *)
(* left there (not JSON, or another schema version), "empty" for a file    *)
(* just truncated and "torn" for the debris of writes.  Only an "ok" file  *)
(* has sections; the others carry those of the zero fileFormat.            *)
(***************************************************************************)
Format == [auth : Auths, cache : Caches]
Zero   == [auth |-> NoAuth, cache |-> NoBoxes]
Forms  == {"missing", "empty", "torn", "foreign", "ok"}
Files  == [form : Forms, body : Format, mode : Modes]

File(form, body, mode) == [form |-> form, body |-> body, mode |-> mode]
Missing   == File("missing", Zero, "0600")
Exists(n) == disk[n].form # "missing"

(* Which calls the users of one state directory make, and at the same time. *)
MayBegin(p, c) ==
  /\ p \in env.users
  /\ c.name = "Save" /\ c.tokens \in Unprintable => env.unparsable
  /\ \A q \in Procs \ {p} :
       c.name \in Writers /\ call[q].name \in Writers => env.racing

Goto(p, step) == pc' = [pc EXCEPT ![p] = step]

Finish(p, tag, val) ==
  /\ Goto(p, "idle")
  /\ call' = [call EXCEPT ![p] = NoCall]
  /\ buf' = [buf EXCEPT ![p] = Zero]
  /\ res' = [res EXCEPT ![p] = [tag |-> tag, val |-> val]]

Return(p, tag, val) == Finish(p, tag, val) /\ fd' = [fd EXCEPT ![p] = "none"]

Ok(p) == Return(p, "ok", NoAuth)

(* Mutant of Fail: an error return that does not close the file.           *)
FailKeepsOpen(p) == Finish(p, "error", NoAuth) /\ UNCHANGED fd

Fail(p) == Return(p, "error", NoAuth)

Miss(p) == Return(p, "miss", NoAuth)

(* p returns value as the hit it is when it is one of good, a miss if not. *)
Lookup(p, good, value) == IF value \in good THEN Return(p, "hit", value) ELSE Miss(p)

Faulty(step) == step \in env.faults

-----------------------------------------------------------------------------
(* Every method starts with os.Stat, save those that merge at once.        *)
Begin(p, c) ==
  /\ call[p] = NoCall
  /\ MayBegin(p, c)
  /\ call' = [call EXCEPT ![p] = c]
  /\ Goto(p, IF c.name \in {"Save", "SaveSandbox"} THEN "read" ELSE "stat")
  /\ res' = [res EXCEPT ![p] = NoReply]
  /\ UNCHANGED <<disk, buf, fd>>

(* Load, LoadSandbox and LoadAllSandboxes: missing is a miss, a wide mode  *)
(* is refused.                                                             *)
StatForRead(p) ==
  /\ pc[p] = "stat" /\ call[p].name \notin Writers
  /\ \/ /\ ~Exists("state")
        /\ IF call[p].name = "LoadAllSandboxes" THEN Return(p, "hit", NoBoxes) ELSE Miss(p)
     \/ Exists("state") /\ disk["state"].mode # "0600" /\ Fail(p)
     \/ /\ Exists("state") /\ disk["state"].mode = "0600"
        /\ Goto(p, "read") /\ UNCHANGED <<call, buf, fd, res>>
     \/ Faulty("stat") /\ Fail(p)
  /\ UNCHANGED disk

(* Clear and ClearSandboxes: only a clean "not exist" ends the call.       *)
StatForClear(p) ==
  /\ pc[p] = "stat" /\ call[p].name \in Writers
  /\ \/ ~Exists("state") /\ Ok(p)
     \/ /\ Exists("state") \/ Faulty("stat")
        /\ Goto(p, "read") /\ UNCHANGED <<call, buf, fd, res>>
  /\ UNCHANGED disk

(* The file vanished since the stat, or cannot be read.                    *)
ReadFails(p) ==
  /\ pc[p] = "read" /\ call[p].name \notin Writers
  /\ ~Exists("state") \/ Faulty("read")
  /\ Fail(p)
  /\ UNCHANGED disk

ReadTokens(p) ==
  /\ pc[p] = "read" /\ call[p].name = "Load" /\ Exists("state")
  /\ IF disk["state"].form # "ok" \/ disk["state"].body.auth = BadAuth
     THEN Goto(p, "heal") /\ UNCHANGED <<call, buf, fd, res>>
     ELSE Lookup(p, Tokens, disk["state"].body.auth)
  /\ UNCHANGED disk

ReadSandbox(p) ==
  /\ pc[p] = "read" /\ call[p].name = "LoadSandbox" /\ Exists("state")
  /\ Lookup(p, Boxes, disk["state"].body.cache[call[p].kind])
  /\ UNCHANGED disk

ReadSandboxes(p) ==
  /\ pc[p] = "read" /\ call[p].name = "LoadAllSandboxes" /\ Exists("state")
  /\ Return(p, "hit", Readable(disk["state"].body.cache))
  /\ UNCHANGED disk

-----------------------------------------------------------------------------
(* readCurrent: a file that is missing, unreadable or not ours is zero.    *)
Current == {disk["state"].body} \cup (IF Faulty("merge") THEN {Zero} ELSE {})

Publish(p, body) ==
  /\ buf' = [buf EXCEPT ![p] = body]
  /\ Goto(p, "open")
  /\ UNCHANGED <<call, fd, res>>

(* Mutant of MergeTokens: the file is built anew, without the sandboxes.   *)
SaveFromScratch(p) ==
  /\ pc[p] = "read" /\ call[p].name = "Save"
  /\ Publish(p, [Zero EXCEPT !.auth = StoredTokens(call[p].tokens)])
  /\ UNCHANGED disk

MergeTokens(p) ==
  /\ pc[p] = "read" /\ call[p].name = "Save"
  /\ \E f \in Current : Publish(p, [f EXCEPT !.auth = StoredTokens(call[p].tokens)])
  /\ UNCHANGED disk

MergeSandbox(p) ==
  /\ pc[p] = "read" /\ call[p].name = "SaveSandbox"
  /\ \E f \in Current : Publish(p, [f EXCEPT !.cache[call[p].kind] = call[p].box])
  /\ UNCHANGED disk

(* Logging out: without cached sandboxes the file itself goes.             *)
MergeClear(p) ==
  /\ pc[p] = "read" /\ call[p].name = "Clear"
  /\ \E f \in Current :
       IF f.cache = NoBoxes
       THEN Goto(p, "remove") /\ UNCHANGED <<call, buf, fd, res>>
       ELSE Publish(p, [f EXCEPT !.auth = NoAuth])
  /\ UNCHANGED disk

(* Mutant of MergeClearSandboxes: the file goes, whatever else it holds.   *)
ClearSandboxesRemoves(p) ==
  /\ pc[p] = "read" /\ call[p].name = "ClearSandboxes"
  /\ Goto(p, "remove") /\ UNCHANGED <<disk, call, buf, fd, res>>

MergeClearSandboxes(p) ==
  /\ pc[p] = "read" /\ call[p].name = "ClearSandboxes"
  /\ \E f \in Current :
       \/ f.cache = NoBoxes /\ Ok(p)
       \/ /\ f.cache # NoBoxes /\ f.auth = NoAuth
          /\ Goto(p, "remove") /\ UNCHANGED <<call, buf, fd, res>>
       \/ /\ f.cache # NoBoxes /\ f.auth # NoAuth
          /\ Publish(p, [f EXCEPT !.cache = NoBoxes])
  /\ UNCHANGED disk

-----------------------------------------------------------------------------
(* writeAtomic, one system call at a time.                                 *)

(* Mutant of OpenTmp: the data is written over state.json itself.          *)
OpenInPlace(p) ==
  /\ pc[p] = "open"
  /\ disk' = [disk EXCEPT !["state"] = File("empty", Zero, "0600")]
  /\ fd' = [fd EXCEPT ![p] = "state"]
  /\ Goto(p, "write") /\ UNCHANGED <<call, buf, res>>

(* Mutant of OpenTmp: O_EXCL, which fails on what a dead writer left.      *)
OpenExclusively(p) ==
  /\ pc[p] = "open"
  /\ \/ /\ ~Exists("tmp")
        /\ disk' = [disk EXCEPT !["tmp"] = File("empty", Zero, "0600")]
        /\ fd' = [fd EXCEPT ![p] = "tmp"]
        /\ Goto(p, "write") /\ UNCHANGED <<call, buf, res>>
     \/ Exists("tmp") /\ Fail(p) /\ UNCHANGED disk

(* What is left of 0600: a umask takes the owner's bits or none of them.   *)
CreatedModes == IF Faulty("umask") THEN Modes ELSE {"0600"}

(* os.WriteFile opens with O_CREATE|O_TRUNC: a new file gets 0600 less the *)
(* umask and can be written whatever that is; one that is already there    *)
(* keeps its mode, and its owner may be barred from writing it.            *)
OpenTmp(p) ==
  /\ pc[p] = "open"
  /\ \/ /\ Exists("tmp") => disk["tmp"].mode # "unwritable"
        /\ \E m \in (IF Exists("tmp") THEN {disk["tmp"].mode} ELSE CreatedModes) :
             disk' = [disk EXCEPT !["tmp"] = File("empty", Zero, m)]
        /\ fd' = [fd EXCEPT ![p] = "tmp"]
        /\ Goto(p, "write") /\ UNCHANGED <<call, buf, res>>
     \/ /\ (Exists("tmp") /\ disk["tmp"].mode = "unwritable") \/ Faulty("open")
        /\ Fail(p) /\ UNCHANGED disk

(* The data goes to the file p opened, wherever its name is now.  Over     *)
(* another writer's bytes it leaves its own or, when they are shorter, a   *)
(* mixture that does not parse.                                            *)
WriteTmp(p) ==
  /\ pc[p] = "write"
  /\ IF fd[p] = "gone"
     THEN UNCHANGED disk
     ELSE \E form \in {"ok", "torn"} :
            /\ form = "torn" => disk[fd[p]].form # "empty"
            /\ disk' = [disk EXCEPT ![fd[p]] =
                          File(form, IF form = "ok" THEN buf[p] ELSE Zero, @.mode)]
  /\ fd' = [fd EXCEPT ![p] = "none"]
  /\ Goto(p, "chmod")
  /\ UNCHANGED <<call, buf, res>>

(* A failed write leaves what it managed to write, and leaves the file.    *)
WriteFails(p) ==
  /\ pc[p] = "write" /\ Faulty("write")
  /\ \/ UNCHANGED disk
     \/ fd[p] # "gone" /\ disk' = [disk EXCEPT ![fd[p]] = File("torn", Zero, @.mode)]
  /\ Fail(p)

(* Mutant of ChmodTmp: the mode is left to os.WriteFile.                   *)
SkipChmod(p) ==
  /\ pc[p] = "chmod"
  /\ Goto(p, "rename")
  /\ UNCHANGED <<disk, call, buf, fd, res>>

ChmodTmp(p) ==
  /\ pc[p] = "chmod"
  /\ \/ /\ Exists("tmp")
        /\ disk' = [disk EXCEPT !["tmp"].mode = "0600"]
        /\ Goto(p, "rename")
     \/ /\ ~Exists("tmp") \/ Faulty("chmod")
        /\ Goto(p, "cleanup")
        /\ UNCHANGED disk
  /\ UNCHANGED <<call, buf, fd, res>>

(* Descriptors open on the file that had the name keep it.                 *)
Moved(from, to) ==
  [q \in Procs |-> IF fd[q] = from THEN to ELSE IF fd[q] = to THEN "gone" ELSE fd[q]]

RenameTmp(p) ==
  /\ pc[p] = "rename" /\ Exists("tmp")
  /\ disk' = [disk EXCEPT !["state"] = disk["tmp"], !["tmp"] = Missing]
  /\ fd' = Moved("tmp", "state")
  /\ Finish(p, "ok", NoAuth)

RenameFails(p) ==
  /\ pc[p] = "rename"
  /\ ~Exists("tmp") \/ Faulty("rename")
  /\ Goto(p, "cleanup")
  /\ UNCHANGED <<disk, call, buf, fd, res>>

(* The name n goes; those who have the file open keep it.                  *)
Unlink(n) == disk' = [disk EXCEPT ![n] = Missing] /\ fd' = Moved(n, "gone")

(* The temporary file is removed, if it can be, before the error returns.  *)
CleanupTmp(p) ==
  /\ pc[p] = "cleanup"
  /\ \/ Unlink("tmp") /\ Finish(p, "error", NoAuth)
     \/ Faulty("remove") /\ Fail(p) /\ UNCHANGED disk

-----------------------------------------------------------------------------
(* Load removes a file it cannot use and ignores whether that worked.      *)
Heal(p) ==
  /\ pc[p] = "heal"
  /\ \/ Unlink("state") /\ Finish(p, "miss", NoAuth)
     \/ Faulty("remove") /\ Miss(p) /\ UNCHANGED disk

RemoveState(p) ==
  /\ pc[p] = "remove"
  /\ \/ Unlink("state") /\ Finish(p, "ok", NoAuth)
     \/ Faulty("remove") /\ Fail(p) /\ UNCHANGED disk

(* The process dies between two system calls: a signal, or a panic.        *)
Crash(p) ==
  /\ Faulty("crash") /\ call[p] # NoCall
  /\ Return(p, "crashed", NoAuth)
  /\ UNCHANGED disk
-----------------------------------------------------------------------------
(***************************************************************************)
(* What invocations find: a file this program wrote, or nothing; where     *)
(* unparsable, also one that was edited, restored with another mode or     *)
(* written by another version, and the temporary file of a writer that     *)
(* died.                                                                   *)
(***************************************************************************)
CleanBodies ==
  {f \in Format : f.auth # BadAuth /\ f # Zero /\ \A k \in Kinds : f.cache[k] # BadBox}

CleanFiles == [form : {"ok"}, body : CleanBodies, mode : {"0600"}]
OddFiles   == [form : {"ok"}, body : Format, mode : Modes]
                \cup [form : {"foreign"}, body : {Zero}, mode : Modes]
Leftovers  == {File("torn", Zero, m) : m \in CreatedModes}

Init ==
  /\ env \in Environments
  /\ \E state \in {Missing} \cup (IF env.unparsable THEN OddFiles ELSE CleanFiles),
        tmp \in {Missing} \cup (IF env.unparsable THEN Leftovers ELSE {}) :
       disk = [n \in Names |-> IF n = "state" THEN state ELSE tmp]
  /\ pc = [p \in Procs |-> "idle"]
  /\ call = [p \in Procs |-> NoCall]
  /\ buf = [p \in Procs |-> Zero]
  /\ fd = [p \in Procs |-> "none"]
  /\ res = [p \in Procs |-> NoReply]

Step(p) ==
  \/ StatForRead(p) \/ ReadFails(p)
  \/ ReadTokens(p) \/ ReadSandbox(p) \/ ReadSandboxes(p) \/ Heal(p)
  \/ StatForClear(p)
  \/ MergeTokens(p) \/ MergeSandbox(p) \/ MergeClear(p) \/ MergeClearSandboxes(p)
  \/ OpenTmp(p) \/ WriteTmp(p) \/ WriteFails(p) \/ ChmodTmp(p)
  \/ RenameTmp(p) \/ RenameFails(p) \/ CleanupTmp(p)
  \/ RemoveState(p)

Next ==
  /\ \E p \in Procs :
       \/ \E c \in Calls : Begin(p, c)
       \/ Step(p)
       \/ Crash(p)
  /\ UNCHANGED env

Spec == Init /\ [][Next]_vars

-----------------------------------------------------------------------------
(***************************************************************************)
(* Every variable has its type; a file that does not parse carries no      *)
(* section; a process has a descriptor exactly while it is about to write, *)
(* and a call in flight exactly while it is not idle (what every method    *)
(* of Store leaves behind when it returns).                                *)
(***************************************************************************)
TypeOK ==
  /\ disk \in [Names -> Files]
  /\ pc \in [Procs -> Steps]
  /\ call \in [Procs -> Calls \cup {NoCall}]
  /\ buf \in [Procs -> Format]
  /\ fd \in [Procs -> {"none", "tmp", "state", "gone"}]
  /\ res \in [Procs -> Results]
  /\ env \in Environments
  /\ \A n \in Names : disk[n].form # "ok" => disk[n].body = Zero
  /\ \A p \in Procs : (fd[p] # "none" <=> pc[p] = "write")
  /\ \A p \in Procs : (call[p] = NoCall <=> pc[p] = "idle")

(***************************************************************************)
(* state.json is never a file that some writer began and did not finish    *)
(* (writeAtomic: a temporary file, then rename), whatever fails and        *)
(* whoever dies.                                                           *)
(***************************************************************************)
NeverTorn == disk["state"].form \notin {"empty", "torn"}

(***************************************************************************)
(* Whatever whzbox publishes as state.json is complete and has mode        *)
(* exactly 0600 at the instant it appears, whatever the umask and whatever *)
(* temporary file was left there (the chmod before the rename in           *)
(* writeAtomic).                                                           *)
(***************************************************************************)
PublishedWholeAndPrivate ==
  [][disk'["state"] # disk["state"] =>
       disk'["state"].form \in {"ok", "missing"} /\ disk'["state"].mode = "0600"]_vars

(***************************************************************************)
(* A process that died, wherever it was, never makes a later write fail:   *)
(* with no fault but crashes, every call of a writer that returns,         *)
(* returns success (WriteFile truncates a leftover state.json.tmp).  The   *)
(* umask must leave the owner his permissions: a leftover that he may not  *)
(* write, from before its chmod, would fail every later write.             *)
(***************************************************************************)
ResidueNeverBlocks ==
  [][\A p \in Procs :
       env.faults \subseteq {"crash"} /\ call[p].name \in Writers /\ call'[p] = NoCall
         => res'[p].tag \in {"ok", "crashed"}]_vars

(***************************************************************************)
(* As long as a write can read the file it merges into, a stored session   *)
(* goes away only in a step of a logout (Clear), or of a login whose       *)
(* tokens cannot be read back: not because the sandbox cache was written,  *)
(* nor because somebody read.                                              *)
(***************************************************************************)
SessionOutlivesReaders ==
  [][~Faulty("merge") /\ disk["state"].body.auth \in Tokens /\ disk'["state"].body.auth \notin Tokens
       => \E p \in Procs : call[p].name \in {"Clear", "Save"} /\ call'[p] = NoCall]_vars

(***************************************************************************)
(* Logging in, refreshing and logging out leave every cached sandbox as it *)
(* is: a write of the session section never costs an entry of the other    *)
(* one (the read-modify-write of Save and Clear).                          *)
(***************************************************************************)
SandboxesOutliveSessions ==
  [][\A k \in Kinds : LET entry(d) == d["state"].body.cache[k] IN
       entry(disk) \in Boxes /\ entry(disk') # entry(disk) =>
         \E p \in Procs : call[p].name \in {"SaveSandbox", "ClearSandboxes"} /\ call'[p] = NoCall]_vars

(***************************************************************************)
(* The file implements the two registers of the ports' contract: a call    *)
(* takes effect at its rename or remove (a reader's at its read), all of   *)
(* it or nothing, and a call that returns an error has changed nothing.    *)
(* It is on its own section only, unless the file it replaces could not be *)
(* read for the merge; what it then loses is the other section, entirely.  *)
(***************************************************************************)
Contract == INSTANCE StoreContract
              WITH auth <- disk["state"].body.auth, cache <- disk["state"].body.cache,
                   blind <- Faulty("merge")
ContractSpec == Contract!Spec
=============================================================================
