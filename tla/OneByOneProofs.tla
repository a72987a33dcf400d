--------------------------- MODULE OneByOneProofs ---------------------------
(***************************************************************************)
(* SandboxService, when commands run one after the other.                  *)
(*                                                                         *)
(* What the command at work has seen of the account and of the cache stays *)
(* true until it acts on it, whatever fails (Serial).  When moreover calls *)
(* fail only before they have an effect, the cache and the account never   *)
(* come apart except between two steps of that command (Mirror).           *)
(***************************************************************************)
EXTENDS SandboxProofs, FiniteSetTheorems

(* The account permits one sandbox at a time.                              *)
AtMostOne == \A i, j \in Ids : Running(i) /\ Running(j) => i = j

(* One command at a time.                                                  *)
Alone == \A p, q \in Procs : pc[p] # "idle" /\ pc[q] # "idle" => p = q

(* If anything runs, it is what is cached of kind k.                       *)
Sole(k) == \A i \in Ids : Running(i) => i = cache[k].id

(* A cache that can be read has one fresh entry at most, and that one says *)
(* all there is to say.                                                    *)
Orderly ==
  ~Faulty("load") =>
    /\ \A k, l \in Kinds : Fresh(cache[k]) /\ Fresh(cache[l]) => k = l
    /\ \A k \in Kinds : Fresh(cache[k]) => Sole(k)

(* The steps of a create that has a new sandbox, of one that found none to *)
(* reuse, and of one that did; and those of mfa.                           *)
Placing  == {"commit", "rollback", "verify", "save"}
Renewing == {"reject", "auth", "create", "commit", "verify", "save"}
Reusing  == {"reverify", "resave"}
Making   == (Renewing \ {"reject"}) \cup Reusing
Coding   == {"mfaAuth", "mfaCode"}

(* What p has seen of the account, and of the cache.                       *)
Seen(p) ==
  /\ pc[p] \in Placing => \A i \in Ids : Running(i) => i = sb[p].id
  /\ pc[p] = "clearAll" => \A i \in Ids : ~Running(i)
  /\ pc[p] \in Reusing =>
       /\ cache[kind[p]] # NoEntry
       /\ sb[p].id = cache[kind[p]].id /\ sb[p].expires = cache[kind[p]].expires
  /\ ~Faulty("load") =>
       /\ pc[p] \in Making => \A k \in Kinds \ {kind[p]} : ~Fresh(cache[k])
       /\ pc[p] \in Renewing => ~Fresh(cache[kind[p]])
       /\ pc[p] \in Coding => cache[kind[p]] # NoEntry /\ Sole(kind[p])

Serial == Alone /\ Orderly /\ \A p \in Procs : Seen(p)

SerialInv == Inv /\ AtMostOne /\ (OneByOne => Serial)

-----------------------------------------------------------------------------
(* Nothing starts to run but what is provisioned.                          *)
LEMMA Waning ==
  ASSUME TypeOK,
         \/ UNCHANGED <<now, boxes>>
         \/ Tick
         \/ (\E k \in Kinds : Register(k) \/ Terminate(k)) /\ UNCHANGED now
  PROVE  \A i \in Ids : Running(i)' => Running(i)
<1> USE BrokerAssumption DEF TypeOK, Running
<1>1. CASE UNCHANGED <<now, boxes>>
  BY <1>1
<1>2. CASE Tick
  <2>1. now \in Nat /\ now' = now + 1 /\ boxes' = boxes
    BY <1>2 DEF Tick
  <2>2. \A i \in Ids : boxes[i].ends \in Nat
    BY DEF Box
  <2> QED
    BY <2>1, <2>2
<1>3. CASE (\E k \in Kinds : Register(k) \/ Terminate(k)) /\ UNCHANGED now
  <2>1. PICK k \in Kinds : Register(k) \/ Terminate(k)
    BY <1>3
  <2>2. CASE Register(k)
    BY <1>3, <2>2 DEF Register, Pending, Box
  <2>3. CASE Terminate(k)
    BY <1>3, <2>3 DEF Terminate, Owned, Registered, Box
  <2> QED
    BY <2>1, <2>2, <2>3
<1> QED
  BY <1>1, <1>2, <1>3

(* An entry does not become fresh by itself.                               *)
LEMMA Ageing ==
  ASSUME TypeOK, TypeOK', Onward, NEW k \in Kinds, cache'[k] = cache[k], Fresh(cache[k])'
  PROVE  Fresh(cache[k])
<1>1. cache[k] \in Entries /\ now \in Nat /\ now' \in Nat /\ now <= now'
  BY DEF TypeOK, Fresh, Onward
<1> QED
  BY <1>1 DEF Fresh, Entries

(* What is provisioned is the only one that runs.                          *)
LEMMA Provisioning ==
  ASSUME TypeOK, NEW i \in Ids, NEW k \in Kinds, NEW end, Provision(i, k, end), UNCHANGED now
  PROVE  \A j \in Ids : Running(j)' => j = i
  BY DEF TypeOK, Provision, Running

LEMMA AtMostOneStep == TypeOK /\ AtMostOne /\ [Next]_vars => AtMostOne'
<1> SUFFICES ASSUME TypeOK, AtMostOne, [Next]_vars PROVE AtMostOne'
  OBVIOUS
<1>w. (\A i \in Ids : Running(i)' => Running(i)) => AtMostOne'
  BY DEF AtMostOne
<1>1. CASE UNCHANGED <<now, boxes>>
  BY <1>1, <1>w, Waning
<1>2. CASE \E p \in Procs : Provisioned(p)
  <2>1. PICK i \in Ids, k \in Kinds, end \in Ends : Provision(i, k, end)
    BY <1>2 DEF Provisioned, TypeOK
  <2> QED
    BY <1>2, <2>1, Provisioning DEF Provisioned, AtMostOne
<1>3. CASE \E p \in Procs : Committed(p) \/ Rollback(p) \/ Destroyed(p)
  <2>1. \/ UNCHANGED <<now, boxes>>
        \/ (\E k \in Kinds : Register(k) \/ Terminate(k)) /\ UNCHANGED now
    BY <1>3 DEF Committed, Rollback, Destroyed, TypeOK
  <2> QED
    BY <1>w, <2>1, Waning
<1>4. CASE Environment
  BY <1>4, <1>w, Waning DEF Environment, EndUpstream
<1> QED
  BY <1>1, <1>2, <1>3, <1>4
     DEF Next, Step, vars, Create, Destroy, Begin, NothingToReuse, Reuse, Reverify, Resave,
         RejectOtherActive, Authorize, CreateFails, CommitFails, Verify, Save, CachedSlug,
         DestroyFails, ClearAll, GenerateMFA, CachedForMFA, MFACode, Interrupt, Crash

-----------------------------------------------------------------------------
(* A command begins when all is idle.                                      *)
LEMMA BeginsAlone ==
  ASSUME OneByOne, NEW p \in Procs, NEW step, NEW k, Begin(p, step, k)
  PROVE  \A q \in Procs : pc[q] = "idle"
<1> DEFINE Busy == {q \in Procs : pc[q] # "idle"}
<1>1. IsFiniteSet(Busy)
  BY ServiceAssumption, FS_Subset
<1>2. Cardinality(Busy) \in Nat /\ Cardinality(Busy) < 1
  BY <1>1, FS_CardinalityType DEF Begin, OneByOne
<1>3. Cardinality(Busy) = 0
  BY <1>2
<1> QED
  BY <1>1, <1>3, FS_EmptySet

(* p moves, the others are idle and stay so.                               *)
Lone(p) ==
  \A q \in Procs \ {p} :
    pc[q] = "idle" /\ pc'[q] = "idle" /\ kind'[q] = kind[q] /\ sb'[q] = sb[q]

Acts(p) ==
  \/ Destroy(p) \/ \E k \in Kinds : Create(p, k) \/ GenerateMFA(p, k)
  \/ Step(p)
  \/ Crash(p)

LEMMA LoneActs ==
  ASSUME TypeOK, OneByOne, Alone, NEW p \in Procs, Acts(p)
  PROVE  Lone(p)
<1>1. CASE Destroy(p) \/ \E k \in Kinds : Create(p, k) \/ GenerateMFA(p, k)
  <2>1. \A q \in Procs : pc[q] = "idle"
    BY <1>1, BeginsAlone DEF Destroy, Create, GenerateMFA
  <2> QED
    BY <1>1, <2>1 DEF Lone, Destroy, Create, GenerateMFA, Begin, TypeOK
<1>2. CASE Step(p) \/ Crash(p)
  <2>1. pc[p] # "idle"
    BY <1>2
    DEF Step, NothingToReuse, Reuse, Reverify, Resave, RejectOtherActive, Authorize, Provisioned,
        CreateFails, Committed, CommitFails, Rollback, Verify, Save, CachedSlug, Destroyed,
        DestroyFails, ClearAll, CachedForMFA, MFACode, Crash
  <2>2. \A q \in Procs \ {p} : pc[q] = "idle"
    BY <2>1 DEF Alone
  <2>3. \/ \E step \in Steps : Goto(p, step) \/ HaltedTo(p, step)
        \/ \E e, step : Hold(p, e, step)
        \/ \E o \in Outcomes : End(p, o)
        \/ CachedSlug(p)
    <3>1. {"reject", "auth", "create", "destroy", "rollback", "clearAll", "mfaAuth", "mfaCode",
           "verify"} \subseteq Steps
      BY DEF Steps
    <3>2. Outcomes = {"none", "created", "reused", "unverified", "activeOther", "failed",
                      "destroyed", "noActive", "code", "crashed"}
      BY DEF Outcomes
    <3> QED
      BY <1>2, <3>1, <3>2
      DEF Step, NothingToReuse, Reuse, Reverify, Resave, RejectOtherActive, Authorize,
          Provisioned, CreateFails, Committed, CommitFails, Rollback, Verify, Save, Destroyed,
          DestroyFails, ClearAll, CachedForMFA, MFACode, Crash
  <2> QED
    BY <2>2, <2>3 DEF Lone, Goto, HaltedTo, Hold, End, CachedSlug, TypeOK
<1> QED
  BY <1>1, <1>2 DEF Acts

-----------------------------------------------------------------------------
(* What a command has seen and does not change stays so.                   *)
Waned == Onward /\ \A i \in Ids : Running(i)' => Running(i)

LEMMA SoleKeeps ==
  ASSUME TypeOK, Waned, NEW k \in Kinds, cache'[k].id = cache[k].id, Sole(k)
  PROVE  Sole(k)'
  BY DEF Sole, Waned

LEMMA OrderlyKeeps ==
  ASSUME TypeOK, TypeOK', Waned, Orderly, UNCHANGED <<cache, env>>
  PROVE  Orderly'
<1> SUFFICES ASSUME ~Faulty("load")
             PROVE  /\ \A k, l \in Kinds : Fresh(cache[k])' /\ Fresh(cache[l])' => k = l
                    /\ \A k \in Kinds : Fresh(cache[k])' => Sole(k)'
  BY DEF Orderly, Faulty, Fresh, Sole
<1>1. \A k \in Kinds : Fresh(cache[k])' => Fresh(cache[k])
  BY Ageing DEF Waned
<1> QED
  BY <1>1, SoleKeeps DEF Orderly

LEMMA SeenKeeps ==
  ASSUME TypeOK, TypeOK', Waned, UNCHANGED <<cache, env>>, NEW p \in Procs, Seen(p),
         pc'[p] \in Placing => pc[p] \in Placing /\ sb'[p].id = sb[p].id,
         pc'[p] = "clearAll" => pc[p] = "clearAll",
         pc'[p] \in Reusing =>
           pc[p] \in Reusing /\ sb'[p].id = sb[p].id /\ sb'[p].expires = sb[p].expires,
         pc'[p] \in Making => pc[p] \in Making,
         pc'[p] \in Renewing => pc[p] \in Renewing,
         pc'[p] \in Coding => pc[p] \in Coding,
         pc'[p] \in Making \cup Renewing \cup Coding => kind'[p] = kind[p]
  PROVE  Seen(p)'
<1>1. pc'[p] \in Placing => \A i \in Ids : Running(i)' => i = sb'[p].id
  BY DEF Waned, Seen
<1>2. pc'[p] = "clearAll" => \A i \in Ids : ~Running(i)'
  BY DEF Waned, Seen
<1>3. pc'[p] \in Reusing =>
        /\ cache'[kind'[p]] # NoEntry
        /\ sb'[p].id = cache'[kind'[p]].id /\ sb'[p].expires = cache'[kind'[p]].expires
  BY DEF Seen, Making
<1>4. \A k \in Kinds : Fresh(cache[k])' => Fresh(cache[k])
  BY Ageing DEF Waned
<1>5. kind[p] \in Kinds
  BY DEF TypeOK
<1>6. Faulty("load")' = Faulty("load")
  BY DEF Faulty
<1>7. ASSUME ~Faulty("load"), pc'[p] \in Making
      PROVE  \A k \in Kinds \ {kind'[p]} : ~Fresh(cache[k])'
  BY <1>4, <1>7 DEF Seen
<1>8. ASSUME ~Faulty("load"), pc'[p] \in Renewing
      PROVE  ~Fresh(cache[kind[p]])'
  <2>1. kind'[p] = kind[p] /\ ~Fresh(cache[kind[p]])
    BY <1>8 DEF Seen
  <2> QED
    BY <1>4, <1>5, <2>1 DEF Fresh
<1>9. ASSUME ~Faulty("load"), pc'[p] \in Coding
      PROVE  cache'[kind'[p]] # NoEntry /\ Sole(kind[p])' /\ kind'[p] = kind[p]
  BY <1>5, <1>9, SoleKeeps DEF Seen
<1> QED
  <2>1. /\ ~Faulty("load")' =>
             /\ (pc[p] \in Making)' => \A k \in Kinds \ {kind'[p]} : ~Fresh(cache[k])'
             /\ (pc[p] \in Renewing)' => ~Fresh(cache[kind[p]])'
             /\ (pc[p] \in Coding)' => (cache[kind[p]] # NoEntry)' /\ Sole(kind[p])'
    BY <1>6, <1>7, <1>8, <1>9 DEF Making, Renewing, Coding, Reusing
  <2> QED
    BY <1>1, <1>2, <1>3, <2>1 DEF Seen, Making, Renewing, Coding, Reusing, Placing

(* Only what p has seen, and the cache, are in question.                   *)
LEMMA Around ==
  ASSUME TypeOK, NEW p \in Procs, Lone(p), Orderly', Seen(p)'
  PROVE  Serial'
<1>1. Alone'
  BY DEF Lone, Alone
<1>2. \A q \in Procs \ {p} : Seen(q)'
  <2>1. \A q \in Procs \ {p} : pc'[q] = "idle"
    BY DEF Lone
  <2> QED
    BY <2>1 DEF Seen, Placing, Reusing, Making, Renewing, Coding
<1> QED
  BY <1>1, <1>2 DEF Serial

(* Steps to where nothing has been seen yet, or is needed any more.        *)
LEMMA Blank ==
  ASSUME NEW p \in Procs,
         pc'[p] \notin Placing \cup Reusing \cup Making \cup Renewing \cup Coding \cup {"clearAll"}
  PROVE  Seen(p)'
  BY DEF Seen

LEMMA EndsBlank ==
  ASSUME TypeOK, NEW p \in Procs, NEW o, End(p, o)
  PROVE  Seen(p)'
<1>1. pc'[p] = "idle"
  BY DEF End, TypeOK
<1> QED
  BY <1>1, Blank DEF Placing, Reusing, Making, Renewing, Coding

(* The entry that is saved is of what runs, and it is the only fresh one.  *)
LEMMA Saving ==
  ASSUME TypeOK, TypeOK', Waned, Orderly, NEW p \in Procs, UNCHANGED <<now, boxes, env>>,
         SaveToCache(p),
         ~Faulty("load") =>
           /\ \A k \in Kinds \ {kind[p]} : ~Fresh(cache[k])
           /\ Fresh(sb[p]) => \A i \in Ids : Running(i) => i = sb[p].id
  PROVE  Orderly'
<1>1. CASE UNCHANGED cache
  BY <1>1, OrderlyKeeps
<1>2. CASE cache' = [cache EXCEPT ![kind[p]] = sb[p]]
  <2> SUFFICES ASSUME ~Faulty("load")
               PROVE  /\ \A k, l \in Kinds : Fresh(cache[k])' /\ Fresh(cache[l])' => k = l
                      /\ \A k \in Kinds : Fresh(cache[k])' => Sole(k)'
    BY DEF Orderly, Faulty, Fresh, Sole
  <2>1. kind[p] \in Kinds /\ cache'[kind[p]] = sb[p]
    BY <1>2 DEF TypeOK
  <2>2. \A k \in Kinds \ {kind[p]} : cache'[k] = cache[k]
    BY <1>2 DEF TypeOK
  <2>3. \A k \in Kinds : Fresh(cache[k])' => k = kind[p]
    BY <2>2 DEF Fresh
  <2>4. ASSUME NEW k \in Kinds, Fresh(cache[k])' PROVE Sole(k)'
    <3>1. k = kind[p] /\ cache'[k] = sb[p]
      BY <2>1, <2>3, <2>4
    <3>2. Fresh(sb[p])
      BY <2>4, <3>1 DEF Fresh
    <3> QED
      BY <3>1, <3>2 DEF Sole, Running
  <2> QED
    BY <2>3, <2>4
<1> QED
  BY <1>1, <1>2 DEF SaveToCache

(* Steps that look at nothing new.                                         *)
LEMMA QuietActs ==
  ASSUME TypeOK, TypeOK', Waned, Orderly, NEW p \in Procs, Seen(p),
         UNCHANGED env,
         \/ Destroy(p) \/ \E k \in Kinds : Create(p, k) \/ GenerateMFA(p, k)
         \/ Reverify(p)
         \/ Authorize(p, "auth", "create")
         \/ Authorize(p, "destroyAuth", "destroy")
         \/ Authorize(p, "mfaAuth", "mfaCode")
         \/ CreateFails(p) \/ Committed(p) \/ CommitFails(p) \/ Rollback(p) \/ Verify(p)
         \/ CachedSlug(p) \/ DestroyFails(p) \/ MFACode(p) \/ Crash(p)
  PROVE  Orderly' /\ Seen(p)'
<1> USE Blank, EndsBlank DEF Placing, Reusing, Making, Renewing, Coding
<1>1. UNCHANGED cache
  BY DEF Destroy, Create, GenerateMFA, Begin, Reverify, Authorize, CreateFails, Committed,
         CommitFails, Rollback, Verify, CachedSlug, DestroyFails, MFACode, Crash
<1>2. Orderly'
  BY <1>1, OrderlyKeeps
<1>t. pc \in [Procs -> Steps] /\ sb \in [Procs -> Entries \cup {NoEntry}] /\ kind \in [Procs -> Kinds]
  BY DEF TypeOK
<1>3. CASE Destroy(p) \/ \E k \in Kinds : Create(p, k) \/ GenerateMFA(p, k)
  <2>1. pc'[p] \in {"slug", "reuse", "mfa"}
    BY <1>3, <1>t DEF Destroy, Create, GenerateMFA, Begin
  <2> QED
    BY <1>2, <2>1
<1>4. CASE Reverify(p) \/ Verify(p)
  <2>1. CASE \E o : End(p, o)
    BY <1>2, <2>1
  <2>2. CASE \E v \in BOOLEAN :
               \/ Hold(p, [sb[p] EXCEPT !.verified = v], "resave") /\ pc[p] = "reverify"
               \/ Hold(p, [sb[p] EXCEPT !.verified = v], "save") /\ pc[p] = "verify"
    <3>1. sb[p] \in Entries
      BY <2>2 DEF TypeOK
    <3>2. /\ kind'[p] = kind[p] /\ sb'[p].id = sb[p].id /\ sb'[p].expires = sb[p].expires
          /\ \/ pc[p] = "reverify" /\ pc'[p] = "resave"
             \/ pc[p] = "verify" /\ pc'[p] = "save"
      BY <1>t, <2>2, <3>1 DEF Hold, Entries
    <3> QED
      BY <1>1, <1>2, <3>2, SeenKeeps
  <2> QED
    BY <1>4, <2>1, <2>2 DEF Reverify, Verify, Verdicts
<1>5. CASE \/ Authorize(p, "auth", "create")
           \/ Authorize(p, "destroyAuth", "destroy")
           \/ Authorize(p, "mfaAuth", "mfaCode")
           \/ Committed(p) \/ CommitFails(p)
  <2>1. CASE \E o : End(p, o)
    BY <1>2, <2>1
  <2>2. CASE \/ pc[p] = "auth" /\ Goto(p, "create")
             \/ pc[p] = "destroyAuth" /\ Goto(p, "destroy")
             \/ pc[p] = "mfaAuth" /\ Goto(p, "mfaCode")
             \/ pc[p] = "commit" /\ (Goto(p, "verify") \/ Goto(p, "rollback"))
             \/ pc[p] = "commit" /\ HaltedTo(p, "rollback")
    <3>1. /\ kind'[p] = kind[p] /\ sb'[p] = sb[p]
          /\ \/ pc[p] = "auth" /\ pc'[p] = "create"
             \/ pc[p] = "destroyAuth" /\ pc'[p] = "destroy"
             \/ pc[p] = "mfaAuth" /\ pc'[p] = "mfaCode"
             \/ pc[p] = "commit" /\ pc'[p] \in {"verify", "rollback"}
      BY <1>t, <2>2 DEF Goto, HaltedTo
    <3> QED
      BY <1>1, <1>2, <3>1, SeenKeeps
  <2> QED
    BY <1>5, <2>1, <2>2 DEF Authorize, Committed, CommitFails
<1>6. CASE CreateFails(p) \/ Rollback(p) \/ DestroyFails(p) \/ MFACode(p) \/ Crash(p)
  <2>1. \E o : End(p, o)
    BY <1>6 DEF CreateFails, Rollback, DestroyFails, MFACode, Crash
  <2> QED
    BY <1>2, <2>1
<1>7. CASE CachedSlug(p)
  <2>1. pc'[p] = "destroyAuth"
    BY <1>7, <1>t DEF CachedSlug
  <2> QED
    BY <1>2, <2>1
<1> QED
  BY <1>3, <1>4, <1>5, <1>6, <1>7

(* Steps that look at the cache.                                           *)
LEMMA CacheRead ==
  ASSUME TypeOK, TypeOK', Waned, Orderly, NEW p \in Procs, Seen(p),
         UNCHANGED env,
         NothingToReuse(p) \/ Reuse(p) \/ RejectOtherActive(p) \/ CachedForMFA(p)
  PROVE  Orderly' /\ Seen(p)'
<1> USE Blank, EndsBlank DEF Placing, Reusing, Making, Renewing, Coding
<1>1. UNCHANGED <<cache, now, boxes>> /\ Faulty("load")' = Faulty("load")
  BY DEF NothingToReuse, Reuse, RejectOtherActive, CachedForMFA, Faulty
<1>2. Orderly'
  BY <1>1, OrderlyKeeps
<1>t. /\ pc \in [Procs -> Steps] /\ sb \in [Procs -> Entries \cup {NoEntry}]
      /\ kind \in [Procs -> Kinds] /\ kind[p] \in Kinds
  BY DEF TypeOK
<1>3. CASE NothingToReuse(p)
  <2>1. pc'[p] = "reject" /\ kind'[p] = kind[p] /\ (~Fresh(cache[kind[p]]) \/ Faulty("load"))
    BY <1>3, <1>t DEF NothingToReuse, Goto
  <2> QED
    BY <1>1, <1>2, <2>1 DEF Seen, Fresh
<1>4. CASE Reuse(p)
  <2>1. CASE End(p, "reused")
    BY <1>2, <2>1
  <2>2. CASE Hold(p, cache[kind[p]], "reverify")
    <3>1. /\ pc'[p] = "reverify" /\ kind'[p] = kind[p] /\ sb'[p] = cache[kind[p]]
          /\ cache[kind[p]] # NoEntry /\ Fresh(cache[kind[p]])
      BY <1>4, <1>t, <2>2 DEF Reuse, Hold, Fresh
    <3>2. ~Faulty("load") => \A k \in Kinds \ {kind[p]} : ~Fresh(cache[k])
      BY <1>t, <3>1 DEF Orderly
    <3> QED
      BY <1>1, <1>2, <3>1, <3>2 DEF Seen, Fresh
  <2> QED
    BY <1>4, <2>1, <2>2 DEF Reuse
<1>5. CASE RejectOtherActive(p)
  <2>1. CASE End(p, "activeOther")
    BY <1>2, <2>1
  <2>2. CASE (~OtherFresh(p) \/ Faulty("load")) /\ Goto(p, "auth")
    <3>1. pc[p] = "reject" /\ pc'[p] = "auth" /\ kind'[p] = kind[p]
      BY <1>5, <1>t, <2>2 DEF RejectOtherActive, Goto
    <3>2. ~Faulty("load") => \A k \in Kinds \ {kind[p]} : ~Fresh(cache[k])
      BY <2>2 DEF OtherFresh
    <3>3. ~Faulty("load") => ~Fresh(cache[kind[p]])
      BY <3>1 DEF Seen
    <3> QED
      BY <1>1, <1>2, <3>1, <3>2, <3>3 DEF Seen, Fresh
  <2> QED
    BY <1>5, <2>1, <2>2 DEF RejectOtherActive
<1>6. CASE CachedForMFA(p)
  <2>1. CASE End(p, "failed")
    BY <1>2, <2>1
  <2>2. CASE Fresh(cache[kind[p]]) /\ Goto(p, "mfaAuth")
    <3>1. pc'[p] = "mfaAuth" /\ kind'[p] = kind[p] /\ cache[kind[p]] # NoEntry
      BY <1>t, <2>2 DEF Goto, Fresh
    <3>2. ~Faulty("load") => Sole(kind[p])
      BY <1>t, <2>2 DEF Orderly
    <3> QED
      BY <1>1, <1>2, <3>1, <3>2 DEF Seen, Sole, Running
  <2> QED
    BY <1>6, <2>1, <2>2 DEF CachedForMFA
<1> QED
  BY <1>3, <1>4, <1>5, <1>6

(* A sandbox is provisioned: the only one that runs, of a kind that is not *)
(* cached fresh.                                                           *)
LEMMA ProvisionedSeen ==
  ASSUME TypeOK, TypeOK', Orderly, NEW p \in Procs, Seen(p), UNCHANGED env, Provisioned(p)
  PROVE  Orderly' /\ Seen(p)'
<1>1. PICK i \in Ids, end \in Ends :
             /\ Provision(i, kind[p], end)
             /\ \/ \E e \in Resolved(end) : Hold(p, Entry(i, FALSE, e), "commit")
                \/ End(p, "failed")
  BY DEF Provisioned
<1>2. /\ pc[p] = "create" /\ kind[p] \in Kinds /\ UNCHANGED <<now, cache>>
      /\ Faulty("load")' = Faulty("load")
  BY DEF Provisioned, TypeOK, Faulty
<1>3. \A j \in Ids : Running(j)' => j = i
  BY <1>1, <1>2, Provisioning
<1>5. Orderly'
  <2> SUFFICES ASSUME ~Faulty("load")
               PROVE  /\ \A k, l \in Kinds : Fresh(cache[k])' /\ Fresh(cache[l])' => k = l
                      /\ \A k \in Kinds : Fresh(cache[k])' => Sole(k)'
    BY <1>2 DEF Orderly
  <2>1. \A k \in Kinds : ~Fresh(cache[k])
    BY <1>2 DEF Seen, Making, Renewing
  <2> QED
    BY <1>2, <2>1 DEF Fresh
<1>6. CASE End(p, "failed")
  BY <1>5, <1>6, EndsBlank
<1>7. ASSUME NEW e \in Resolved(end), Hold(p, Entry(i, FALSE, e), "commit")
      PROVE  Orderly' /\ Seen(p)'
  <2>1. pc'[p] = "commit" /\ kind'[p] = kind[p] /\ sb'[p].id = i
    BY <1>7 DEF Hold, Entry, TypeOK
  <2>2. ~Faulty("load") => \A k \in Kinds : ~Fresh(cache[k])
    BY <1>2 DEF Seen, Making, Renewing
  <2>3. \A k \in Kinds : Fresh(cache[k])' <=> Fresh(cache[k])
    BY <1>2 DEF Fresh
  <2>4. Fresh(cache[kind[p]])' <=> Fresh(cache[kind[p]])
    BY <1>2, <2>1 DEF Fresh
  <2> QED
    BY <1>2, <1>3, <1>5, <2>1, <2>2, <2>3, <2>4
       DEF Seen, Making, Renewing, Placing, Reusing, Coding
<1> QED
  BY <1>1, <1>6, <1>7

(* What is found and torn down was the only one.                           *)
LEMMA DestroyedSeen ==
  ASSUME TypeOK, TypeOK', Waned, AtMostOne, Orderly, NEW p \in Procs, Seen(p), UNCHANGED env,
         Destroyed(p)
  PROVE  Orderly' /\ Seen(p)'
<1>1. Orderly'
  BY OrderlyKeeps DEF Destroyed
<1>2. CASE \E o : End(p, o)
  BY <1>1, <1>2, EndsBlank
<1>3. CASE Terminate(kind[p]) /\ Goto(p, "clearAll")
  <2>1. pc'[p] = "clearAll" /\ now' = now
    BY <1>3 DEF Destroyed, Goto, TypeOK
  <2>2. PICK i \in Ids : i \in Owned(kind[p])
    BY <1>3 DEF Terminate, Owned
  <2>3. Running(i) /\ boxes'[i].state = "ended"
    BY <1>3, <2>2 DEF Terminate, Owned, Registered, Running, TypeOK, Box
  <2>4. \A j \in Ids : ~Running(j)'
    BY <2>3 DEF AtMostOne, Waned, Running
  <2> QED
    BY <1>1, <2>1, <2>4 DEF Seen, Making, Renewing, Placing, Reusing, Coding
<1> QED
  BY <1>2, <1>3 DEF Destroyed

(* The cache is written: with what p holds, or with nothing at all.        *)
LEMMA CacheWritten ==
  ASSUME TypeOK, TypeOK', Waned, Orderly, NEW p \in Procs, Seen(p), UNCHANGED env,
         Save(p) \/ Resave(p) \/ ClearAll(p)
  PROVE  Orderly' /\ Seen(p)'
<1>1. Seen(p)' /\ UNCHANGED <<now, boxes>>
  BY EndsBlank DEF Save, Resave, ClearAll
<1>2. CASE Save(p)
  <2>1. ~Faulty("load") =>
          /\ \A k \in Kinds \ {kind[p]} : ~Fresh(cache[k])
          /\ \A i \in Ids : Running(i) => i = sb[p].id
    BY <1>2 DEF Save, Seen, Making, Renewing, Placing
  <2> QED
    BY <1>1, <1>2, <2>1, Saving DEF Save
<1>3. CASE Resave(p)
  <2>1. /\ kind[p] \in Kinds
        /\ cache[kind[p]] # NoEntry
        /\ sb[p].id = cache[kind[p]].id /\ sb[p].expires = cache[kind[p]].expires
    BY <1>3 DEF Resave, Seen, Reusing, TypeOK
  <2>2. ~Faulty("load") => \A k \in Kinds \ {kind[p]} : ~Fresh(cache[k])
    BY <1>3 DEF Resave, Seen, Making, Reusing
  <2>3. Fresh(sb[p]) => Fresh(cache[kind[p]])
    BY <2>1 DEF Fresh
  <2>4. ~Faulty("load") /\ Fresh(sb[p]) =>
          \A i \in Ids : Running(i) => i = sb[p].id
    BY <2>1, <2>3 DEF Orderly, Sole
  <2> QED
    BY <1>1, <1>3, <2>2, <2>4, Saving DEF Resave
<1>4. CASE ClearAll(p)
  <2>1. CASE cache' = [k \in Kinds |-> NoEntry]
    BY <1>1, <2>1 DEF Orderly, Fresh
  <2> QED
    BY <1>1, <1>4, <2>1, OrderlyKeeps DEF ClearAll
<1> QED
  BY <1>2, <1>3, <1>4

LEMMA SerialStep ==
  ASSUME TypeOK, TypeOK', AtMostOne, OneByOne, Serial, [Next]_vars
  PROVE  Serial'
<1>1. Onward /\ UNCHANGED env
  BY NextOnward DEF Next, vars
<1>w. \/ UNCHANGED <<now, boxes>>
      \/ Tick
      \/ (\E k \in Kinds : Register(k) \/ Terminate(k)) /\ UNCHANGED now
      => Waned
  BY <1>1, Waning DEF Waned
<1>2. CASE UNCHANGED <<cache, pc, kind, sb>> /\ Waned
  <2>1. Orderly'
    BY <1>1, <1>2, OrderlyKeeps DEF Serial
  <2>2. \A p \in Procs : Seen(p)'
    BY <1>1, <1>2, SeenKeeps DEF Serial
  <2> QED
    BY <1>2, <2>1, <2>2 DEF Serial, Alone
<1>3. CASE UNCHANGED vars
  BY <1>2, <1>3, <1>w DEF vars, local
<1>4. CASE Environment
  BY <1>2, <1>4, <1>w DEF Environment, EndUpstream, local
<1>5. ASSUME NEW p \in Procs, Interrupt(p) PROVE Serial'
  BY <1>2, <1>5, <1>w DEF Interrupt
<1>6. ASSUME NEW p \in Procs, Acts(p) PROVE Serial'
  <2>1. Lone(p) /\ Seen(p) /\ Orderly
    BY <1>6, LoneActs DEF Serial
  <2>2. CASE Provisioned(p)
    BY <1>1, <2>1, <2>2, ProvisionedSeen, Around
  <2>3. CASE ~Provisioned(p)
    <3>1. Waned
      <4>1. CASE Committed(p) \/ Rollback(p) \/ Destroyed(p)
        <5>1. kind[p] \in Kinds
          BY DEF TypeOK
        <5> QED
          BY <1>w, <4>1, <5>1 DEF Committed, Rollback, Destroyed
      <4> QED
        BY <1>6, <1>w, <2>3, <4>1
        DEF Acts, Step, Create, Destroy, Begin, NothingToReuse, Reuse, Reverify, Resave,
            RejectOtherActive, Authorize, CreateFails, CommitFails, Verify, Save, CachedSlug,
            DestroyFails, ClearAll, GenerateMFA, CachedForMFA, MFACode, Crash
    <3>2. Orderly' /\ Seen(p)'
      BY <1>1, <1>6, <2>1, <2>3, <3>1, QuietActs, CacheRead, DestroyedSeen, CacheWritten
         DEF Acts, Step
    <3> QED
      BY <2>1, <3>2, Around
  <2> QED
    BY <2>2, <2>3
<1> QED
  BY <1>3, <1>4, <1>5, <1>6 DEF Next, Acts

LEMMA SerialInvStep == SerialInv /\ [Next]_vars => SerialInv'
<1> SUFFICES ASSUME SerialInv, [Next]_vars PROVE SerialInv'
  OBVIOUS
<1>1. Inv' /\ AtMostOne' /\ TypeOK /\ TypeOK'
  BY InvStep, AtMostOneStep DEF SerialInv, Inv
<1>2. OneByOne' = OneByOne
  BY DEF Next, vars, OneByOne
<1> QED
  BY <1>1, <1>2, SerialStep DEF SerialInv

LEMMA SerialInvInit == Init => SerialInv
<1> SUFFICES ASSUME Init PROVE SerialInv
  OBVIOUS
<1>1. Inv
  BY InitTypes DEF Init, Inv, CacheVouched, HeldVouched, Held
<1>2. \A i \in Ids : ~Running(i)
  BY DEF Init, BrokerInit, Running
<1>3. \A k \in Kinds : ~Fresh(cache[k])
  BY DEF Init, Fresh
<1>4. \A p \in Procs : pc[p] = "idle"
  BY DEF Init
<1> QED
  BY <1>1, <1>2, <1>3, <1>4
     DEF SerialInv, AtMostOne, Serial, Alone, Orderly, Seen, Placing, Reusing, Making, Renewing, Coding

LEMMA SerialInvHolds == Spec => []SerialInv
  BY SerialInvInit, SerialInvStep, PTL DEF Spec

-----------------------------------------------------------------------------
(***************************************************************************)
(* Two kinds are never cached fresh at once while commands run one by one  *)
(* and the cache can be read; of two that overlapping commands have        *)
(* cached, at most one still runs.                                         *)
(***************************************************************************)
THEOREM OneKindAtATime == Spec => []OneFreshKind
<1>1. SerialInv => OneFreshKind
  <2> SUFFICES ASSUME SerialInv, NEW k \in Kinds, NEW l \in Kinds,
                      Fresh(cache[k]), Fresh(cache[l]), k # l
               PROVE  /\ OneByOne => Faulty("load")
                      /\ ~(Running(cache[k].id) /\ Running(cache[l].id))
    BY DEF OneFreshKind
  <2>1. OneByOne => Faulty("load")
    BY DEF SerialInv, Serial, Orderly
  <2>2. boxes[cache[k].id].kind # boxes[cache[l].id].kind
    BY InvGivesRegistered DEF SerialInv, FreshIsRegistered
  <2>3. cache[k].id \in Ids /\ cache[l].id \in Ids
    BY DEF SerialInv, Inv, TypeOK, Fresh, Entries
  <2> QED
    BY <2>1, <2>2, <2>3 DEF SerialInv, AtMostOne
<1> QED
  BY <1>1, SerialInvHolds, PTL

(***************************************************************************)
(* While commands run one by one and the cache can be read, nothing runs   *)
(* but what the fresh entry names, whatever fails or is interrupted, with  *)
(* its effect or without, and whatever times the broker gives.             *)
(***************************************************************************)
THEOREM NothingBesides == Spec => []NothingElseRuns
<1>1. SerialInv => NothingElseRuns
  BY DEF SerialInv, Serial, Orderly, Sole, NothingElseRuns
<1> QED
  BY <1>1, SerialInvHolds, PTL

(***************************************************************************)
(* While commands run one by one, whatever fails, the cached entry of a    *)
(* sandbox that runs is neither removed nor overwritten.                   *)
(***************************************************************************)
THEOREM CredentialsKept == Spec => RunningIsKept
<1> DEFINE Kept == \A k \in Kinds : OneByOne /\ Fresh(cache[k]) /\ Running(cache[k].id) =>
                     cache'[k] # NoEntry /\ cache'[k].id = cache[k].id
<1>1. SerialInv /\ [Next]_vars => [Kept]_vars
  <2> SUFFICES ASSUME SerialInv, [Next]_vars, NEW k \in Kinds,
                      OneByOne, Fresh(cache[k]), Running(cache[k].id)
               PROVE  cache'[k] # NoEntry /\ cache'[k].id = cache[k].id
    OBVIOUS
  <2>1. Serial /\ TypeOK /\ cache[k] # NoEntry /\ cache[k].id \in Ids
    BY DEF SerialInv, Inv, TypeOK, Fresh, Entries
  <2>2. CASE UNCHANGED cache
    BY <2>1, <2>2
  <2>3. ASSUME NEW p \in Procs, Save(p) \/ Resave(p)
        PROVE  cache'[k] # NoEntry /\ cache'[k].id = cache[k].id
    <3>1. CASE k # kind[p]
      BY <2>1, <2>3, <3>1 DEF Save, Resave, SaveToCache, TypeOK
    <3>2. CASE k = kind[p]
      <4>1. sb[p] # NoEntry
        BY <2>1, <2>3 DEF Save, Resave, TypeOK
      <4>2. sb[p].id = cache[k].id
        BY <2>1, <2>3, <3>2 DEF Save, Resave, Serial, Seen, Placing, Reusing
      <4> QED
        BY <2>1, <2>3, <3>2, <4>1, <4>2 DEF Save, Resave, SaveToCache, TypeOK
    <3> QED
      BY <3>1, <3>2
  <2>4. ASSUME NEW p \in Procs, ClearAll(p) PROVE FALSE
    BY <2>1, <2>4 DEF ClearAll, Serial, Seen
  <2> QED
    BY <2>2, <2>3, <2>4
       DEF Next, Step, vars, Create, Destroy, Begin, NothingToReuse, Reuse, Reverify,
           RejectOtherActive, Authorize, Provisioned, CreateFails, Committed, CommitFails,
           Rollback, Verify, CachedSlug, Destroyed, DestroyFails, GenerateMFA, CachedForMFA,
           MFACode, Interrupt, Crash, Environment
<1> QED
  BY <1>1, SerialInvHolds, PTL DEF Spec, RunningIsKept

-----------------------------------------------------------------------------
(* A command at work has no outcome yet.                                   *)
Working == \A p \in Procs : pc[p] # "idle" => out[p] = "none"

LEMMA WorkingStep == TypeOK /\ Working /\ [Next]_vars => Working'
<1> SUFFICES ASSUME TypeOK, Working, [Next]_vars PROVE Working'
  OBVIOUS
<1>1. ASSUME NEW p \in Procs, NEW step, NEW k, Begin(p, step, k) PROVE Working'
  BY <1>1 DEF Begin, Working, TypeOK
<1>2. ASSUME NEW p \in Procs, NEW o, End(p, o) PROVE Working'
  BY <1>2 DEF End, Working, TypeOK
<1>3. ASSUME NEW p \in Procs, CachedSlug(p) PROVE Working'
  BY <1>3 DEF CachedSlug, Working, TypeOK
<1>4. ASSUME UNCHANGED <<pc, out>> PROVE Working'
  BY <1>4 DEF Working
<1>5. CASE Environment \/ UNCHANGED vars \/ \E p \in Procs : Interrupt(p)
  BY <1>4, <1>5 DEF Environment, vars, local, Interrupt
<1>6. ASSUME NEW p \in Procs, Acts(p) PROVE Working'
  <2>1. CASE Destroy(p) \/ \E k \in Kinds : Create(p, k) \/ GenerateMFA(p, k)
    BY <1>1, <2>1 DEF Destroy, Create, GenerateMFA
  <2>2. CASE (Step(p) /\ ~CachedSlug(p)) \/ Crash(p)
    <3>1. /\ pc[p] # "idle"
          /\ \/ \E step : Goto(p, step) \/ HaltedTo(p, step)
             \/ \E e, step : Hold(p, e, step)
             \/ \E o : End(p, o)
      BY <2>2
      DEF Step, NothingToReuse, Reuse, Reverify, Resave, RejectOtherActive, Authorize, Provisioned,
          CreateFails, Committed, CommitFails, Rollback, Verify, Save, Destroyed,
          DestroyFails, ClearAll, CachedForMFA, MFACode, Crash
    <3>2. CASE \E e, step : Hold(p, e, step)
      <4>1. PICK e, step : Hold(p, e, step)
        BY <3>2
      <4> QED
        BY <3>1, <4>1 DEF Hold, Working, TypeOK
    <3>3. CASE \E step : Goto(p, step) \/ HaltedTo(p, step)
      <4>1. PICK step : Goto(p, step) \/ HaltedTo(p, step)
        BY <3>3
      <4> QED
        BY <3>1, <4>1 DEF Goto, HaltedTo, Working, TypeOK
    <3>4. CASE \E o : End(p, o)
      BY <1>2, <3>4
    <3> QED
      BY <3>1, <3>2, <3>3, <3>4
  <2> QED
    BY <1>3, <1>6, <2>1, <2>2 DEF Acts
<1> QED
  BY <1>5, <1>6 DEF Next, Acts

LEMMA WorkingHolds == Spec => [](SerialInv /\ Working)
<1>1. Init => Working
  BY DEF Init, Working
<1>2. SerialInv => TypeOK
  BY DEF SerialInv, Inv
<1> QED
  BY <1>1, <1>2, SerialInvHolds, WorkingStep, PTL DEF Spec

(***************************************************************************)
(* While commands run one by one and the cache can be read, the code that  *)
(* mfa prints is for the sandbox whose credentials are cached.             *)
(***************************************************************************)
THEOREM CodesMatch == Spec => CodeIsForCached
<1> DEFINE Match(p) == OneByOne /\ ~Faulty("load") /\ pc[p] = "mfaCode" /\ out'[p] = "code" =>
                         cache[kind[p]] # NoEntry /\ cache[kind[p]].id \in Owned(kind[p])
<1>1. SerialInv /\ Working /\ [Next]_vars => [\A p \in Procs : Match(p)]_vars
  <2> SUFFICES ASSUME SerialInv, Working, [Next]_vars, NEW p \in Procs,
                      OneByOne, ~Faulty("load"), pc[p] = "mfaCode", out'[p] = "code"
               PROVE  cache[kind[p]] # NoEntry /\ cache[kind[p]].id \in Owned(kind[p])
    OBVIOUS
  <2>1. Serial /\ TypeOK /\ out[p] = "none"
    BY DEF SerialInv, Inv, Working
  <2>2. cache[kind[p]] # NoEntry /\ Sole(kind[p])
    BY <2>1 DEF Serial, Seen, Coding
  <2>3. MFACode(p)
    <3>1. \A q \in Procs : pc[q] # "idle" => q = p
      BY <2>1 DEF Serial, Alone
    <3>2. \A q \in Procs : Acts(q) => q = p
      BY <2>1, LoneActs DEF Serial, Lone
    <3>3. ~UNCHANGED out
      BY <2>1
    <3>4. Acts(p)
      BY <3>2, <3>3 DEF Next, Acts, Environment, Interrupt, vars, local
    <3>5. ~Crash(p)
      BY <2>1 DEF Crash, End, TypeOK
    <3> QED
      BY <3>4, <3>5
      DEF Acts, Create, GenerateMFA, Destroy, Begin, Step, NothingToReuse, Reuse, Reverify, Resave,
          RejectOtherActive, Authorize, Provisioned, CreateFails, Committed, CommitFails, Rollback,
          Verify, Save, CachedSlug, Destroyed, DestroyFails, ClearAll, CachedForMFA
  <2>4. Owned(kind[p]) # {}
    BY <2>1, <2>3 DEF MFACode, End, TypeOK
  <2> QED
    BY <2>2, <2>4 DEF Sole, Owned, Registered, Running
<1> QED
  BY <1>1, WorkingHolds, PTL DEF Spec, CodeIsForCached

-----------------------------------------------------------------------------
(* With refusals only: the fresh entries are what the account has, except  *)
(* while a command has a new sandbox that it must still save, or has torn  *)
(* one down and must still clear.                                          *)
Matched == \A i \in Ids : Registered(i) <=> \E k \in Kinds : Fresh(cache[k]) /\ cache[k].id = i

Reflects(p) ==
  /\ pc[p] \in Placing => \A k \in Kinds : ~Fresh(cache[k])
  /\ pc[p] = "commit" => boxes[sb[p].id].state = "provisioned"
  /\ pc[p] \in {"verify", "save"} =>
       \A i \in Ids : Registered(i) <=> i = sb[p].id /\ now < sb[p].expires

Mirror ==
  /\ (\A p \in Procs : pc[p] \notin Owing) => Matched
  /\ \A p \in Procs : Reflects(p)

MirrorInv == SerialInv /\ Working /\ (OnlyRefusals => Mirror)

LEMMA Harmless ==
  ASSUME OnlyRefusals
  PROVE  /\ \A f \in {"lost", "times", "save", "clear", "crash", "upstream", "interrupt"} : ~Faulty(f)
         /\ ~Unanswered
         /\ \A p, step : ~HaltedTo(p, step)
  BY DEF OnlyRefusals, Faulty, Unanswered, HaltedTo

(* Time passes for an entry and for what it names alike.                   *)
LEMMA MatchedKeeps ==
  ASSUME TypeOK, TypeOK', OnlyRefusals, CacheVouched, Onward, Matched, UNCHANGED <<boxes, cache>>
  PROVE  Matched'
<1>1. now \in Nat /\ now' \in Nat /\ now <= now'
  BY DEF TypeOK, Onward
<1>2. \A k \in Kinds : cache[k] # NoEntry =>
        cache[k] \in Entries /\ boxes[cache[k].id].ends = cache[k].expires
  BY Harmless DEF TypeOK, CacheVouched, Vouched, Genuine
<1>3. \A i \in Ids : boxes[i].ends \in Nat
  BY DEF TypeOK, Box
<1>4. \A k \in Kinds : cache[k] # NoEntry => cache[k].expires \in Nat /\ cache[k].id \in Ids
  BY <1>2 DEF Entries
<1> QED
  BY <1>1, <1>2, <1>3, <1>4 DEF Matched, Registered, Fresh

LEMMA ReflectsKeeps ==
  ASSUME TypeOK, TypeOK', OnlyRefusals, HeldVouched, Onward, UNCHANGED <<boxes, cache>>,
         NEW p \in Procs, Reflects(p),
         pc'[p] \in Placing => pc[p] \in Placing,
         pc'[p] = "commit" => pc[p] = "commit" /\ sb'[p] = sb[p],
         pc'[p] \in {"verify", "save"} =>
           pc[p] \in {"verify", "save"} /\ sb'[p].id = sb[p].id /\ sb'[p].expires = sb[p].expires
  PROVE  Reflects(p)'
<1>1. now \in Nat /\ now' \in Nat /\ now <= now' /\ \A i \in Ids : boxes[i].ends \in Nat
  BY DEF TypeOK, Onward, Box
<1>2. ASSUME pc'[p] \in Placing, NEW k \in Kinds PROVE ~Fresh(cache[k])'
  BY <1>2, Ageing DEF Reflects
<1>3. ASSUME pc'[p] \in {"verify", "save"}, NEW i \in Ids
      PROVE  Registered(i)' <=> i = sb'[p].id /\ now' < sb'[p].expires
  <2>1. sb[p] \in Entries /\ boxes[sb[p].id].ends = sb[p].expires
    BY <1>3, Harmless DEF HeldVouched, Held, Vouched, Genuine, TypeOK
  <2>2. sb[p].expires \in Nat /\ sb[p].id \in Ids
    BY <2>1 DEF Entries
  <2>3. Registered(i) <=> i = sb[p].id /\ now < sb[p].expires
    BY <1>3 DEF Reflects
  <2> QED
    BY <1>1, <1>3, <2>1, <2>2, <2>3 DEF Registered
<1> QED
  BY <1>2, <1>3 DEF Reflects

(* The others do nothing, and hold nothing.                                *)
LEMMA OthersReflect ==
  ASSUME NEW p \in Procs, Lone(p), Reflects(p)'
  PROVE  \A q \in Procs : Reflects(q)'
<1>1. \A q \in Procs \ {p} : pc'[q] = "idle"
  BY DEF Lone
<1> QED
  BY <1>1 DEF Reflects, Placing

(* A step that leaves cache and account alone and sees no new sandbox.     *)
LEMMA MirrorKeeps ==
  ASSUME Inv, TypeOK', OnlyRefusals, Onward, Mirror, UNCHANGED <<boxes, cache>>,
         NEW p \in Procs, Lone(p),
         pc'[p] \in Placing => pc[p] \in Placing,
         pc'[p] = "commit" => pc[p] = "commit" /\ sb'[p] = sb[p],
         pc'[p] \in {"verify", "save"} =>
           pc[p] \in {"verify", "save"} /\ sb'[p].id = sb[p].id /\ sb'[p].expires = sb[p].expires,
         pc[p] \in Owing => pc'[p] \in Owing
  PROVE  Mirror'
<1>1. Reflects(p)'
  BY ReflectsKeeps DEF Inv, Mirror
<1>2. \A q \in Procs : Reflects(q)'
  BY <1>1, OthersReflect
<1>3. ASSUME \A q \in Procs : pc'[q] \notin Owing PROVE Matched'
  <2>1. \A q \in Procs : pc[q] \notin Owing
    BY <1>3 DEF Lone, Owing
  <2> QED
    BY <2>1, MatchedKeeps DEF Mirror, Inv
<1> QED
  BY <1>2, <1>3 DEF Mirror

(* A sandbox of its own is provisioned, and nothing else runs.             *)
LEMMA MirrorProvisioned ==
  ASSUME TypeOK, TypeOK', OnlyRefusals, Mirror, NEW p \in Procs, Lone(p), Provisioned(p)
  PROVE  Mirror'
<1>1. PICK i \in Ids, end \in Ends :
             /\ Provision(i, kind[p], end)
             /\ \E e \in Resolved(end) : Hold(p, Entry(i, FALSE, e), "commit")
  BY Harmless DEF Provisioned
<1>2. UNCHANGED <<now, cache>> /\ pc'[p] = "commit" /\ sb'[p].id = i
  BY <1>1 DEF Provisioned, Hold, Entry, TypeOK
<1>3. \A k \in Kinds : ~Fresh(cache[k])'
  <2>1. Matched
    BY DEF Provisioned, Mirror, Lone, Owing
  <2>2. \A j \in Ids : ~Registered(j)
    BY <1>1 DEF Provision, Running, Registered
  <2>3. \A k \in Kinds : Fresh(cache[k]) => cache[k].id \in Ids
    BY DEF TypeOK, Fresh, Entries
  <2> QED
    BY <1>2, <2>1, <2>2, <2>3 DEF Matched, Fresh
<1>4. boxes'[i].state = "provisioned" /\ \A j \in Ids : ~Registered(j)'
  <2>1. boxes' = [boxes EXCEPT ![i] = [state |-> "provisioned", kind |-> kind[p], ends |-> end]]
    BY <1>1 DEF Provision
  <2>2. \A j \in Ids : ~Running(j)
    BY <1>1 DEF Provision
  <2> QED
    BY <1>2, <2>1, <2>2 DEF Registered, Running, TypeOK
<1>5. Reflects(p)'
  BY <1>2, <1>3, <1>4 DEF Reflects
<1>6. \A q \in Procs : Reflects(q)'
  BY <1>5, OthersReflect
<1> QED
  BY <1>3, <1>4, <1>6 DEF Mirror, Matched

(* The account takes the sandbox that is to be saved.                      *)
LEMMA MirrorCommitted ==
  ASSUME Inv, TypeOK', AtMostOne, OnlyRefusals, Orderly, Mirror, NEW p \in Procs, Lone(p), Seen(p),
         Committed(p)
  PROVE  Mirror'
<1>1. Goto(p, "verify") /\ Register(kind[p]) /\ UNCHANGED <<now, cache>> /\ pc[p] = "commit"
  BY Harmless DEF Committed
<1>2. pc'[p] = "verify" /\ sb'[p] = sb[p]
  BY <1>1 DEF Goto, Inv, TypeOK
<1>3. /\ sb[p] \in Entries /\ sb[p].id \in Ids
      /\ boxes[sb[p].id].ends = sb[p].expires
  BY <1>1, Harmless DEF Inv, TypeOK, HeldVouched, Genuine, Entries
<1>4. \A i \in Ids : Running(i) => i = sb[p].id
  BY <1>1 DEF Seen, Placing
<1>5. sb[p].id \in Pending(kind[p]) /\ Pending(kind[p]) \subseteq {sb[p].id}
  BY <1>1, <1>4 DEF Register, Pending
<1>6. /\ boxes'[sb[p].id] = [boxes[sb[p].id] EXCEPT !.state = "registered"]
      /\ \A i \in Ids \ {sb[p].id} : boxes'[i] = boxes[i]
  BY <1>1, <1>3, <1>5 DEF Register
<1>7. \A i \in Ids : Registered(i)' <=> i = sb'[p].id /\ now' < sb'[p].expires
  <2>1. Registered(sb[p].id)' <=> now < sb[p].expires
    <3>1. boxes[sb[p].id] \in Box
      BY <1>3 DEF Inv, TypeOK
    <3>2. boxes'[sb[p].id].state = "registered" /\ boxes'[sb[p].id].ends = sb[p].expires
      BY <1>3, <1>6, <3>1 DEF Box
    <3> QED
      BY <1>1, <1>2, <1>3, <3>2 DEF Registered
  <2>2. \A i \in Ids \ {sb[p].id} : ~Registered(i)'
    BY <1>1, <1>4, <1>6 DEF Registered, Running
  <2> QED
    BY <1>1, <1>2, <2>1, <2>2
<1>8. \A k \in Kinds : ~Fresh(cache[k])'
  BY <1>1 DEF Mirror, Reflects, Placing, Fresh
<1>9. Reflects(p)'
  BY <1>2, <1>7, <1>8 DEF Reflects
<1>10. \A q \in Procs : Reflects(q)'
  BY <1>9, OthersReflect
<1> QED
  BY <1>2, <1>10 DEF Mirror, Owing

(* The cache is written, and matches the account again.                    *)
LEMMA MirrorWritten ==
  ASSUME Inv, TypeOK', OnlyRefusals, Serial, Mirror, NEW p \in Procs, Lone(p),
         Save(p) \/ Resave(p) \/ ClearAll(p)
  PROVE  Mirror'
<1> USE DEF Inv
<1>1. pc'[p] = "idle" /\ UNCHANGED <<now, boxes>>
  BY DEF Save, Resave, ClearAll, End, TypeOK
<1>2. \A q \in Procs : Reflects(q)'
  <2>1. Reflects(p)'
    BY <1>1 DEF Reflects, Placing
  <2> QED
    BY <2>1, OthersReflect
<1>3. CASE ClearAll(p)
  <2>1. cache' = [k \in Kinds |-> NoEntry]
    BY <1>3, Harmless DEF ClearAll
  <2>2. \A i \in Ids : ~Running(i)
    BY <1>3 DEF ClearAll, Serial, Seen
  <2> QED
    BY <1>1, <1>2, <2>1, <2>2 DEF Mirror, Matched, Fresh, Registered, Running
<1>4. CASE Save(p) \/ Resave(p)
  <2>1. cache' = [cache EXCEPT ![kind[p]] = sb[p]] /\ kind[p] \in Kinds /\ sb[p] # NoEntry
    BY <1>4, Harmless DEF Save, Resave, SaveToCache, TypeOK
  <2>2. cache'[kind[p]] = sb[p] /\ \A k \in Kinds \ {kind[p]} : cache'[k] = cache[k]
    BY <2>1 DEF TypeOK
  <2>3. CASE Save(p)
    <3>1. /\ \A k \in Kinds : ~Fresh(cache[k])
          /\ \A i \in Ids : Registered(i) <=> i = sb[p].id /\ now < sb[p].expires
      BY <2>3 DEF Save, Mirror, Reflects, Placing
    <3>2. \A k \in Kinds \ {kind[p]} : ~Fresh(cache[k])'
      BY <1>1, <2>2, <3>1 DEF Fresh
    <3>3. \A k \in Kinds : k = kind[p] => (Fresh(cache[k])' <=> now < sb[p].expires)
      BY <1>1, <2>1, <2>2 DEF Fresh
    <3>4. \A i \in Ids : Registered(i)' <=> i = sb[p].id /\ now < sb[p].expires
      BY <1>1, <3>1 DEF Registered
    <3>5. Matched'
      BY <2>1, <2>2, <3>2, <3>3, <3>4 DEF Matched
    <3> QED
      BY <1>2, <3>5 DEF Mirror
  <2>4. CASE Resave(p)
    <3>1. /\ pc[p] = "resave"
          /\ cache[kind[p]] # NoEntry
          /\ sb[p].id = cache[kind[p]].id /\ sb[p].expires = cache[kind[p]].expires
      BY <2>4 DEF Resave, Serial, Seen, Reusing
    <3>2. Matched
      BY <3>1 DEF Mirror, Lone, Owing
    <3>3. \A k \in Kinds : (Fresh(cache[k])' <=> Fresh(cache[k])) /\ cache'[k].id = cache[k].id
      BY <1>1, <2>1, <2>2, <3>1 DEF Fresh
    <3>4. \A i \in Ids : Registered(i)' <=> Registered(i)
      BY <1>1 DEF Registered
    <3>5. Matched'
      BY <3>2, <3>3, <3>4 DEF Matched
    <3> QED
      BY <1>2, <3>5 DEF Mirror
  <2> QED
    BY <1>4, <2>3, <2>4
<1> QED
  BY <1>3, <1>4

LEMMA MirrorStep ==
  ASSUME MirrorInv, OnlyRefusals, [Next]_vars
  PROVE  Mirror'
<1> USE Harmless DEF Owing, Placing
<1>1. /\ Inv /\ Inv' /\ TypeOK /\ TypeOK' /\ AtMostOne /\ Serial /\ Orderly /\ Mirror
      /\ OneByOne /\ Onward /\ UNCHANGED env
  BY NextOnward, SerialInvStep DEF MirrorInv, SerialInv, Inv, Serial, OnlyRefusals, Next, vars
<1>3. ASSUME UNCHANGED <<boxes, cache, pc, sb>> PROVE Mirror'
  <2>1. \A p \in Procs : Reflects(p)'
    BY <1>1, <1>3, ReflectsKeeps DEF Mirror, Inv
  <2> QED
    BY <1>1, <1>3, <2>1, MatchedKeeps DEF Mirror, Inv
<1>4. CASE Environment \/ UNCHANGED vars \/ \E p \in Procs : Interrupt(p)
  BY <1>3, <1>4 DEF Environment, Tick, vars, local, Interrupt
<1>5. ASSUME NEW p \in Procs, Acts(p) PROVE Mirror'
  <2>1. Lone(p) /\ Seen(p) /\ Reflects(p)
    BY <1>1, <1>5, LoneActs DEF Serial, Mirror
  <2>t. /\ pc \in [Procs -> Steps] /\ sb \in [Procs -> Entries \cup {NoEntry}]
    BY <1>1 DEF TypeOK
  <2>2. CASE Provisioned(p)
    BY <1>1, <2>1, <2>2, MirrorProvisioned
  <2>3. CASE Committed(p)
    BY <1>1, <2>1, <2>3, MirrorCommitted
  <2>4. CASE Save(p) \/ Resave(p) \/ ClearAll(p)
    BY <1>1, <2>1, <2>4, MirrorWritten
  <2>5. CASE Destroyed(p) /\ ~UNCHANGED boxes
    <3>1. pc'[p] = "clearAll"
      BY <2>5, <2>t DEF Destroyed, Goto
    <3>2. \A q \in Procs : Reflects(q)'
      BY <2>1, <3>1, OthersReflect DEF Reflects
    <3> QED
      BY <3>1, <3>2 DEF Mirror
  <2>6. CASE Verify(p)
    <3>1. PICK v \in BOOLEAN : Hold(p, [sb[p] EXCEPT !.verified = v], "save")
      BY <2>6 DEF Verify, Verdicts
    <3>2. sb[p] \in Entries
      BY <1>1, <2>6 DEF Verify, TypeOK
    <3>3. /\ pc[p] = "verify" /\ pc'[p] = "save" /\ UNCHANGED <<boxes, cache>>
          /\ sb'[p].id = sb[p].id /\ sb'[p].expires = sb[p].expires
      BY <2>6, <2>t, <3>1, <3>2 DEF Verify, Hold, Entries
    <3> QED
      BY <1>1, <2>1, <3>3, MirrorKeeps
  <2>7. CASE CommitFails(p)
    <3>1. pc[p] = "commit" /\ pc'[p] = "rollback" /\ UNCHANGED <<boxes, cache>>
      BY <2>7, <2>t DEF CommitFails, Goto
    <3> QED
      BY <1>1, <2>1, <3>1, MirrorKeeps
  <2>8. CASE Rollback(p)
    <3>1. Matched /\ \A k \in Kinds : ~Fresh(cache[k])
      BY <1>1, <2>1, <2>8 DEF Rollback, Mirror, Reflects, Lone
    <3>2. ~Terminate(kind[p])
      BY <3>1 DEF Terminate, Owned, Matched
    <3>3. pc[p] = "rollback" /\ pc'[p] = "idle" /\ UNCHANGED <<boxes, cache>>
      BY <2>8, <2>t, <3>2 DEF Rollback, End
    <3> QED
      BY <1>1, <2>1, <3>3, MirrorKeeps
  <2>9. CASE \/ Destroy(p) \/ \E k \in Kinds : Create(p, k) \/ GenerateMFA(p, k)
             \/ NothingToReuse(p) \/ Reuse(p) \/ Reverify(p) \/ RejectOtherActive(p)
             \/ Authorize(p, "auth", "create") \/ CreateFails(p)
             \/ Authorize(p, "destroyAuth", "destroy") \/ Authorize(p, "mfaAuth", "mfaCode")
             \/ CachedSlug(p) \/ (Destroyed(p) /\ UNCHANGED boxes) \/ DestroyFails(p)
             \/ CachedForMFA(p) \/ MFACode(p)
    <3>1. pc[p] \notin Owing /\ pc'[p] \notin Placing \cup {"commit"} /\ UNCHANGED <<boxes, cache>>
      BY <2>9, <2>t
      DEF Destroy, Create, GenerateMFA, Begin, NothingToReuse, Reuse, Reverify, RejectOtherActive,
          Authorize, CreateFails, CachedSlug, Destroyed, DestroyFails, CachedForMFA, MFACode,
          Goto, Hold, End
    <3> QED
      BY <1>1, <2>1, <3>1, MirrorKeeps
  <2> QED
    BY <1>5, <2>2, <2>3, <2>4, <2>5, <2>6, <2>7, <2>8, <2>9 DEF Acts, Step, Crash
<1> QED
  BY <1>4, <1>5 DEF Next, Acts

LEMMA MirrorHolds == Spec => []MirrorInv
<1>1. Init => MirrorInv
  <2> SUFFICES ASSUME Init PROVE SerialInv /\ Working /\ Mirror
    BY DEF MirrorInv
  <2>1. Matched
    BY DEF Init, BrokerInit, Matched, Registered, Fresh
  <2>2. \A p \in Procs : Reflects(p)
    BY DEF Init, Reflects, Placing
  <2> QED
    BY <2>1, <2>2, SerialInvInit DEF Init, Working, Mirror
<1>2. MirrorInv /\ [Next]_vars => MirrorInv'
  <2> SUFFICES ASSUME MirrorInv, [Next]_vars PROVE MirrorInv'
    OBVIOUS
  <2>1. SerialInv' /\ Working'
    BY SerialInvStep, WorkingStep DEF MirrorInv, SerialInv, Inv
  <2>2. OnlyRefusals' = OnlyRefusals
    BY DEF Next, vars, OnlyRefusals, OneByOne
  <2> QED
    BY <2>1, <2>2, MirrorStep DEF MirrorInv
<1> QED
  BY <1>1, <1>2, PTL DEF Spec

(***************************************************************************)
(* Between commands run one by one, with calls that fail only before they  *)
(* take effect, the fresh cache entries are what the account has.          *)
(***************************************************************************)
THEOREM CacheIsMirror == Spec => []CacheMirrorsAccount
<1>1. MirrorInv => CacheMirrorsAccount
  <2> SUFFICES ASSUME MirrorInv, OnlyRefusals, Quiet
               PROVE  {i \in Ids : Registered(i)} = {cache[k].id : k \in {l \in Kinds : Fresh(cache[l])}}
    BY DEF CacheMirrorsAccount
  <2>1. Matched
    BY DEF MirrorInv, Mirror, Quiet, Owing
  <2>2. \A k \in Kinds : Fresh(cache[k]) => cache[k].id \in Ids
    BY DEF MirrorInv, SerialInv, Inv, TypeOK, Fresh, Entries
  <2> QED
    BY <2>1, <2>2 DEF Matched
<1> QED
  BY <1>1, MirrorHolds, PTL

(***************************************************************************)
(* Under the same conditions what create hands out is the account's and    *)
(* running, unless its time ran out while the command was at work.         *)
(***************************************************************************)
THEOREM LiveWhenHandedOut == Spec => HandedOutIsLive
<1> DEFINE Live(p) == OnlyRefusals /\ pc[p] # "idle" /\ out'[p] \in {"created", "reused"} =>
                        Registered(HandedOut(p).id) \/ now >= HandedOut(p).expires
<1>1. MirrorInv /\ [Next]_vars => [\A p \in Procs : Live(p)]_vars
  <2> SUFFICES ASSUME MirrorInv, [Next]_vars, NEW p \in Procs, OnlyRefusals,
                      pc[p] # "idle", out'[p] \in {"created", "reused"}
               PROVE  Registered(HandedOut(p).id) \/ now >= HandedOut(p).expires
    OBVIOUS
  <2>1. Serial /\ TypeOK /\ out[p] = "none" /\ Mirror /\ OneByOne
    BY DEF MirrorInv, SerialInv, Inv, Working, OnlyRefusals
  <2>2. \A q \in Procs \ {p} : pc[q] = "idle"
    BY <2>1 DEF Serial, Alone
  <2>3. Acts(p)
    <3>1. \A q \in Procs : Acts(q) => q = p
      BY <2>1, LoneActs DEF Serial, Lone
    <3>2. ~UNCHANGED out
      BY <2>1
    <3> QED
      BY <3>1, <3>2 DEF Next, Acts, Environment, Interrupt, vars, local
  <2>4. Reuse(p) \/ Reverify(p) \/ Resave(p) \/ Save(p)
    BY <2>1, <2>3, Harmless
    DEF Acts, Create, GenerateMFA, Destroy, Begin, Step, NothingToReuse, RejectOtherActive,
        Authorize, Provisioned, CreateFails, Committed, CommitFails, Rollback, Verify,
        CachedSlug, Destroyed, DestroyFails, ClearAll, CachedForMFA, MFACode, Crash,
        Goto, Hold, End, TypeOK
  <2>5. CASE Save(p)
    <3>1. HandedOut(p) = sb[p] /\ sb[p] \in Entries
      BY <2>1, <2>5 DEF Save, HandedOut, TypeOK
    <3>2. sb[p].id \in Ids /\ sb[p].expires \in Nat /\ now \in Nat
      BY <2>1, <3>1 DEF Entries, TypeOK
    <3>3. Registered(sb[p].id) <=> now < sb[p].expires
      BY <2>1, <2>5, <3>2 DEF Save, Mirror, Reflects
    <3> QED
      BY <3>1, <3>2, <3>3
  <2>6. CASE Reuse(p) \/ Reverify(p) \/ Resave(p)
    <3>1. pc[p] \in {"reuse", "reverify", "resave"}
      BY <2>6 DEF Reuse, Reverify, Resave
    <3>2. Matched
      BY <2>2, <3>1, <2>1 DEF Mirror, Owing
    <3>3. kind[p] \in Kinds /\ cache[kind[p]] # NoEntry
      BY <2>1, <2>6 DEF Reuse, Reverify, Resave, Fresh, Serial, Seen, Reusing, TypeOK
    <3>4. cache[kind[p]].id \in Ids /\ cache[kind[p]].expires \in Nat /\ now \in Nat
      BY <2>1, <3>3 DEF TypeOK, Entries
    <3>5. HandedOut(p).id = cache[kind[p]].id /\ HandedOut(p).expires = cache[kind[p]].expires
      BY <2>1, <3>1 DEF HandedOut, Serial, Seen, Reusing
    <3>6. now < cache[kind[p]].expires => Registered(cache[kind[p]].id)
      BY <3>2, <3>3, <3>4 DEF Matched, Fresh
    <3> QED
      BY <3>4, <3>5, <3>6
  <2> QED
    BY <2>4, <2>5, <2>6
<1> QED
  BY <1>1, MirrorHolds, PTL DEF Spec, HandedOutIsLive

-----------------------------------------------------------------------------
(* SandboxContract.  What the account has and what the cache has are told  *)
(* apart by nothing, once a command at work keeps its debts in mind; so    *)
(* the contract's state changes only where the cache is written, or with   *)
(* time.                                                                   *)
Promises == OnlyRefusals => Contract!Next

(* Where its times can be relied on, the broker gives no sandbox more than *)
(* was asked for.                                                          *)
Bounded == ~Faulty("times") => \A i \in Ids : boxes[i].ends <= now + Life

(* What p remembers of the cache, be it readable or not.                   *)
Recalls(p) ==
  /\ pc[p] \in Reusing => \A k \in Kinds \ {kind[p]} : ~Fresh(cache[k])
  /\ pc[p] = "clearAll" => \E k \in Kinds : cache[k] # NoEntry
  /\ pc[p] \in {"destroyAuth", "destroy"} /\ ~Faulty("load") =>
       cache[kind[p]] # NoEntry \/ \A k \in Kinds : cache[k] = NoEntry

ContractInv == MirrorInv /\ Bounded /\ (OnlyRefusals => \A p \in Procs : Recalls(p))

LEMMA BoundedStep == TypeOK /\ Bounded /\ [Next]_vars => Bounded'
<1> SUFFICES ASSUME TypeOK, Bounded, [Next]_vars, ~Faulty("times")' PROVE Bounded'
  BY DEF Bounded
<1>e. ~Faulty("times")
  BY DEF Next, vars, Faulty
<1>t. now \in Nat /\ Life \in Nat /\ \A i \in Ids : boxes[i] \in Box /\ boxes[i].ends \in Nat
  BY BrokerAssumption DEF TypeOK, Box
<1>1. CASE UNCHANGED <<now, boxes>>
  BY <1>1, <1>e DEF Bounded
<1>2. CASE \E p \in Procs : Provisioned(p)
  <2>1. PICK i \in Ids, k \in Kinds : Provision(i, k, now + Life) /\ now' = now
    BY <1>2, <1>e DEF Provisioned, Ends, TypeOK
  <2>2. /\ boxes'[i].ends = now + Life
        /\ \A j \in Ids \ {i} : boxes'[j] = boxes[j]
    BY <2>1 DEF Provision, TypeOK
  <2>3. \A j \in Ids : boxes'[j].ends <= now + Life
    BY <1>t, <1>e, <2>2 DEF Bounded
  <2> QED
    BY <2>1, <2>3 DEF Bounded
<1>3. ASSUME NEW k \in Kinds, Register(k) \/ Terminate(k), UNCHANGED now PROVE Bounded'
  <2>1. \A i \in Ids : boxes'[i].ends = boxes[i].ends
    BY <1>t, <1>3 DEF Register, Terminate, Box
  <2> QED
    BY <1>3, <1>e, <2>1 DEF Bounded
<1>4. CASE \E p \in Procs : Committed(p) \/ Rollback(p) \/ Destroyed(p)
  <2>1. UNCHANGED <<now, boxes>> \/ \E k \in Kinds : (Register(k) \/ Terminate(k)) /\ UNCHANGED now
    BY <1>4 DEF Committed, Rollback, Destroyed, TypeOK
  <2> QED
    BY <1>1, <1>3, <2>1
<1>5. CASE Environment
  <2>1. CASE Tick
    <3>1. now' = now + 1 /\ boxes' = boxes
      BY <2>1 DEF Tick
    <3> QED
      BY <1>t, <1>e, <3>1 DEF Bounded
  <2> QED
    BY <1>3, <1>5, <2>1 DEF Environment, EndUpstream
<1> QED
  BY <1>1, <1>2, <1>4, <1>5
     DEF Next, Step, vars, Create, Destroy, Begin, NothingToReuse, Reuse, Reverify, Resave,
         RejectOtherActive, Authorize, CreateFails, CommitFails, Verify, Save, CachedSlug,
         DestroyFails, ClearAll, GenerateMFA, CachedForMFA, MFACode, Interrupt, Crash

(* What is cached fresh when all is matched is of one kind.                *)
LEMMA OneFresh ==
  ASSUME Inv, AtMostOne, Matched, NEW k \in Kinds, NEW l \in Kinds, Fresh(cache[k]), Fresh(cache[l])
  PROVE  k = l
<1>1. /\ cache[k] # NoEntry /\ cache[l] # NoEntry
      /\ cache[k].id \in Ids /\ cache[l].id \in Ids
  BY DEF Inv, TypeOK, Fresh, Entries
<1>2. Running(cache[k].id) /\ Running(cache[l].id)
  BY <1>1 DEF Matched, Registered, Running
<1>3. cache[k].id = cache[l].id
  BY <1>1, <1>2 DEF AtMostOne
<1>4. boxes[cache[k].id].kind = k /\ boxes[cache[l].id].kind = l
  BY <1>1 DEF Inv, CacheVouched, Vouched, Genuine
<1> QED
  BY <1>3, <1>4

(* The account's sandboxes and the cache's are the same.                   *)
LEMMA SameView ==
  ASSUME Inv, OnlyRefusals, Matched
  PROVE  OfAccount = OfCache
<1>1. \A k \in Kinds : Fresh(cache[k]) =>
        /\ cache[k].id \in Ids
        /\ boxes[cache[k].id].kind = k
        /\ boxes[cache[k].id].ends = cache[k].expires
  BY Harmless DEF Inv, TypeOK, Fresh, Entries, CacheVouched, Vouched, Genuine
<1>2. \A i \in Ids : Registered(i) <=> \E k \in Kinds : Fresh(cache[k]) /\ cache[k].id = i
  BY DEF Matched
<1>3. ASSUME NEW s \in OfAccount PROVE s \in OfCache
  <2>1. PICK i \in Ids : Registered(i) /\ s = [id |-> i, kind |-> boxes[i].kind, ends |-> boxes[i].ends]
    BY DEF OfAccount
  <2>2. PICK k \in Kinds : Fresh(cache[k]) /\ cache[k].id = i
    BY <1>2, <2>1
  <2>3. s = [id |-> cache[k].id, kind |-> k, ends |-> cache[k].expires]
    BY <1>1, <2>1, <2>2
  <2> QED
    BY <2>2, <2>3 DEF OfCache
<1>4. ASSUME NEW s \in OfCache PROVE s \in OfAccount
  <2>1. PICK k \in Kinds : /\ Fresh(cache[k])
                           /\ s = [id |-> cache[k].id, kind |-> k, ends |-> cache[k].expires]
    BY DEF OfCache
  <2>2. Registered(cache[k].id) /\ cache[k].id \in Ids
    BY <1>1, <1>2, <2>1
  <2>3. s = [id |-> cache[k].id, kind |-> boxes[cache[k].id].kind, ends |-> boxes[cache[k].id].ends]
    BY <1>1, <2>1
  <2> QED
    BY <2>2, <2>3 DEF OfAccount
<1> QED
  BY <1>3, <1>4

LEMMA ActiveIsCached ==
  ASSUME MirrorInv, OnlyRefusals
  PROVE  Active = OfCache
<1>1. CASE \E p \in Procs : pc[p] \in Owing
  BY <1>1 DEF Active
<1>2. CASE \A p \in Procs : pc[p] \notin Owing
  BY <1>2, SameView DEF Active, MirrorInv, SerialInv, Mirror
<1> QED
  BY <1>1, <1>2

(* What is remembered stays so while the cache does.                       *)
LEMMA RecallsKeeps ==
  ASSUME TypeOK, TypeOK', Onward, UNCHANGED <<cache, env>>, NEW p \in Procs, Recalls(p),
         pc'[p] \in Reusing => pc[p] \in Reusing /\ kind'[p] = kind[p],
         pc'[p] = "clearAll" => pc[p] = "clearAll",
         pc'[p] \in {"destroyAuth", "destroy"} =>
           pc[p] \in {"destroyAuth", "destroy"} /\ kind'[p] = kind[p]
  PROVE  Recalls(p)'
<1>1. Faulty("load")' = Faulty("load")
  BY DEF Faulty
<1>2. \A k \in Kinds : Fresh(cache[k])' => Fresh(cache[k])
  BY Ageing
<1>3. (pc[p] \in Reusing)' => \A k \in Kinds \ {kind'[p]} : ~Fresh(cache[k])'
  BY <1>2 DEF Recalls
<1>4. /\ (pc[p] = "clearAll")' => \E k \in Kinds : cache'[k] # NoEntry
      /\ (pc[p] \in {"destroyAuth", "destroy"})' /\ ~Faulty("load")' =>
           cache'[kind'[p]] # NoEntry \/ \A k \in Kinds : cache'[k] = NoEntry
  BY <1>1 DEF Recalls
<1> QED
  BY <1>3, <1>4 DEF Recalls

LEMMA RecallsStep ==
  ASSUME MirrorInv, MirrorInv', OnlyRefusals, \A p \in Procs : Recalls(p), [Next]_vars
  PROVE  \A p \in Procs : Recalls(p)'
<1> USE Harmless DEF Reusing, Owing
<1>1. /\ Inv /\ TypeOK /\ TypeOK' /\ AtMostOne /\ Serial /\ Mirror /\ OneByOne /\ Onward
      /\ UNCHANGED env
  BY NextOnward DEF MirrorInv, SerialInv, Inv, OnlyRefusals, Next, vars
<1>2. CASE Environment \/ UNCHANGED vars \/ \E p \in Procs : Interrupt(p)
  <2>1. UNCHANGED <<cache, pc, kind>>
    BY <1>2 DEF Environment, vars, local, Interrupt
  <2> QED
    BY <1>1, <2>1, RecallsKeeps
<1>3. ASSUME NEW p \in Procs, Acts(p) PROVE \A q \in Procs : Recalls(q)'
  <2>1. Lone(p)
    BY <1>1, <1>3, LoneActs DEF Serial
  <2>2. \A q \in Procs \ {p} : Recalls(q)'
    BY <2>1 DEF Lone, Recalls
  <2>t. /\ pc \in [Procs -> Steps] /\ kind \in [Procs -> Kinds] /\ kind[p] \in Kinds
    BY <1>1 DEF TypeOK
  <2>3. SUFFICES Recalls(p)'
    BY <2>2
  <2>4. CASE Reuse(p) /\ Hold(p, cache[kind[p]], "reverify")
    <3>1. pc[p] = "reuse" /\ Fresh(cache[kind[p]]) /\ UNCHANGED <<now, cache>>
      BY <2>4 DEF Reuse
    <3>2. pc'[p] = "reverify" /\ kind'[p] = kind[p]
      BY <2>t, <2>4 DEF Hold
    <3>3. Matched
      BY <1>1, <2>1, <3>1 DEF Mirror, Lone
    <3>4. \A k \in Kinds : Fresh(cache[k]) => k = kind[p]
      BY <1>1, <2>t, <3>1, <3>3, OneFresh
    <3> QED
      BY <3>1, <3>2, <3>4 DEF Recalls, Fresh
  <2>5. CASE CachedSlug(p)
    <3>1. pc'[p] = "destroyAuth" /\ UNCHANGED cache /\ Faulty("load")' = Faulty("load")
      BY <1>1, <2>t, <2>5 DEF CachedSlug, Faulty
    <3>2. ~Faulty("load") => cache[kind'[p]] # NoEntry \/ \A k \in Kinds : cache[k] = NoEntry
      BY <2>t, <2>5 DEF CachedSlug
    <3> QED
      BY <3>1, <3>2 DEF Recalls
  <2>6. CASE Destroyed(p) /\ Goto(p, "clearAll") /\ Terminate(kind[p])
    <3>1. pc[p] = "destroy" /\ pc'[p] = "clearAll" /\ UNCHANGED cache
      BY <2>t, <2>6 DEF Destroyed, Goto
    <3>2. Matched
      BY <1>1, <2>1, <3>1 DEF Mirror, Lone
    <3>3. PICK i \in Ids : Registered(i)
      BY <2>6 DEF Terminate, Owned
    <3>4. \E k \in Kinds : cache[k] # NoEntry
      BY <3>2, <3>3 DEF Matched, Fresh
    <3> QED
      BY <3>1, <3>4 DEF Recalls
  <2>7. CASE Reverify(p) \/ Authorize(p, "destroyAuth", "destroy")
    <3>1. CASE \E o : End(p, o)
      BY <2>t, <3>1 DEF End, Recalls
    <3>2. CASE \E v \in BOOLEAN : Hold(p, [sb[p] EXCEPT !.verified = v], "resave")
      <4>1. pc[p] = "reverify" /\ pc'[p] = "resave" /\ kind'[p] = kind[p] /\ UNCHANGED cache
        <5>1. PICK v \in BOOLEAN : Hold(p, [sb[p] EXCEPT !.verified = v], "resave")
          BY <3>2
        <5> QED
          BY <2>t, <2>7, <5>1 DEF Reverify, Hold, Authorize, Goto, End
      <4> QED
        BY <1>1, <4>1, RecallsKeeps
    <3>3. CASE Authorize(p, "destroyAuth", "destroy") /\ Goto(p, "destroy")
      <4>1. pc[p] = "destroyAuth" /\ pc'[p] = "destroy" /\ kind'[p] = kind[p] /\ UNCHANGED cache
        BY <2>t, <3>3 DEF Authorize, Goto
      <4> QED
        BY <1>1, <4>1, RecallsKeeps
    <3> QED
      BY <2>7, <3>1, <3>2, <3>3 DEF Reverify, Verdicts, Authorize
  <2>8. CASE \/ Destroy(p) \/ \E k \in Kinds : Create(p, k) \/ GenerateMFA(p, k)
             \/ NothingToReuse(p) \/ (Reuse(p) /\ ~Hold(p, cache[kind[p]], "reverify"))
             \/ Resave(p) \/ RejectOtherActive(p)
             \/ Authorize(p, "auth", "create") \/ Provisioned(p) \/ CreateFails(p)
             \/ Committed(p) \/ CommitFails(p) \/ Rollback(p) \/ Verify(p) \/ Save(p)
             \/ (Destroyed(p) /\ ~(Goto(p, "clearAll") /\ Terminate(kind[p])))
             \/ DestroyFails(p) \/ ClearAll(p)
             \/ Authorize(p, "mfaAuth", "mfaCode") \/ CachedForMFA(p) \/ MFACode(p)
    <3>1. pc'[p] \notin Reusing \cup {"clearAll", "destroyAuth", "destroy"}
      BY <2>8, <2>t, Harmless
      DEF Destroy, Create, GenerateMFA, Begin, NothingToReuse, Reuse, Resave, RejectOtherActive,
          Authorize, Provisioned, CreateFails, Committed, CommitFails, Rollback, Verify, Save,
          Destroyed, DestroyFails, ClearAll, CachedForMFA, MFACode, Goto, Hold, End
    <3> QED
      BY <3>1 DEF Recalls
  <2> QED
    BY <1>3, <2>4, <2>5, <2>6, <2>7, <2>8 DEF Acts, Step, Crash
<1> QED
  BY <1>2, <1>3 DEF Next, Acts

LEMMA ContractInvHolds == Spec => []ContractInv
<1>1. Init => Bounded /\ \A p \in Procs : Recalls(p)
  <2> SUFFICES ASSUME Init PROVE Bounded /\ \A p \in Procs : Recalls(p)
    OBVIOUS
  <2>1. now \in Nat /\ Life \in Nat
    BY BrokerAssumption, InitTypes DEF TypeOK
  <2> QED
    BY <2>1 DEF Init, BrokerInit, Bounded, Recalls, Reusing
<1>2. MirrorInv /\ MirrorInv' /\ Bounded /\ (OnlyRefusals => \A p \in Procs : Recalls(p)) /\ [Next]_vars
        => Bounded' /\ (OnlyRefusals => \A p \in Procs : Recalls(p))'
  <2> SUFFICES ASSUME MirrorInv, MirrorInv', Bounded, OnlyRefusals => \A p \in Procs : Recalls(p),
                      [Next]_vars
               PROVE  Bounded' /\ (OnlyRefusals => \A p \in Procs : Recalls(p))'
    OBVIOUS
  <2>1. Bounded'
    BY BoundedStep DEF MirrorInv, SerialInv, Inv
  <2>2. OnlyRefusals' = OnlyRefusals
    BY DEF Next, vars, OnlyRefusals, OneByOne
  <2> QED
    BY <2>1, <2>2, RecallsStep
<1> QED
  BY <1>1, <1>2, MirrorHolds, PTL DEF Spec, ContractInv

(* The account is seen through the cache.                                  *)
Mirrored == OnlyRefusals => Active = OfCache

LEMMA MirroredHolds == Spec => [](ContractInv /\ Mirrored)
<1>1. ContractInv => Mirrored
  BY ActiveIsCached DEF ContractInv, Mirrored
<1> QED
  BY <1>1, ContractInvHolds, PTL

LEMMA OthersAsk ==
  ASSUME NEW p \in Procs, Lone(p)
  PROVE  \A q \in Procs \ {p} : Asked(q)' = Asked(q)
  BY DEF Lone, Asked

(* Steps on the way to an answer.                                          *)
LEMMA OnTheWay ==
  ASSUME Mirrored, Mirrored', OnlyRefusals, OnlyRefusals', UNCHANGED <<now, cache, out, env>>,
         \A p \in Procs : Asked(p)' = Asked(p)
  PROVE  UNCHANGED Contract!vars
<1>1. OfCache' = OfCache /\ Cached' = Cached
  BY DEF OfCache, Cached, Fresh
<1>2. Active' = Active
  BY <1>1 DEF Mirrored
<1>3. Faulty("load")' = Faulty("load")
  BY DEF Faulty
<1> QED
  BY <1>1, <1>2, <1>3 DEF Contract!vars

LEMMA Answered ==
  ASSUME TypeOK, NEW p \in Procs, Lone(p), NEW o, End(p, o), UNCHANGED now
  PROVE  Contract!Answer(p, o)
<1>1. \A q \in Procs \ {p} : Asked(q)' = Asked(q)
  BY OthersAsk
<1>2. Asked(p)' = [verb |-> "none", kind |-> Aws]
  BY DEF End, Asked, TypeOK
<1>3. out' = [out EXCEPT ![p] = o]
  BY DEF End
<1>4. [q \in Procs |-> Asked(q)]' =
        [[q \in Procs |-> Asked(q)] EXCEPT ![p] = [verb |-> "none", kind |-> Aws]]
  BY <1>1, <1>2
<1> QED
  BY <1>3, <1>4 DEF Contract!Answer, Contract!NoCall, Contract!Call

(* Answers that leave the cache alone.                                     *)
LEMMA Unmoved ==
  ASSUME Mirrored, Mirrored', OnlyRefusals, OnlyRefusals', UNCHANGED <<now, cache, env>>
  PROVE  Active' = Active /\ Cached' = Cached /\ Faulty("load")' = Faulty("load")
<1>1. OfCache' = OfCache /\ Cached' = Cached /\ Faulty("load")' = Faulty("load")
  BY DEF OfCache, Cached, Fresh, Faulty
<1> QED
  BY <1>1 DEF Mirrored

LEMMA ContractTick ==
  ASSUME TypeOK, Mirrored, Mirrored', OnlyRefusals, OnlyRefusals', Tick,
         UNCHANGED <<cache, local, env>>
  PROVE  Contract!Next
<1>1. now \in Nat /\ now < MaxTime /\ now' = now + 1 /\ UNCHANGED <<cache, pc, kind, out>>
  BY DEF TypeOK, Tick, local
<1>2. \A k \in Kinds : cache[k] # NoEntry => cache[k].expires \in Nat
  BY DEF TypeOK, Entries
<1>3. \A k \in Kinds : Fresh(cache[k])' <=> Fresh(cache[k]) /\ now' < cache[k].expires
  BY <1>1, <1>2 DEF Fresh
<1>4. OfCache' = {s \in OfCache : now' < s.ends}
  BY <1>1, <1>3 DEF OfCache
<1>5. Active' = {s \in Active : now' < s.ends}
  BY <1>4 DEF Mirrored
<1>6. Cached' = Cached /\ Faulty("load")' = Faulty("load") /\ \A p \in Procs : Asked(p)' = Asked(p)
  BY <1>1 DEF Cached, Asked, Faulty
<1>7. Contract!Tick
  BY <1>1, <1>5, <1>6 DEF Contract!Tick, Contract!Running
<1> QED
  BY <1>6, <1>7 DEF Contract!Next

(* A command is asked for when none is at work.                            *)
LEMMA ContractAsk ==
  ASSUME TypeOK, Mirrored, Mirrored', OnlyRefusals, OnlyRefusals', UNCHANGED env,
         NEW p \in Procs, Destroy(p) \/ \E k \in Kinds : Create(p, k) \/ GenerateMFA(p, k)
  PROVE  Contract!Next
<1>1. PICK step \in {"slug", "reuse", "mfa"}, k \in Kinds :
        Begin(p, step, k) /\ (step = "slug" => k = Aws)
  BY BrokerAssumption DEF Destroy, Create, GenerateMFA
<1>2. /\ \A q \in Procs : pc[q] = "idle"
      /\ UNCHANGED <<now, cache>>
  BY <1>1, BeginsAlone DEF Begin, OnlyRefusals
<1>3. /\ \A q \in Procs \ {p} : pc'[q] = "idle"
      /\ pc'[p] = step /\ kind'[p] = k
      /\ out' = [q \in Procs |-> "none"]
  BY <1>1, <1>2 DEF Begin, TypeOK
<1>4. /\ \A q \in Procs : Asked(q) = [verb |-> "none", kind |-> Aws]
      /\ \A q \in Procs \ {p} : Asked(q)' = Asked(q)
  BY <1>2, <1>3 DEF Asked
<1>5. Asked(p)' = IF step = "slug" THEN [verb |-> "destroy", kind |-> Aws]
                  ELSE IF step = "mfa" THEN [verb |-> "mfa", kind |-> k]
                  ELSE [verb |-> "create", kind |-> k]
  BY <1>3 DEF Asked, Destroying, ForMFA
<1>6. Active' = Active /\ Cached' = Cached /\ Faulty("load")' = Faulty("load")
  BY <1>2, Unmoved
<1>7. ASSUME NEW verb, Asked(p)' = [verb |-> verb, kind |-> k] PROVE Contract!Ask(p, verb, k)
  <2>1. [q \in Procs |-> Asked(q)]' =
          [[q \in Procs |-> Asked(q)] EXCEPT ![p] = [verb |-> verb, kind |-> k]]
    BY <1>4, <1>7
  <2> QED
    BY <1>2, <1>3, <1>4, <1>6, <2>1 DEF Contract!Ask, Contract!NoCall, Contract!Call
<1>8. \/ step = "slug" /\ k = Aws /\ Contract!Ask(p, "destroy", Aws)
      \/ Contract!Ask(p, "mfa", k)
      \/ Contract!Ask(p, "create", k)
  BY <1>1, <1>5, <1>7
<1> QED
  BY <1>6, <1>8 DEF Contract!Next

(* Failures, and answers about what the cache or the account has.          *)
LEMMA ContractAnswers ==
  ASSUME ContractInv, Mirrored, Mirrored', OnlyRefusals, OnlyRefusals', UNCHANGED <<cache, env>>,
         NEW p \in Procs, Lone(p), pc[p] # "idle", UNCHANGED now,
         \/ End(p, "failed")
         \/ Reuse(p) /\ End(p, "reused")
         \/ Reverify(p) /\ End(p, "reused")
         \/ RejectOtherActive(p) /\ End(p, "activeOther")
         \/ Destroyed(p) /\ End(p, "noActive")
         \/ MFACode(p) /\ End(p, "code")
  PROVE  Contract!Next
<1> USE DEF Contract!Next
<1>1. /\ Active' = Active /\ Cached' = Cached /\ Faulty("load")' = Faulty("load")
      /\ Active = OfCache
  BY Unmoved DEF Mirrored
<1>2. /\ Inv /\ TypeOK /\ AtMostOne /\ Mirror /\ Recalls(p)
      /\ pc[p] \in Steps /\ kind[p] \in Kinds
  BY DEF ContractInv, MirrorInv, SerialInv, Inv, TypeOK
<1>3. \A o : End(p, o) => Contract!Answer(p, o)
  BY <1>2, Answered
<1>4. \A s \in OfCache : \E k \in Kinds : Fresh(cache[k]) /\ s.kind = k
  BY DEF OfCache
<1>5. CASE End(p, "failed")
  <2>1. Asked(p).verb # "none"
    BY DEF Asked
  <2>2. Contract!Fail(p)
    BY <1>1, <1>3, <1>5, <2>1 DEF Contract!Fail, Contract!NoCall, Contract!Call
  <2> QED
    BY <1>1, <2>2
<1>6. CASE (Reuse(p) \/ Reverify(p)) /\ End(p, "reused")
  <2>1. pc[p] \in {"reuse", "reverify"}
    BY <1>6 DEF Reuse, Reverify
  <2>2. Asked(p) = [verb |-> "create", kind |-> kind[p]]
    BY <2>1 DEF Asked, Destroying, ForMFA
  <2>3. cache[kind[p]] # NoEntry
    BY <1>6 DEF Reuse, Reverify, Fresh, ContractInv, MirrorInv, SerialInv, Serial, Seen, Reusing,
                OnlyRefusals
  <2>4. \A k \in Kinds : Fresh(cache[k]) => k = kind[p]
    <3>1. CASE Reuse(p)
      <4>1. Matched
        BY <1>2, <3>1 DEF Mirror, Lone, Owing, Reuse
      <4> QED
        BY <1>2, <3>1, <4>1, OneFresh DEF Reuse
    <3>2. CASE Reverify(p)
      BY <1>2, <3>2 DEF Reverify, Recalls, Reusing
    <3> QED
      BY <1>6, <3>1, <3>2
  <2>5. Contract!Reuse(p)
    BY <1>1, <1>2, <1>3, <1>4, <1>6, <2>2, <2>3, <2>4 DEF Contract!Reuse, Cached
  <2> QED
    BY <1>1, <2>5
<1>7. CASE RejectOtherActive(p) /\ End(p, "activeOther")
  <2>1. pc[p] = "reject" /\ pc'[p] = "idle" /\ out'[p] = "activeOther"
    BY <1>2, <1>7 DEF RejectOtherActive, End, TypeOK
  <2>2. OtherFresh(p)
    BY <1>2, <1>7, <2>1 DEF RejectOtherActive, Goto, TypeOK
  <2>3. PICK k \in Kinds \ {kind[p]} : Fresh(cache[k])
    BY <2>2 DEF OtherFresh
  <2>4. [id |-> cache[k].id, kind |-> k, ends |-> cache[k].expires] \in OfCache
    BY <2>3 DEF OfCache
  <2>5. Asked(p) = [verb |-> "create", kind |-> kind[p]]
    BY <2>1 DEF Asked, Destroying, ForMFA
  <2>6. \E s \in OfCache : s.kind # kind[p]
    BY <2>3, <2>4
  <2>7. Contract!RejectOtherActive(p)
    BY <1>1, <1>3, <1>7, <2>5, <2>6 DEF Contract!RejectOtherActive
  <2> QED
    BY <1>1, <2>7
<1>8. CASE Destroyed(p) /\ End(p, "noActive")
  <2>1. pc[p] = "destroy" /\ pc'[p] = "idle" /\ out'[p] = "noActive"
    BY <1>2, <1>8 DEF Destroyed, End, TypeOK
  <2>2. Owned(kind[p]) = {}
    BY <1>2, <1>8, <2>1, Harmless DEF Destroyed, Goto, End, TypeOK
  <2>3. Active = OfAccount
    <3>1. \A q \in Procs : pc[q] \notin Owing
      BY <2>1 DEF Lone, Owing
    <3> QED
      BY <3>1 DEF Active
  <2>4. \A s \in Active : s.kind # kind[p]
    BY <2>2, <2>3 DEF OfAccount, Owned
  <2>5. \/ Faulty("load")
        \/ kind[p] \in Cached
        \/ Active = {}
    <3>1. (\A k \in Kinds : cache[k] = NoEntry) => OfCache = {}
      BY DEF OfCache, Fresh
    <3> QED
      BY <1>1, <1>2, <2>1, <3>1 DEF Recalls, Cached
  <2>6. Asked(p).verb = "destroy"
    BY <2>1 DEF Asked, Destroying
  <2>7. Contract!NoActive(p)
    BY <1>1, <1>3, <1>8, <2>4, <2>5, <2>6 DEF Contract!NoActive
  <2> QED
    BY <1>1, <2>7
<1>9. CASE MFACode(p) /\ End(p, "code")
  <2>1. pc[p] = "mfaCode" /\ pc'[p] = "idle" /\ out'[p] = "code"
    BY <1>2, <1>9 DEF MFACode, End, TypeOK
  <2>2. Owned(kind[p]) # {}
    BY <1>2, <1>9, <2>1 DEF MFACode, End, TypeOK
  <2>3. Active = OfAccount
    <3>1. \A q \in Procs : pc[q] \notin Owing
      BY <2>1 DEF Lone, Owing
    <3> QED
      BY <3>1 DEF Active
  <2>4. \E s \in Active : s.kind = kind[p]
    <3>1. PICK i \in Ids : Registered(i) /\ boxes[i].kind = kind[p]
      BY <2>2 DEF Owned
    <3>2. [id |-> i, kind |-> boxes[i].kind, ends |-> boxes[i].ends] \in OfAccount
      BY <3>1 DEF OfAccount
    <3> QED
      BY <2>3, <3>1, <3>2
  <2>5. Asked(p) = [verb |-> "mfa", kind |-> kind[p]]
    BY <2>1 DEF Asked, Destroying, ForMFA
  <2>6. Contract!GenerateMFA(p)
    BY <1>1, <1>3, <1>9, <2>4, <2>5 DEF Contract!GenerateMFA
  <2> QED
    BY <1>1, <2>6
<1> QED
  BY <1>5, <1>6, <1>7, <1>8, <1>9

(* The answers that are told to the cache.                                 *)
LEMMA ContractWrites ==
  ASSUME ContractInv, Mirrored, Mirrored', OnlyRefusals, OnlyRefusals', UNCHANGED env,
         NEW p \in Procs, Lone(p), Save(p) \/ Resave(p) \/ ClearAll(p)
  PROVE  Contract!Next
<1> USE DEF Contract!Next
<1>1. /\ Inv /\ TypeOK /\ Mirror /\ Recalls(p) /\ Bounded /\ Serial
      /\ pc[p] \in Steps /\ kind[p] \in Kinds
  BY DEF ContractInv, MirrorInv, SerialInv, Inv, TypeOK, OnlyRefusals
<1>2. /\ Active = OfCache /\ Active' = OfCache' /\ Faulty("load")' = Faulty("load")
      /\ UNCHANGED <<now, boxes>>
  BY DEF Mirrored, Faulty, Save, Resave, ClearAll
<1>3. \A o : End(p, o) => Contract!Answer(p, o)
  BY <1>1, <1>2, Answered
<1>4. CASE ClearAll(p)
  <2>1. /\ pc[p] = "clearAll" /\ cache' = [k \in Kinds |-> NoEntry] /\ End(p, "destroyed")
    BY <1>4, Harmless DEF ClearAll
  <2>2. OfCache' = {} /\ Cached' = {} /\ Cached # {}
    BY <1>1, <2>1 DEF OfCache, Cached, Fresh, Recalls
  <2>3. Asked(p).verb = "destroy"
    BY <2>1 DEF Asked, Destroying
  <2>4. Contract!Destroy(p)
    BY <1>2, <1>3, <2>1, <2>2, <2>3 DEF Contract!Destroy
  <2> QED
    BY <1>2, <2>4
<1>5. ASSUME Save(p) \/ Resave(p)
      PROVE  /\ sb[p] \in Entries /\ sb[p] # NoEntry
             /\ cache'[kind[p]] = sb[p] /\ \A k \in Kinds \ {kind[p]} : cache'[k] = cache[k]
             /\ Cached' = Cached \cup {kind[p]}
             /\ Asked(p) = [verb |-> "create", kind |-> kind[p]]
  <2>1. cache' = [cache EXCEPT ![kind[p]] = sb[p]] /\ pc[p] \in {"save", "resave"}
    BY <1>5, Harmless DEF Save, Resave, SaveToCache
  <2>2. sb[p] \in Entries /\ sb[p] # NoEntry
    BY <1>1, <2>1 DEF TypeOK
  <2>3. cache'[kind[p]] = sb[p] /\ \A k \in Kinds \ {kind[p]} : cache'[k] = cache[k]
    BY <1>1, <2>1 DEF TypeOK
  <2> QED
    BY <1>1, <2>1, <2>2, <2>3 DEF Cached, Asked, Destroying, ForMFA
<1>6. CASE Save(p)
  <2>1. /\ sb[p].id \in Ids /\ sb[p].expires \in Nat /\ now \in Nat /\ Life \in Nat
    BY <1>1, <1>5, <1>6, BrokerAssumption DEF Entries, TypeOK
  <2>2. pc[p] = "save" /\ \A k \in Kinds : ~Fresh(cache[k])
    BY <1>1, <1>6 DEF Save, Mirror, Reflects, Placing
  <2>3. sb[p].expires \in 0..(now + Life)
    <3>1. boxes[sb[p].id].ends = sb[p].expires
      BY <1>1, <2>2, Harmless DEF Inv, HeldVouched, Held, Vouched, Genuine
    <3> QED
      BY <1>1, <2>1, <3>1, Harmless DEF Bounded
  <2>4. OfCache = {}
    BY <2>2 DEF OfCache
  <2> DEFINE new == [id |-> sb[p].id, kind |-> kind[p], ends |-> sb[p].expires]
  <2>5. /\ \A k \in Kinds \ {kind[p]} : ~Fresh(cache[k])'
        /\ \A k \in Kinds : k = kind[p] =>
             /\ Fresh(cache[k])' <=> now < sb[p].expires
             /\ [id |-> cache'[k].id, kind |-> k, ends |-> cache'[k].expires] = new
    BY <1>2, <1>5, <1>6, <2>2 DEF Fresh
  <2>6. OfCache' = {s \in {new} : now < s.ends}
    <3>1. \A s \in OfCache' : s = new /\ now < sb[p].expires
      BY <2>5 DEF OfCache
    <3>2. now < sb[p].expires => new \in OfCache'
      BY <1>1, <2>5 DEF OfCache
    <3>3. new.ends = sb[p].expires
      OBVIOUS
    <3> HIDE DEF new
    <3> QED
      BY <3>1, <3>2, <3>3
  <2>7. \E i \in Ids, end \in 0..(now + Life) :
          OfCache' = {s \in {[id |-> i, kind |-> kind[p], ends |-> end]} : now < s.ends}
    BY <2>1, <2>3, <2>6
  <2>8. End(p, "created") \/ End(p, "unverified")
    BY <1>6 DEF Save
  <2>9. Contract!Create(p)
    BY <1>2, <1>3, <1>5, <1>6, <2>4, <2>7, <2>8 DEF Contract!Create, Contract!Running
  <2> QED
    BY <1>2, <2>9
<1>7. CASE Resave(p)
  <2>1. /\ pc[p] = "resave" /\ cache[kind[p]] # NoEntry
        /\ sb[p].id = cache[kind[p]].id /\ sb[p].expires = cache[kind[p]].expires
    BY <1>1, <1>7 DEF Resave, Serial, Seen, Reusing
  <2>2. \A k \in Kinds : /\ Fresh(cache[k])' <=> Fresh(cache[k])
                         /\ cache'[k].id = cache[k].id /\ cache'[k].expires = cache[k].expires
    BY <1>1, <1>2, <1>5, <1>7, <2>1 DEF Fresh
  <2>3. OfCache' = OfCache /\ Cached' = Cached /\ kind[p] \in Cached
    BY <1>1, <1>5, <1>7, <2>1, <2>2 DEF OfCache, Cached
  <2>4. \A s \in OfCache : s.kind = kind[p]
    BY <1>1, <2>1 DEF Recalls, Reusing, OfCache
  <2>5. End(p, "reused") \/ End(p, "unverified")
    BY <1>7 DEF Resave
  <2>6. Contract!Reuse(p)
    BY <1>2, <1>3, <1>5, <1>7, <2>3, <2>4, <2>5 DEF Contract!Reuse
  <2> QED
    BY <1>2, <2>6
<1> QED
  BY <1>4, <1>6, <1>7

LEMMA ContractStep ==
  ASSUME ContractInv, Mirrored, Mirrored', OnlyRefusals, [Next]_vars
  PROVE  [Contract!Next]_(Contract!vars)
<1> USE Harmless
<1>1. /\ Inv /\ TypeOK /\ Serial /\ OneByOne /\ UNCHANGED env /\ OnlyRefusals'
  BY DEF ContractInv, MirrorInv, SerialInv, Inv, OnlyRefusals, OneByOne, Next, vars
<1>2. CASE UNCHANGED vars \/ \E p \in Procs : Interrupt(p)
  <2>1. UNCHANGED <<now, cache, pc, kind, out>>
    BY <1>2 DEF vars, local, Interrupt
  <2>2. \A p \in Procs : Asked(p)' = Asked(p)
    BY <2>1 DEF Asked
  <2> QED
    BY <1>1, <2>1, <2>2, OnTheWay
<1>3. CASE Environment
  BY <1>1, <1>3, ContractTick DEF Environment
<1>4. ASSUME NEW p \in Procs, Acts(p) PROVE [Contract!Next]_(Contract!vars)
  <2>1. Lone(p)
    BY <1>1, <1>4, LoneActs DEF Serial
  <2>2. CASE Destroy(p) \/ \E k \in Kinds : Create(p, k) \/ GenerateMFA(p, k)
    BY <1>1, <2>2, ContractAsk
  <2>3. CASE Save(p) \/ Resave(p) \/ ClearAll(p)
    BY <1>1, <2>1, <2>3, ContractWrites
  <2>4. CASE Step(p) /\ ~Save(p) /\ ~Resave(p) /\ ~ClearAll(p)
    <3>1. UNCHANGED <<now, cache>> /\ pc[p] # "idle"
      BY <2>4
      DEF Step, NothingToReuse, Reuse, Reverify, RejectOtherActive, Authorize, Provisioned,
          CreateFails, Committed, CommitFails, Rollback, Verify, CachedSlug, Destroyed,
          DestroyFails, CachedForMFA, MFACode
    <3>2. CASE \/ End(p, "failed")
               \/ (Reuse(p) \/ Reverify(p)) /\ End(p, "reused")
               \/ RejectOtherActive(p) /\ End(p, "activeOther")
               \/ Destroyed(p) /\ End(p, "noActive")
               \/ MFACode(p) /\ End(p, "code")
      BY <1>1, <2>1, <3>1, <3>2, ContractAnswers
    <3>3. CASE ~\E o : End(p, o)
      <4>t. pc \in [Procs -> Steps] /\ kind \in [Procs -> Kinds]
        BY <1>1 DEF TypeOK
      <4>1. /\ UNCHANGED out
            /\ \/ pc[p] \in Destroying /\ pc'[p] \in Destroying
               \/ pc[p] \in ForMFA /\ pc'[p] \in ForMFA /\ kind'[p] = kind[p]
               \/ /\ pc[p] \notin Destroying \cup ForMFA \cup {"idle"}
                  /\ pc'[p] \notin Destroying \cup ForMFA \cup {"idle"}
                  /\ kind'[p] = kind[p]
        BY <2>4, <3>3, <4>t, Harmless
        DEF Step, NothingToReuse, Reuse, Reverify, RejectOtherActive, Authorize, Provisioned,
            CreateFails, Committed, CommitFails, Rollback, Verify, CachedSlug, Destroyed,
            DestroyFails, CachedForMFA, MFACode, Goto, Hold, Destroying, ForMFA
      <4>2. Asked(p)' = Asked(p)
        BY <4>1 DEF Asked, Destroying, ForMFA
      <4>3. \A q \in Procs : Asked(q)' = Asked(q)
        BY <2>1, <4>2, OthersAsk
      <4> QED
        BY <1>1, <3>1, <4>1, <4>3, OnTheWay
    <3>4. (\E o : End(p, o)) =>
             \/ End(p, "failed")
             \/ (Reuse(p) \/ Reverify(p)) /\ End(p, "reused")
             \/ RejectOtherActive(p) /\ End(p, "activeOther")
             \/ Destroyed(p) /\ End(p, "noActive")
             \/ MFACode(p) /\ End(p, "code")
      <4>1. ASSUME NEW step, step # "idle", Goto(p, step) PROVE ~\E o : End(p, o)
        BY <1>1, <4>1 DEF Goto, End, TypeOK
      <4>2. ASSUME NEW step, step # "idle", NEW e, Hold(p, e, step) PROVE ~\E o : End(p, o)
        BY <1>1, <4>2 DEF Hold, End, TypeOK
      <4>3. CachedSlug(p) => ~\E o : End(p, o)
        BY <1>1 DEF CachedSlug, End, TypeOK
      <4> QED
        BY <2>4, <4>1, <4>2, <4>3, Harmless
        DEF Step, NothingToReuse, Reuse, Reverify, RejectOtherActive, Authorize, Provisioned,
            CreateFails, Committed, CommitFails, Rollback, Verify, Destroyed,
            DestroyFails, CachedForMFA, MFACode
    <3> QED
      BY <3>2, <3>3, <3>4
  <2> QED
    BY <1>4, <2>2, <2>3, <2>4 DEF Acts, Crash
<1> QED
  BY <1>2, <1>3, <1>4 DEF Next, Acts

(***************************************************************************)
(* Under the conditions of CacheMirrorsAccount every command is, to those  *)
(* that come after it, one step of SandboxContract.                        *)
(***************************************************************************)
THEOREM CommandsAreAtomic == Spec => AllOrNothing
<1>1. ContractInv /\ Mirrored /\ Mirrored' /\ [Next]_vars
        => [OnlyRefusals => Contract!Next]_(Contract!vars)
  BY ContractStep
<1> QED
  BY <1>1, MirroredHolds, PTL DEF Spec, AllOrNothing

(***************************************************************************)
(* So from a start under those conditions SandboxService implements        *)
(* SandboxContract.                                                        *)
(***************************************************************************)
THEOREM ServiceImplements == Spec /\ OnlyRefusals => Contract!Spec
<1>1. Init => Contract!Init
  <2> SUFFICES ASSUME Init PROVE Contract!Init
    OBVIOUS
  <2>1. now \in 0..MaxTime
    BY InitTypes DEF TypeOK
  <2>2. Active = {} /\ Cached = {}
    BY DEF Init, BrokerInit, Active, OfAccount, OfCache, Registered, Fresh, Cached
  <2>3. /\ \A p \in Procs : Asked(p) = [verb |-> "none", kind |-> Aws]
        /\ out = [p \in Procs |-> "none"]
    BY DEF Init, Asked
  <2> QED
    BY <2>1, <2>2, <2>3 DEF Contract!Init, Contract!NoCall, Contract!Call
<1>2. OnlyRefusals /\ [Next]_vars => OnlyRefusals'
  BY DEF Next, vars, OnlyRefusals, OneByOne
<1>3. ContractInv /\ Mirrored /\ Mirrored' /\ OnlyRefusals /\ [Next]_vars
        => [Contract!Next]_(Contract!vars)
  BY ContractStep
<1> QED
  BY <1>1, <1>2, <1>3, MirroredHolds, PTL DEF Spec, Contract!Spec
=============================================================================
