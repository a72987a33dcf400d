--------------------------- MODULE SandboxProofs ---------------------------
(***************************************************************************)
(* For every number of invocations, kinds and sandboxes and whatever       *)
(* fails: the types of SandboxService, and FreshIsRegistered.              *)
(*                                                                         *)
(* FreshIsRegistered is not inductive: an entry gets into the cache from   *)
(* the hands of a command, long after the broker's answers it rests on.    *)
(* The invariant follows the sandbox from the answer to create (Genuine),  *)
(* over the answer to commit (Vouched), into the cache.                    *)
(***************************************************************************)
EXTENDS SandboxService, TLAPS

(* The broker has provisioned e, of kind k, and if its times can be relied *)
(* on, with the end that e gives.                                          *)
Genuine(e, k) ==
  /\ boxes[e.id].state # "unused"
  /\ boxes[e.id].kind = k
  /\ ~Faulty("times") => boxes[e.id].ends = e.expires

(* Moreover the account has it, or had, or its time is up.                 *)
Vouched(e, k) ==
  /\ Genuine(e, k)
  /\ now < boxes[e.id].ends => boxes[e.id].state \in {"registered", "ended"}

(* The steps of a command that holds a sandbox the account knows.          *)
Held == {"verify", "save", "reverify", "resave"}

CacheVouched == \A k \in Kinds : cache[k] # NoEntry => Vouched(cache[k], k)

HeldVouched ==
  \A p \in Procs :
    /\ pc[p] = "commit" => Genuine(sb[p], kind[p])
    /\ pc[p] \in Held => Vouched(sb[p], kind[p])

Inv == TypeOK /\ CacheVouched /\ HeldVouched

(* What no step undoes: the past of a provisioned sandbox.                 *)
Onward ==
  /\ now <= now' /\ env' = env
  /\ \A i \in Ids : boxes[i].state # "unused" =>
       /\ boxes'[i].state # "unused"
       /\ boxes'[i].kind = boxes[i].kind
       /\ boxes'[i].ends = boxes[i].ends
       /\ boxes[i].state \in {"registered", "ended"} => boxes'[i].state \in {"registered", "ended"}

-----------------------------------------------------------------------------
(* What a command or the cache holds stays true of it.                     *)
LEMMA OnwardKeeps ==
  ASSUME NEW e \in Entries, NEW k \in Kinds, TypeOK, TypeOK', Onward
  PROVE  /\ Genuine(e, k) => Genuine(e, k)'
         /\ Vouched(e, k) => Vouched(e, k)'
<1>1. /\ boxes[e.id].ends \in Nat /\ now \in Nat /\ now' \in Nat
      /\ Faulty("times")' <=> Faulty("times")
  BY DEF TypeOK, Box, Entries, Onward, Faulty
<1> QED
  BY <1>1 DEF Entries, Onward, Genuine, Vouched

(* A new sandbox ends at some time, and so does what is cached of it.      *)
LEMMA EndsTyped ==
  ASSUME TypeOK, NEW end \in Ends
  PROVE  /\ end \in Nat
         /\ Resolved(end) \subseteq Nat
         /\ ~Faulty("times") => Resolved(end) = {end}
  BY BrokerAssumption DEF TypeOK, Ends, Resolved

(* Every step of the account, or none, goes onward.                        *)
LEMMA AccountOnward ==
  ASSUME TypeOK, UNCHANGED env,
         \/ UNCHANGED <<now, boxes>>
         \/ Tick
         \/ (\E i \in Ids, k \in Kinds, end \in Nat : Provision(i, k, end)) /\ UNCHANGED now
         \/ (\E k \in Kinds : Register(k) \/ Terminate(k)) /\ UNCHANGED now
  PROVE  /\ Onward
         /\ now' \in 0..MaxTime
         /\ boxes' \in [Ids -> Box]
<1> USE BrokerAssumption DEF TypeOK
<1>1. CASE UNCHANGED <<now, boxes>>
  BY <1>1 DEF Onward
<1>2. CASE Tick
  BY <1>2 DEF Tick, Onward
<1>3. CASE (\E i \in Ids, k \in Kinds, end \in Nat : Provision(i, k, end)) /\ UNCHANGED now
  <2>1. PICK i \in Ids, k \in Kinds, end \in Nat : Provision(i, k, end)
    BY <1>3
  <2>2. boxes' \in [Ids -> Box]
    BY <2>1 DEF Provision, Box
  <2>3. Onward
    BY <1>3, <2>1 DEF Provision, Unused, Onward, Box
  <2> QED
    BY <1>3, <2>2, <2>3
<1>4. CASE (\E k \in Kinds : Register(k) \/ Terminate(k)) /\ UNCHANGED now
  <2>1. PICK k \in Kinds : Register(k) \/ Terminate(k)
    BY <1>4
  <2>2. CASE Register(k)
    BY <1>4, <2>2 DEF Register, Pending, Onward, Box
  <2>3. CASE Terminate(k)
    BY <1>4, <2>3 DEF Terminate, Owned, Registered, Onward, Box
  <2> QED
    BY <2>1, <2>2, <2>3
<1> QED
  BY <1>1, <1>2, <1>3, <1>4

-----------------------------------------------------------------------------
(* The shared and the local half of TypeOK.                                *)
SharedOK == now' \in 0..MaxTime /\ boxes' \in [Ids -> Box] /\ cache' \in [Kinds -> Entries \cup {NoEntry}]

Holding == {"reverify", "resave", "commit", "verify", "save"}

LocalOK ==
  /\ pc' \in [Procs -> Steps]
  /\ kind' \in [Procs -> Kinds]
  /\ sb' \in [Procs -> Entries \cup {NoEntry}]
  /\ halted' \in [Procs -> BOOLEAN]
  /\ out' \in [Procs -> Outcomes]
  /\ \A p \in Procs : pc'[p] \in Holding => sb'[p] # NoEntry

LEMMA Halves == SharedOK /\ LocalOK => TypeOK'
  BY DEF SharedOK, LocalOK, TypeOK, Holding

(* The three ways a command moves on keep the local types.                 *)
LEMMA GotoKeeps ==
  ASSUME TypeOK, NEW p \in Procs, NEW step \in Steps, Goto(p, step),
         step \in Holding => sb[p] # NoEntry
  PROVE  LocalOK
  BY DEF TypeOK, Goto, LocalOK, Holding

LEMMA HoldKeeps ==
  ASSUME TypeOK, NEW p \in Procs, NEW step \in Steps, NEW e \in Entries, Hold(p, e, step)
  PROVE  LocalOK
<1>1. e # NoEntry
  BY ServiceAssumption DEF Entries
<1> QED
  BY <1>1 DEF TypeOK, Hold, LocalOK, Holding

LEMMA HaltedKeeps ==
  ASSUME TypeOK, NEW p \in Procs, NEW step \in Steps \ Holding, HaltedTo(p, step)
  PROVE  LocalOK
  BY DEF TypeOK, HaltedTo, LocalOK, Holding

LEMMA EndKeeps ==
  ASSUME TypeOK, NEW p \in Procs, NEW outcome \in Outcomes, End(p, outcome)
  PROVE  LocalOK
<1> USE BrokerAssumption DEF TypeOK, End, LocalOK, Holding
<1>1. /\ kind' \in [Procs -> Kinds]
      /\ sb' \in [Procs -> Entries \cup {NoEntry}]
      /\ halted' \in [Procs -> BOOLEAN]
      /\ out' \in [Procs -> Outcomes]
  OBVIOUS
<1>2. pc' \in [Procs -> Steps]
  BY DEF Steps
<1>3. ASSUME NEW q \in Procs, pc'[q] \in Holding PROVE sb'[q] # NoEntry
  BY <1>3
<1> QED
  BY <1>1, <1>2, <1>3

(* A command begins with nothing in hand.                                 *)
LEMMA BeginKeeps ==
  ASSUME TypeOK, NEW p \in Procs, NEW step \in Steps \ Holding, NEW k \in Kinds,
         Begin(p, step, k)
  PROVE  SharedOK /\ LocalOK
<1>1. SharedOK
  BY DEF Begin, TypeOK, SharedOK
<1>2. pc' \in [Procs -> Steps] /\ kind' \in [Procs -> Kinds] /\ out' \in [Procs -> Outcomes]
  BY DEF Begin, TypeOK, Outcomes
<1>3. \A q \in Procs : pc'[q] \in Holding => pc[q] \in Holding
  BY DEF Begin, TypeOK
<1> QED
  BY <1>1, <1>2, <1>3 DEF Begin, TypeOK, LocalOK, Holding

LEMMA TypeStep == TypeOK /\ [Next]_vars => TypeOK'
<1> SUFFICES ASSUME TypeOK, [Next]_vars PROVE SharedOK /\ LocalOK
  BY Halves
<1> USE GotoKeeps, HoldKeeps, EndKeeps DEF SharedOK
<1>u. UNCHANGED <<now, boxes, cache>> => SharedOK
  BY DEF TypeOK
<1>e. UNCHANGED env
  BY DEF Next, vars
<1>t. /\ \A p \in Procs : sb[p] \in Entries \cup {NoEntry}
      /\ \A k \in Kinds : cache[k] \in Entries \cup {NoEntry}
      /\ kind \in [Procs -> Kinds]
      /\ \A p \in Procs : pc[p] \in Holding => sb[p] # NoEntry
  BY DEF TypeOK, Holding
<1>1. ASSUME NEW p \in Procs, NEW k \in Kinds, Create(p, k) \/ GenerateMFA(p, k)
      PROVE  SharedOK /\ LocalOK
  BY <1>1, BeginKeeps DEF Create, GenerateMFA, Steps, Holding
<1>2. ASSUME NEW p \in Procs, NothingToReuse(p) PROVE SharedOK /\ LocalOK
  BY <1>2, <1>u DEF NothingToReuse, Steps, Holding
<1>3. ASSUME NEW p \in Procs, Reuse(p) PROVE SharedOK /\ LocalOK
  <2>1. cache[kind[p]] \in Entries
    BY <1>3, <1>t DEF Reuse, Fresh
  <2>2. "reused" \in Outcomes /\ "reverify" \in Steps
    BY DEF Outcomes, Steps
  <2> QED
    BY <1>3, <1>u, <2>1, <2>2 DEF Reuse
<1>4. ASSUME NEW p \in Procs, Reverify(p) PROVE SharedOK /\ LocalOK
  <2>1. sb[p] \in Entries
    BY <1>4, <1>t DEF Reverify, Holding
  <2>2. \A v \in BOOLEAN : [sb[p] EXCEPT !.verified = v] \in Entries
    BY <2>1 DEF Entries
  <2>3. "reused" \in Outcomes /\ "resave" \in Steps
    BY DEF Outcomes, Steps
  <2> QED
    BY <1>4, <1>u, <2>2, <2>3 DEF Reverify, Verdicts
<1>5. ASSUME NEW p \in Procs, Resave(p) \/ Save(p) PROVE SharedOK /\ LocalOK
  <2>1. SharedOK
    BY <1>5, <1>t DEF Resave, Save, SaveToCache, TypeOK
  <2>2. {"reused", "unverified", "created"} \subseteq Outcomes
    BY DEF Outcomes
  <2>3. \E outcome \in Outcomes : End(p, outcome)
    BY <1>5, <2>2 DEF Resave, Save
  <2> QED
    BY <2>1, <2>3
<1>6. ASSUME NEW p \in Procs, RejectOtherActive(p) PROVE SharedOK /\ LocalOK
  BY <1>6, <1>u DEF RejectOtherActive, Steps, Outcomes, Holding
<1>7. ASSUME NEW p \in Procs,
             \/ Authorize(p, "auth", "create")
             \/ Authorize(p, "destroyAuth", "destroy")
             \/ Authorize(p, "mfaAuth", "mfaCode")
      PROVE  SharedOK /\ LocalOK
  BY <1>7, <1>u DEF Authorize, Steps, Outcomes, Holding
<1>8. ASSUME NEW p \in Procs, Provisioned(p) PROVE SharedOK /\ LocalOK
  <2>1. PICK i \in Ids, end \in Ends :
               /\ Provision(i, kind[p], end)
               /\ \/ \E e \in Resolved(end) : Hold(p, Entry(i, FALSE, e), "commit")
                  \/ End(p, "failed")
    BY <1>8 DEF Provisioned
  <2>2. SharedOK
    BY <1>8, <1>e, <1>t, <2>1, AccountOnward, EndsTyped DEF Provisioned, TypeOK
  <2>3. \A e \in Resolved(end) : Entry(i, FALSE, e) \in Entries
    BY EndsTyped DEF Entry, Entries
  <2> QED
    BY <2>1, <2>2, <2>3 DEF Steps, Outcomes
<1>9. ASSUME NEW p \in Procs, CreateFails(p) \/ DestroyFails(p) PROVE SharedOK /\ LocalOK
  BY <1>9, <1>u DEF CreateFails, DestroyFails, Outcomes
<1>10. ASSUME NEW p \in Procs, Committed(p) PROVE SharedOK /\ LocalOK
  <2>1. SharedOK
    BY <1>10, <1>e, <1>t, AccountOnward DEF Committed, TypeOK
  <2>2. {"verify", "rollback"} \subseteq Steps /\ "rollback" \notin Holding /\ sb[p] # NoEntry
    BY <1>10, <1>t DEF Committed, Steps, Holding
  <2> QED
    BY <1>10, <2>1, <2>2, HaltedKeeps DEF Committed
<1>11. ASSUME NEW p \in Procs, CommitFails(p) PROVE SharedOK /\ LocalOK
  BY <1>11, <1>u DEF CommitFails, Steps, Holding
<1>12. ASSUME NEW p \in Procs, Rollback(p) PROVE SharedOK /\ LocalOK
  <2>1. SharedOK
    BY <1>12, <1>e, <1>t, AccountOnward DEF Rollback, TypeOK
  <2> QED
    BY <1>12, <2>1 DEF Rollback, Outcomes
<1>13. ASSUME NEW p \in Procs, Verify(p) PROVE SharedOK /\ LocalOK
  <2>1. sb[p] \in Entries
    BY <1>13, <1>t DEF Verify, Holding
  <2>2. \A v \in BOOLEAN : [sb[p] EXCEPT !.verified = v] \in Entries
    BY <2>1 DEF Entries
  <2>3. "save" \in Steps
    BY DEF Steps
  <2> QED
    BY <1>13, <1>u, <2>2, <2>3 DEF Verify, Verdicts
<1>14. ASSUME NEW p \in Procs, Destroy(p) PROVE SharedOK /\ LocalOK
  BY <1>14, BeginKeeps, BrokerAssumption DEF Destroy, Steps, Holding
<1>15. ASSUME NEW p \in Procs, CachedSlug(p) PROVE SharedOK /\ LocalOK
  BY <1>15, <1>u DEF CachedSlug, TypeOK, LocalOK, Steps, Outcomes, Holding
<1>16. ASSUME NEW p \in Procs, Destroyed(p) PROVE SharedOK /\ LocalOK
  <2>1. SharedOK
    BY <1>16, <1>e, <1>t, AccountOnward DEF Destroyed, TypeOK
  <2>2. "clearAll" \in Steps \ Holding /\ {"failed", "noActive"} \subseteq Outcomes
    BY DEF Steps, Outcomes, Holding
  <2> QED
    BY <1>16, <2>1, <2>2 DEF Destroyed
<1>17. ASSUME NEW p \in Procs, ClearAll(p) PROVE SharedOK /\ LocalOK
  <2>1. SharedOK
    BY <1>17 DEF ClearAll, TypeOK
  <2> QED
    BY <1>17, <2>1 DEF ClearAll, Outcomes
<1>18. ASSUME NEW p \in Procs, Interrupt(p) PROVE SharedOK /\ LocalOK
  BY <1>18, <1>u DEF Interrupt, TypeOK, LocalOK, Holding
<1>19. ASSUME NEW p \in Procs, Crash(p) PROVE SharedOK /\ LocalOK
  BY <1>19, <1>u DEF Crash, Outcomes
<1>20. ASSUME NEW p \in Procs, CachedForMFA(p) \/ MFACode(p) PROVE SharedOK /\ LocalOK
  BY <1>20, <1>u DEF CachedForMFA, MFACode, Steps, Outcomes, Holding
<1>21. CASE Environment
  <2>1. SharedOK
    BY <1>21, <1>e, AccountOnward DEF Environment, EndUpstream, Tick, TypeOK
  <2> QED
    BY <1>21, <2>1 DEF Environment, local, TypeOK, LocalOK, Holding
<1>22. CASE UNCHANGED vars
  BY <1>22, <1>u DEF vars, local, TypeOK, LocalOK, Holding
<1> QED
  BY <1>1, <1>2, <1>3, <1>4, <1>5, <1>6, <1>7, <1>8, <1>9, <1>10, <1>11, <1>12, <1>13,
     <1>14, <1>15, <1>16, <1>17, <1>18, <1>19, <1>20, <1>21, <1>22
     DEF Next, Step

(* Whatever was before the start, the types hold there.                    *)
LEMMA InitTypes == Init => TypeOK
<1> SUFFICES ASSUME Init PROVE TypeOK
  OBVIOUS
<1>1. env.start \in 0..MaxTime
  BY ServiceAssumption DEF Init
<1>2. now \in 0..MaxTime /\ boxes \in [Ids -> Box]
  BY <1>1, BrokerAssumption DEF Init, BrokerInit, Box
<1> QED
  BY <1>2, BrokerAssumption DEF Init, TypeOK, Steps, Outcomes

(* The types hold in every reachable state.                                *)
THEOREM TypeCorrect == Spec => []TypeOK
<1>1. Init => TypeOK
  BY InitTypes
<1> QED
  BY <1>1, TypeStep, PTL DEF Spec
-----------------------------------------------------------------------------
(* Every step goes onward.                                                 *)
LEMMA NextOnward == TypeOK /\ [Next]_vars => Onward
<1> SUFFICES ASSUME TypeOK, [Next]_vars PROVE Onward
  OBVIOUS
<1>e. UNCHANGED env
  BY DEF Next, vars
<1>1. UNCHANGED <<now, boxes>> => Onward
  BY <1>e, AccountOnward
<1>2. ASSUME NEW p \in Procs, Provisioned(p) PROVE Onward
  BY <1>2, <1>e, AccountOnward, EndsTyped DEF Provisioned, TypeOK
<1>3. ASSUME NEW p \in Procs, Committed(p) \/ Rollback(p) \/ Destroyed(p) PROVE Onward
  BY <1>3, <1>1, <1>e, AccountOnward DEF Committed, Rollback, Destroyed, TypeOK
<1>4. CASE Environment
  BY <1>4, <1>e, AccountOnward DEF Environment, EndUpstream
<1> QED
  BY <1>1, <1>2, <1>3, <1>4
     DEF Next, Step, vars, Create, Destroy, Begin, NothingToReuse, Reuse, Reverify, Resave,
         RejectOtherActive, Authorize, CreateFails, CommitFails, Verify, Save, CachedSlug,
         DestroyFails, ClearAll, GenerateMFA, CachedForMFA, MFACode, Interrupt, Crash

(* While the cache is left alone, its entries stay vouched for.            *)
LEMMA CacheKeeps ==
  ASSUME TypeOK, TypeOK', Onward, CacheVouched, NEW k \in Kinds, cache'[k] # NoEntry,
         cache'[k] = cache[k]
  PROVE  Vouched(cache[k], k)'
<1>1. cache[k] \in Entries /\ Vouched(cache[k], k) /\ now \in Nat /\ now' \in Nat
  BY DEF TypeOK, CacheVouched
<1> QED
  BY <1>1, OnwardKeeps

(* What p holds stays vouched for, whatever the step.                      *)
LEMMA HeldKeeps ==
  ASSUME TypeOK, TypeOK', Onward, HeldVouched, NEW p \in Procs,
         pc'[p] = pc[p], sb'[p] = sb[p], kind'[p] = kind[p]
  PROVE  /\ pc'[p] = "commit" => Genuine(sb[p], kind[p])'
         /\ pc'[p] \in Held => Vouched(sb[p], kind[p])'
<1>1. now \in Nat /\ now' \in Nat /\ kind[p] \in Kinds
  BY DEF TypeOK
<1>2. ASSUME pc[p] = "commit" \/ pc[p] \in Held PROVE sb[p] \in Entries
  BY <1>2 DEF TypeOK, Held
<1>3. ASSUME pc[p] = "commit" PROVE Genuine(sb[p], kind[p])'
  BY <1>1, <1>2, <1>3, OnwardKeeps DEF HeldVouched, Genuine
<1>4. ASSUME pc[p] \in Held PROVE Vouched(sb[p], kind[p])'
  BY <1>1, <1>2, <1>4, OnwardKeeps DEF HeldVouched, Genuine, Vouched
<1> QED
  BY <1>3, <1>4

(* A step of p that ends its command, or goes where nothing is vouched     *)
(* for, concerns only the others.                                          *)
LEMMA OthersHold ==
  ASSUME TypeOK, TypeOK', Onward, HeldVouched, NEW p \in Procs,
         \A q \in Procs \ {p} : pc'[q] = pc[q] /\ sb'[q] = sb[q] /\ kind'[q] = kind[q],
         pc'[p] = "commit" => Genuine(sb[p], kind[p])',
         pc'[p] \in Held => Vouched(sb[p], kind[p])'
  PROVE  HeldVouched'
<1>1. ASSUME NEW q \in Procs
      PROVE  /\ pc'[q] = "commit" => Genuine(sb[q], kind[q])'
             /\ pc'[q] \in Held => Vouched(sb[q], kind[q])'
  <2>1. CASE q = p
    BY <2>1
  <2>2. CASE q # p
    BY <2>2, HeldKeeps
  <2> QED
    BY <2>1, <2>2
<1> QED
  BY <1>1 DEF HeldVouched

LEMMA InvStep == Inv /\ [Next]_vars => Inv'
<1> SUFFICES ASSUME TypeOK, CacheVouched, HeldVouched, [Next]_vars
             PROVE  CacheVouched' /\ HeldVouched'
  BY TypeStep DEF Inv
<1>t. TypeOK' /\ Onward
  BY TypeStep, NextOnward
<1>n. now \in Nat /\ now' \in Nat /\ \A p \in Procs : kind[p] \in Kinds
  BY <1>t DEF TypeOK
<1>c. UNCHANGED cache => CacheVouched'
  BY <1>t, CacheKeeps DEF CacheVouched
<1>m. ASSUME NEW p \in Procs, NEW step \in Steps \ (Held \cup {"commit"}),
             Goto(p, step) \/ HaltedTo(p, step) \/ \E o \in Outcomes : End(p, o)
      PROVE  HeldVouched'
  <2>1. /\ pc'[p] # "commit" /\ pc'[p] \notin Held
        /\ \A q \in Procs \ {p} : pc'[q] = pc[q] /\ sb'[q] = sb[q] /\ kind'[q] = kind[q]
    BY <1>m DEF Goto, HaltedTo, End, TypeOK, Held
  <2> QED
    BY <1>t, <2>1, OthersHold
<1>h. ASSUME NEW p \in Procs, NEW e \in Entries, NEW step \in Held,
             Hold(p, e, step), Vouched(e, kind[p])
      PROVE  HeldVouched'
  <2>1. /\ pc'[p] # "commit" /\ sb'[p] = e /\ kind'[p] = kind[p]
        /\ \A q \in Procs \ {p} : pc'[q] = pc[q] /\ sb'[q] = sb[q] /\ kind'[q] = kind[q]
    BY <1>h DEF Hold, TypeOK, Held
  <2>2. Vouched(sb[p], kind[p])'
    BY <1>h, <1>n, <1>t, <2>1, OnwardKeeps DEF Vouched, Genuine
  <2> QED
    BY <1>t, <2>1, <2>2, OthersHold
<1>1. ASSUME NEW p \in Procs, Destroy(p) \/ \E k \in Kinds : Create(p, k) \/ GenerateMFA(p, k)
      PROVE  CacheVouched' /\ HeldVouched'
  <2>1. /\ pc'[p] # "commit" /\ pc'[p] \notin Held
        /\ \A q \in Procs \ {p} : pc'[q] = pc[q] /\ sb'[q] = sb[q] /\ kind'[q] = kind[q]
        /\ UNCHANGED cache
    BY <1>1 DEF Create, Destroy, GenerateMFA, Begin, TypeOK, Held
  <2> QED
    BY <1>c, <1>t, <2>1, OthersHold
<1>2. ASSUME NEW p \in Procs,
             \/ NothingToReuse(p) \/ RejectOtherActive(p) \/ CreateFails(p)
             \/ Authorize(p, "auth", "create") \/ Authorize(p, "destroyAuth", "destroy")
             \/ CachedForMFA(p) \/ Authorize(p, "mfaAuth", "mfaCode") \/ MFACode(p)
             \/ CommitFails(p) \/ Rollback(p) \/ Destroyed(p) \/ DestroyFails(p) \/ Crash(p)
      PROVE  CacheVouched' /\ HeldVouched'
  <2>1. UNCHANGED cache
    BY <1>2 DEF NothingToReuse, RejectOtherActive, CreateFails, Authorize, CommitFails,
                Rollback, Destroyed, DestroyFails, CachedForMFA, MFACode, Crash
  <2>2. {"reject", "auth", "create", "destroy", "rollback", "clearAll", "mfaAuth", "mfaCode"}
          \subseteq Steps \ (Held \cup {"commit"})
    BY DEF Steps, Held
  <2>3. {"failed", "activeOther", "noActive", "code", "crashed"} \subseteq Outcomes
    BY DEF Outcomes
  <2>4. \E step \in Steps \ (Held \cup {"commit"}) :
          Goto(p, step) \/ \E o \in Outcomes : End(p, o)
    BY <1>2, <2>2, <2>3
       DEF NothingToReuse, RejectOtherActive, CreateFails, Authorize, CommitFails,
           Rollback, Destroyed, DestroyFails, CachedForMFA, MFACode, Crash
  <2> QED
    BY <1>c, <1>m, <2>1, <2>4
<1>3. ASSUME NEW p \in Procs, Reuse(p) PROVE CacheVouched' /\ HeldVouched'
  <2>1. CASE cache[kind[p]].verified
    BY <1>3, <1>c, <1>m, <2>1 DEF Reuse, Steps, Outcomes, Held
  <2>2. CASE ~cache[kind[p]].verified
    <3>1. cache[kind[p]] \in Entries /\ Vouched(cache[kind[p]], kind[p])
      BY <1>3, <1>n DEF Reuse, Fresh, TypeOK, CacheVouched
    <3> QED
      BY <1>3, <1>c, <1>h, <2>2, <3>1 DEF Reuse, Held
  <2> QED
    BY <2>1, <2>2
<1>4. ASSUME NEW p \in Procs, Reverify(p) \/ Verify(p) PROVE CacheVouched' /\ HeldVouched'
  <2>1. sb[p] \in Entries /\ Vouched(sb[p], kind[p])
    BY <1>4 DEF Reverify, Verify, TypeOK, HeldVouched, Held
  <2>2. ASSUME NEW v \in BOOLEAN
        PROVE  [sb[p] EXCEPT !.verified = v] \in Entries
               /\ Vouched([sb[p] EXCEPT !.verified = v], kind[p])
    BY <2>1 DEF Entries, Vouched, Genuine
  <2>3. ASSUME End(p, "reused") PROVE HeldVouched'
    BY <1>m, <2>3 DEF Outcomes, Steps, Held
  <2>4. ASSUME NEW v \in BOOLEAN, NEW step \in Held,
               Hold(p, [sb[p] EXCEPT !.verified = v], step)
        PROVE  HeldVouched'
    BY <1>h, <2>2, <2>4
  <2> QED
    BY <1>4, <1>c, <2>3, <2>4 DEF Reverify, Verify, Verdicts, Held
<1>5. ASSUME NEW p \in Procs, Resave(p) \/ Save(p) PROVE CacheVouched' /\ HeldVouched'
  <2>1. HeldVouched'
    <3>1. \E o \in Outcomes : End(p, o)
      BY <1>5 DEF Resave, Save, Outcomes
    <3> QED
      BY <1>m, <3>1 DEF Steps, Held
  <2>2. sb[p] \in Entries /\ Vouched(sb[p], kind[p]) /\ UNCHANGED <<now, boxes>>
    BY <1>5 DEF Resave, Save, TypeOK, HeldVouched, Held
  <2>3. ASSUME cache' = [cache EXCEPT ![kind[p]] = sb[p]] PROVE CacheVouched'
    <3> SUFFICES ASSUME NEW k \in Kinds, cache'[k] # NoEntry PROVE Vouched(cache[k], k)'
      BY DEF CacheVouched
    <3>1. CASE k = kind[p]
      <4>1. cache'[k] = sb[p]
        BY <2>3, <3>1 DEF TypeOK
      <4> QED
        BY <1>t, <2>2, <3>1, <4>1 DEF Vouched, Genuine, Onward, Faulty
    <3>2. CASE k # kind[p]
      <4>1. cache'[k] = cache[k]
        BY <2>3, <3>2 DEF TypeOK
      <4> QED
        BY <1>t, <4>1, CacheKeeps
    <3> QED
      BY <3>1, <3>2
  <2> QED
    BY <1>5, <1>c, <2>1, <2>3 DEF Resave, Save, SaveToCache
<1>6. ASSUME NEW p \in Procs, Provisioned(p) PROVE CacheVouched' /\ HeldVouched'
  <2>1. PICK i \in Ids, end \in Ends :
               /\ Provision(i, kind[p], end)
               /\ \/ \E e \in Resolved(end) : Hold(p, Entry(i, FALSE, e), "commit")
                  \/ End(p, "failed")
    BY <1>6 DEF Provisioned
  <2>2. CASE End(p, "failed")
    BY <1>6, <1>c, <1>m, <2>2 DEF Provisioned, Outcomes, Steps, Held
  <2>3. ASSUME NEW e \in Resolved(end), Hold(p, Entry(i, FALSE, e), "commit")
        PROVE  CacheVouched' /\ HeldVouched'
    <3>1. /\ pc'[p] = "commit" /\ kind'[p] = kind[p] /\ sb'[p] = Entry(i, FALSE, e)
          /\ \A q \in Procs \ {p} : pc'[q] = pc[q] /\ sb'[q] = sb[q] /\ kind'[q] = kind[q]
      BY <2>3 DEF Hold, TypeOK
    <3>2. boxes'[i].state = "provisioned" /\ boxes'[i].kind = kind[p] /\ boxes'[i].ends = end
      BY <2>1 DEF Provision, TypeOK
    <3>3. ~Faulty("times")' => e = end
      BY <1>t, <2>1, <2>3, EndsTyped DEF Onward, Faulty
    <3>5. Genuine(sb[p], kind[p])'
      BY <3>1, <3>2, <3>3 DEF Genuine, Entry
    <3>4. HeldVouched'
      BY <1>t, <3>1, <3>5, OthersHold DEF Held
    <3> QED
      BY <1>6, <1>c, <3>4 DEF Provisioned
  <2> QED
    BY <2>1, <2>2, <2>3
<1>7. ASSUME NEW p \in Procs, Committed(p) PROVE CacheVouched' /\ HeldVouched'
  <2>1. CASE Goto(p, "rollback") \/ HaltedTo(p, "rollback")
    BY <1>7, <1>c, <1>m, <2>1 DEF Committed, Steps, Held
  <2>2. CASE Goto(p, "verify")
    <3>1. sb[p] \in Entries /\ Genuine(sb[p], kind[p]) /\ boxes[sb[p].id] \in Box
      BY <1>7 DEF Committed, TypeOK, HeldVouched, Entries
    <3>2. ASSUME now < boxes[sb[p].id].ends
          PROVE  boxes'[sb[p].id].state \in {"registered", "ended"}
      <4>1. CASE boxes[sb[p].id].state = "provisioned"
        <5>1. sb[p].id \in Pending(kind[p])
          BY <3>1, <3>2, <4>1 DEF Pending, Running, Genuine, Entries
        <5> QED
          BY <1>7, <3>1, <5>1 DEF Committed, Register, TypeOK, Entries
      <4>2. CASE boxes[sb[p].id].state \in {"registered", "ended"}
        BY <1>t, <3>1, <4>2 DEF Onward, Entries
      <4> QED
        BY <3>1, <4>1, <4>2 DEF Genuine, Box
    <3>3. Genuine(sb[p], kind[p])' /\ UNCHANGED <<sb, now, kind>>
      <4>1. UNCHANGED <<sb, now, kind>>
        BY <1>7, <2>2 DEF Committed, Goto
      <4> QED
        BY <1>t, <1>n, <3>1, <4>1, OnwardKeeps DEF Genuine
    <3>4. Vouched(sb[p], kind[p])'
      BY <1>t, <3>1, <3>2, <3>3 DEF Vouched, Genuine, Onward, Entries
    <3>5. pc' = [pc EXCEPT ![p] = "verify"]
      BY <2>2 DEF Goto
    <3>6. HeldVouched'
      BY <1>t, <3>3, <3>4, <3>5, OthersHold DEF TypeOK
    <3> QED
      BY <1>7, <1>c, <3>6 DEF Committed
  <2> QED
    BY <1>7, <2>1, <2>2 DEF Committed
<1>8. ASSUME NEW p \in Procs, ClearAll(p) PROVE CacheVouched' /\ HeldVouched'
  <2>1. HeldVouched'
    BY <1>8, <1>m DEF ClearAll, Outcomes, Steps, Held
  <2>2. CASE cache' = [k \in Kinds |-> NoEntry]
    BY <2>1, <2>2 DEF CacheVouched
  <2> QED
    BY <1>8, <1>c, <2>1, <2>2 DEF ClearAll
<1>9. ASSUME NEW p \in Procs, CachedSlug(p) PROVE CacheVouched' /\ HeldVouched'
  <2>1. /\ pc'[p] # "commit" /\ pc'[p] \notin Held
        /\ \A q \in Procs \ {p} : pc'[q] = pc[q] /\ sb'[q] = sb[q] /\ kind'[q] = kind[q]
        /\ UNCHANGED cache
    BY <1>9 DEF CachedSlug, TypeOK, Held
  <2> QED
    BY <1>c, <1>t, <2>1, OthersHold
<1>10. ASSUME UNCHANGED <<cache, pc, sb, kind>> PROVE CacheVouched' /\ HeldVouched'
  BY <1>10, <1>c, <1>t, HeldKeeps DEF HeldVouched
<1>11. ASSUME NEW p \in Procs, Interrupt(p) PROVE CacheVouched' /\ HeldVouched'
  BY <1>11, <1>10 DEF Interrupt
<1>12. CASE Environment \/ UNCHANGED vars
  BY <1>12, <1>10 DEF Environment, vars, local
<1> QED
  BY <1>1, <1>2, <1>3, <1>4, <1>5, <1>6, <1>7, <1>8, <1>9, <1>11, <1>12 DEF Next, Step

(* The invariant implies the property: what an entry that is vouched for   *)
(* names is registered with the account as long as it runs.                *)
LEMMA InvGivesRegistered == Inv => FreshIsRegistered
  BY DEF Inv, FreshIsRegistered, CacheVouched, Vouched, Genuine, Fresh, Running, Registered

(***************************************************************************)
(* Every fresh cache entry names a sandbox of its kind that is registered  *)
(* with the account as long as it runs, for any number of concurrent       *)
(* invocations, any faults, any ends the broker gives its sandboxes and    *)
(* any bound on the clock.                                                 *)
(***************************************************************************)
THEOREM CacheRegistered == Spec => []FreshIsRegistered
<1>1. Init => Inv
  <2>1. Init => TypeOK
    BY InitTypes
  <2> QED
    BY <2>1 DEF Init, Inv, CacheVouched, HeldVouched, Held
<1> QED
  BY <1>1, InvStep, InvGivesRegistered, PTL DEF Spec
=============================================================================
