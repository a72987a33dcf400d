--------------------------- MODULE SandboxService ---------------------------
(***************************************************************************)
(* internal/core/sandbox/service.go with the adapters it drives: create,   *)
(* destroy and mfa, run by several invocations of whzbox that share the    *)
(* sandbox cache and the Whizlabs account.                                 *)
(*                                                                         *)
(* One step is one call through a port: to the store, to the session, to   *)
(* the broker or to the provider's verifier.  A call to the broker may     *)
(* fail before it had an effect ("refuse"), or have its effect and fail    *)
(* all the same: its answer is "lost", or an "interrupt" cancels the       *)
(* request in flight.  An interrupted invocation carries on, and its       *)
(* remaining calls over the network fail at once; the store takes no       *)
(* notice of the context.  The broker's "times" may be of its own choice,  *)
(* or unusable.                                                            *)
(***************************************************************************)
EXTENDS Broker

CONSTANTS
  Procs,        \* the invocations
  Verifiable,   \* the kinds whose provider verifies credentials
  Coded,        \* the kinds with console MFA codes
  Environments, \* the circumstances of one behaviour or another
  NoEntry       \* no cached sandbox

ASSUME ServiceAssumption ==
  /\ IsFiniteSet(Procs)
  /\ Verifiable \subseteq Kinds /\ Coded \subseteq Kinds
  /\ Environments \subseteq
       [crew : Nat, faults : SUBSET {"refuse", "lost", "times", "verify", "load", "save",
                                     "clear", "interrupt", "crash", "upstream"},
        start : 0..MaxTime, left : Nat]
  /\ NoEntry \notin [id : Ids, verified : BOOLEAN, expires : Nat]

VARIABLES
  cache,      \* cache[k]: the cached sandbox of kind k
  pc,         \* pc[p]: the port p calls next
  kind,       \* kind[p]: the kind p creates, or the one whose route it destroys by
  sb,         \* sb[p]: the sandbox p holds
  halted,     \* halted[p]: p's context is cancelled
  out,        \* out[p]: how p's last command ended
  env         \* how many invocations run at a time and what may go wrong, when
              \* the behaviour starts and how many sandboxes it will see

local == <<pc, kind, sb, halted, out>>
vars == <<now, boxes, cache, local, env>>

Entry(i, v, e) == [id |-> i, verified |-> v, expires |-> e]
Entries == [id : Ids, verified : BOOLEAN, expires : Nat]

Steps == {"idle", "reuse", "reverify", "resave", "reject", "auth", "create", "commit",
          "rollback", "verify", "save", "slug", "destroyAuth", "destroy", "clearAll",
          "mfa", "mfaAuth", "mfaCode"}

Outcomes == {"none", "created", "reused", "unverified", "activeOther", "failed",
             "destroyed", "noActive", "code", "crashed"}

(* !ExpiresAt.After(now) is a miss: an entry is dead at the very instant.  *)
Fresh(e) == e # NoEntry /\ now < e.expires

Faulty(f) == f \in env.faults
Online(p) == ~halted[p]

(* What had its effect may fail for the caller all the same.               *)
Unanswered == Faulty("lost") \/ Faulty("interrupt")

Goto(p, step) == pc' = [pc EXCEPT ![p] = step] /\ UNCHANGED <<kind, sb, halted, out>>

Hold(p, e, step) ==
  /\ sb' = [sb EXCEPT ![p] = e]
  /\ pc' = [pc EXCEPT ![p] = step]
  /\ UNCHANGED <<kind, halted, out>>

End(p, outcome) ==
  /\ pc' = [pc EXCEPT ![p] = "idle"]
  /\ kind' = [kind EXCEPT ![p] = Aws]
  /\ sb' = [sb EXCEPT ![p] = NoEntry]
  /\ halted' = [halted EXCEPT ![p] = FALSE]
  /\ out' = [out EXCEPT ![p] = outcome]

Begin(p, step, k) ==
  /\ pc[p] = "idle"
  /\ Cardinality({q \in Procs : pc[q] # "idle"}) < env.crew
  /\ pc' = [pc EXCEPT ![p] = step]
  /\ kind' = [kind EXCEPT ![p] = k]
  /\ out' = [q \in Procs |-> IF pc[q] = "idle" THEN "none" ELSE out[q]]
  /\ UNCHANGED <<now, boxes, cache, sb, halted>>

-----------------------------------------------------------------------------
(* Service.Create                                                          *)

Create(p, k) == Begin(p, "reuse", k)

(* loadReusableSandbox: a cache that cannot be read counts as empty.       *)
NothingToReuse(p) ==
  /\ pc[p] = "reuse"
  /\ ~Fresh(cache[kind[p]]) \/ Faulty("load")
  /\ Goto(p, "reject")
  /\ UNCHANGED <<now, boxes, cache>>

(* Mutant of Reuse: the entry is verified again without being held.        *)
ReuseEmptyHanded(p) ==
  /\ pc[p] = "reuse"
  /\ Fresh(cache[kind[p]])
  /\ IF cache[kind[p]].verified THEN End(p, "reused") ELSE Goto(p, "reverify")
  /\ UNCHANGED <<now, boxes, cache>>

Reuse(p) ==
  /\ pc[p] = "reuse"
  /\ Fresh(cache[kind[p]])
  /\ IF cache[kind[p]].verified
     THEN End(p, "reused")
     ELSE Hold(p, cache[kind[p]], "reverify")
  /\ UNCHANGED <<now, boxes, cache>>

(* The provider's answers about the credentials p holds.                   *)
VerifyPasses(p) == kind[p] \in Verifiable /\ Online(p) /\ Running(sb[p].id)
VerifyFails(p)  == kind[p] \in Verifiable /\ (Faulty("verify") \/ ~Online(p) \/ ~Running(sb[p].id))
Verdicts(p) ==
  {v \in BOOLEAN : (v /\ VerifyPasses(p)) \/ (~v /\ (VerifyFails(p) \/ kind[p] \notin Verifiable))}

(* reverifyCachedSandbox: the verdict is cached; without a verifier the    *)
(* entry is handed out as it is.                                           *)
Reverify(p) ==
  /\ pc[p] = "reverify"
  /\ IF kind[p] \in Verifiable
     THEN \E v \in Verdicts(p) : Hold(p, [sb[p] EXCEPT !.verified = v], "resave")
     ELSE End(p, "reused")
  /\ UNCHANGED <<now, boxes, cache>>

(* store.Save: its failure is logged and changes nothing else.             *)
SaveToCache(p) ==
  \/ cache' = [cache EXCEPT ![kind[p]] = sb[p]]
  \/ Faulty("save") /\ UNCHANGED cache

Resave(p) ==
  /\ pc[p] = "resave"
  /\ SaveToCache(p)
  /\ End(p, IF sb[p].verified THEN "reused" ELSE "unverified")
  /\ UNCHANGED <<now, boxes>>

(* rejectOtherActiveSandbox                                                *)
OtherFresh(p) == \E k \in Kinds \ {kind[p]} : Fresh(cache[k])

(* Mutant of RejectOtherActive: no sandbox stands in the way of another.   *)
RejectNone(p) ==
  /\ pc[p] = "reject"
  /\ Goto(p, "auth")
  /\ UNCHANGED <<now, boxes, cache>>

RejectOtherActive(p) ==
  /\ pc[p] = "reject"
  /\ \/ OtherFresh(p) /\ End(p, "activeOther")
     \/ (~OtherFresh(p) \/ Faulty("load")) /\ Goto(p, "auth")
  /\ UNCHANGED <<now, boxes, cache>>

(* session.EnsureValid: a valid session, or the command ends.              *)
Authorize(p, from, to) ==
  /\ pc[p] = from
  /\ \/ Online(p) /\ Goto(p, to)
     \/ ~Online(p) /\ End(p, "failed")
     \/ Faulty("refuse") /\ End(p, "failed")
  /\ UNCHANGED <<now, boxes, cache>>

(* The end of a new sandbox: what was asked for, or what the broker likes. *)
Ends == IF Faulty("times") THEN now..(MaxTime + 1) ELSE {now + Life}

(* resolveSandboxTimes: the end the broker gives, unless its times do not  *)
(* parse or are no interval; then the duration asked for, from now on.     *)
Resolved(end) == {end} \cup (IF Faulty("times") THEN {now + Life} ELSE {})

(* Mutant of Provisioned: the sandbox is never committed.                  *)
ProvisionedIsEnough(p) ==
  /\ pc[p] = "create" /\ Online(p)
  /\ \E i \in Ids, end \in Ends :
       /\ Provision(i, kind[p], end)
       /\ \E e \in Resolved(end) : Hold(p, Entry(i, FALSE, e), "verify")
  /\ UNCHANGED <<now, cache>>

(* manager.Create: provisioned and answered, or without an answer.         *)
Provisioned(p) ==
  /\ pc[p] = "create" /\ Online(p)
  /\ \E i \in Ids, end \in Ends :
       /\ Provision(i, kind[p], end)
       /\ \/ \E e \in Resolved(end) : Hold(p, Entry(i, FALSE, e), "commit")
          \/ Unanswered /\ End(p, "failed")
  /\ UNCHANGED <<now, cache>>

CreateFails(p) ==
  /\ pc[p] = "create"
  /\ \/ ~Online(p) \/ Faulty("refuse")
     \/ \E j \in Ids : Running(j)
     \/ \A i \in Ids : ~Unused(i)
  /\ End(p, "failed")
  /\ UNCHANGED <<now, boxes, cache>>

(* The context is cancelled with p's request under way.                    *)
HaltedTo(p, step) ==
  /\ Faulty("interrupt")
  /\ pc' = [pc EXCEPT ![p] = step]
  /\ halted' = [halted EXCEPT ![p] = TRUE]
  /\ UNCHANGED <<kind, sb, out>>

(* manager.Commit                                                          *)
Committed(p) ==
  /\ pc[p] = "commit" /\ Online(p)
  /\ Register(kind[p])
  /\ \/ Goto(p, "verify")
     \/ Faulty("lost") /\ Goto(p, "rollback")
     \/ HaltedTo(p, "rollback")
  /\ UNCHANGED <<now, cache>>

(* Mutant of CommitFails: the failure is ignored.                          *)
CommitFailureIgnored(p) ==
  /\ pc[p] = "commit"
  /\ ~Online(p) \/ Faulty("refuse") \/ Pending(kind[p]) = {}
  /\ Goto(p, "verify")
  /\ UNCHANGED <<now, boxes, cache>>

CommitFails(p) ==
  /\ pc[p] = "commit"
  /\ ~Online(p) \/ Faulty("refuse") \/ Pending(kind[p]) = {}
  /\ Goto(p, "rollback")
  /\ UNCHANGED <<now, boxes, cache>>

(* The best-effort manager.Destroy, under the context of the commit.       *)
Rollback(p) ==
  /\ pc[p] = "rollback"
  /\ \/ Online(p) /\ Terminate(kind[p])
     \/ (~Online(p) \/ Faulty("refuse") \/ Owned(kind[p]) = {}) /\ UNCHANGED boxes
  /\ End(p, "failed")
  /\ UNCHANGED <<now, cache>>

(* prov.VerifyCredentials                                                  *)
Verify(p) ==
  /\ pc[p] = "verify"
  /\ \E v \in Verdicts(p) : Hold(p, [sb[p] EXCEPT !.verified = v], "save")
  /\ UNCHANGED <<now, boxes, cache>>

(* Mutant of Save: only what was verified is cached.                       *)
SaveIfVerified(p) ==
  /\ pc[p] = "save"
  /\ IF sb[p].verified THEN SaveToCache(p) ELSE UNCHANGED cache
  /\ End(p, IF kind[p] \in Verifiable /\ ~sb[p].verified THEN "unverified" ELSE "created")
  /\ UNCHANGED <<now, boxes>>

Save(p) ==
  /\ pc[p] = "save"
  /\ SaveToCache(p)
  /\ End(p, IF kind[p] \in Verifiable /\ ~sb[p].verified THEN "unverified" ELSE "created")
  /\ UNCHANGED <<now, boxes>>

-----------------------------------------------------------------------------
(* Service.Destroy                                                         *)

Destroy(p) == Begin(p, "slug", Aws)

(* cachedSandboxSlug: any entry's route, expired ones included; the AWS    *)
(* route when there is none.                                               *)
CachedSlug(p) ==
  /\ pc[p] = "slug"
  /\ LET cached == {k \in Kinds : cache[k] # NoEntry} IN
     \E route \in Kinds :
       /\ \/ route \in cached
          \/ route = Aws /\ (cached = {} \/ Faulty("load"))
       /\ kind' = [kind EXCEPT ![p] = route]
  /\ pc' = [pc EXCEPT ![p] = "destroyAuth"]
  /\ UNCHANGED <<now, boxes, cache, sb, halted, out>>

(* Mutant of Destroyed: that there is none clears the cache, too.          *)
NoActiveClears(p) ==
  /\ pc[p] = "destroy" /\ Online(p)
  /\ \/ /\ Terminate(kind[p])
        /\ \/ Goto(p, "clearAll")
           \/ Unanswered /\ End(p, "failed")
     \/ /\ Owned(kind[p]) = {}
        /\ Goto(p, "clearAll")
        /\ UNCHANGED boxes
  /\ UNCHANGED <<now, cache>>

(* manager.Destroy: "Sandbox Not Found" is an answer, not a failure.       *)
Destroyed(p) ==
  /\ pc[p] = "destroy" /\ Online(p)
  /\ \/ /\ Terminate(kind[p])
        /\ \/ Goto(p, "clearAll")
           \/ Unanswered /\ End(p, "failed")
     \/ /\ Owned(kind[p]) = {}
        /\ End(p, "noActive")
        /\ UNCHANGED boxes
  /\ UNCHANGED <<now, cache>>

DestroyFails(p) ==
  /\ pc[p] = "destroy"
  /\ ~Online(p) \/ Faulty("refuse")
  /\ End(p, "failed")
  /\ UNCHANGED <<now, boxes, cache>>

(* Mutant of ClearAll: only the entry whose route was taken is removed.    *)
ClearRouteOnly(p) ==
  /\ pc[p] = "clearAll"
  /\ \/ cache' = [cache EXCEPT ![kind[p]] = NoEntry]
     \/ Faulty("clear") /\ UNCHANGED cache
  /\ End(p, "destroyed")
  /\ UNCHANGED <<now, boxes>>

(* store.ClearAll: its failure is logged, the command succeeds.            *)
ClearAll(p) ==
  /\ pc[p] = "clearAll"
  /\ \/ cache' = [k \in Kinds |-> NoEntry]
     \/ Faulty("clear") /\ UNCHANGED cache
  /\ End(p, "destroyed")
  /\ UNCHANGED <<now, boxes>>

-----------------------------------------------------------------------------
(* Service.GenerateMFA                                                     *)

GenerateMFA(p, k) == k \in Coded /\ Begin(p, "mfa", k)

(* Mutant of CachedForMFA: any entry will do.                              *)
CachedOrNot(p) ==
  /\ pc[p] = "mfa"
  /\ Goto(p, "mfaAuth")
  /\ UNCHANGED <<now, boxes, cache>>

(* Only for an entry that is cached and fresh.                             *)
CachedForMFA(p) ==
  /\ pc[p] = "mfa"
  /\ \/ Fresh(cache[kind[p]]) /\ Goto(p, "mfaAuth")
     \/ (~Fresh(cache[kind[p]]) \/ Faulty("load")) /\ End(p, "failed")
  /\ UNCHANGED <<now, boxes, cache>>

(* The broker's code is for whatever the account has of that kind.         *)
MFACode(p) ==
  /\ pc[p] = "mfaCode"
  /\ \/ Online(p) /\ Owned(kind[p]) # {} /\ End(p, "code")
     \/ (~Online(p) \/ Faulty("refuse") \/ Owned(kind[p]) = {}) /\ End(p, "failed")
  /\ UNCHANGED <<now, boxes, cache>>

-----------------------------------------------------------------------------
(* SIGINT or SIGTERM cancels the context, between two calls or before the  *)
(* request in flight had an effect; SIGKILL ends the process.              *)
Interrupt(p) ==
  /\ Faulty("interrupt") /\ pc[p] # "idle" /\ Online(p)
  /\ halted' = [halted EXCEPT ![p] = TRUE]
  /\ UNCHANGED <<now, boxes, cache, pc, kind, sb, out>>

Crash(p) ==
  /\ Faulty("crash") /\ pc[p] # "idle"
  /\ End(p, "crashed")
  /\ UNCHANGED <<now, boxes, cache>>

Step(p) ==
  \/ NothingToReuse(p) \/ Reuse(p) \/ Reverify(p) \/ Resave(p)
  \/ RejectOtherActive(p)
  \/ Authorize(p, "auth", "create")
  \/ Provisioned(p) \/ CreateFails(p)
  \/ Committed(p) \/ CommitFails(p) \/ Rollback(p)
  \/ Verify(p) \/ Save(p)
  \/ CachedSlug(p)
  \/ Authorize(p, "destroyAuth", "destroy")
  \/ Destroyed(p) \/ DestroyFails(p) \/ ClearAll(p)
  \/ CachedForMFA(p)
  \/ Authorize(p, "mfaAuth", "mfaCode")
  \/ MFACode(p)

Environment ==
  /\ \/ Tick
     \/ Faulty("upstream") /\ EndUpstream
  /\ UNCHANGED <<cache, local>>

Init ==
  /\ env \in Environments
  /\ BrokerInit(env.start, env.left)
  /\ cache = [k \in Kinds |-> NoEntry]
  /\ pc = [p \in Procs |-> "idle"]
  /\ kind = [p \in Procs |-> Aws]
  /\ sb = [p \in Procs |-> NoEntry]
  /\ halted = [p \in Procs |-> FALSE]
  /\ out = [p \in Procs |-> "none"]

Next ==
  /\ \/ \E p \in Procs :
          \/ \E k \in Kinds : Create(p, k) \/ GenerateMFA(p, k)
          \/ Destroy(p)
          \/ Step(p)
          \/ Interrupt(p) \/ Crash(p)
     \/ Environment
  /\ UNCHANGED env

Spec == Init /\ [][Next]_vars

-----------------------------------------------------------------------------
(***************************************************************************)
(* Every variable has its type, and a command holds a sandbox from the     *)
(* broker's or the cache's answer until it ends.                           *)
(***************************************************************************)
TypeOK ==
  /\ now \in 0..MaxTime
  /\ boxes \in [Ids -> Box]
  /\ cache \in [Kinds -> Entries \cup {NoEntry}]
  /\ pc \in [Procs -> Steps]
  /\ kind \in [Procs -> Kinds]
  /\ sb \in [Procs -> Entries \cup {NoEntry}]
  /\ halted \in [Procs -> BOOLEAN]
  /\ out \in [Procs -> Outcomes]
  /\ \A p \in Procs :
       pc[p] \in {"reverify", "resave", "commit", "verify", "save"} => sb[p] # NoEntry

(***************************************************************************)
(* An entry that create, exec or mfa would still hand out names a sandbox  *)
(* of its own kind that the account knows or knew, unless it no longer     *)
(* runs (Create caches only after Commit has answered).  Whatever fails,   *)
(* whatever end the broker gave it, whoever is interrupted and however     *)
(* commands interleave.                                                    *)
(***************************************************************************)
FreshIsRegistered ==
  \A k \in Kinds : Fresh(cache[k]) =>
    LET i == cache[k].id IN
    /\ boxes[i].kind = k
    /\ Running(i) => Registered(i)

(***************************************************************************)
(* Between commands run one after the other, with calls that fail only     *)
(* before they take effect, usable times and a cache that perhaps cannot   *)
(* be read, the fresh cache entries are exactly the sandboxes the account  *)
(* has: none is lost, none outlives its destruction.  An interrupt is not  *)
(* among the failures: it may cut off a request that has its effect.       *)
(***************************************************************************)
Quiet == \A p \in Procs : pc[p] = "idle"
OneByOne     == env.crew = 1
OnlyRefusals == OneByOne /\ env.faults \subseteq {"refuse", "verify", "load"}

CacheMirrorsAccount ==
  OnlyRefusals /\ Quiet =>
    {i \in Ids : Registered(i)} = {cache[k].id : k \in {l \in Kinds : Fresh(cache[l])}}

(***************************************************************************)
(* Under the same conditions a sandbox that create hands out, as new or as *)
(* reused, is the account's and running, unless its time ran out while the *)
(* command was still at work.                                              *)
(***************************************************************************)
HandedOut(p) == IF pc[p] = "reuse" THEN cache[kind[p]] ELSE sb[p]

HandedOutIsLive ==
  [][\A p \in Procs : OnlyRefusals /\ pc[p] # "idle" /\ out'[p] \in {"created", "reused"} =>
       Registered(HandedOut(p).id) \/ now >= HandedOut(p).expires]_vars

(***************************************************************************)
(* Under the same conditions every command is, to the next one, a single   *)
(* step of SandboxContract: all that it is about or nothing, as its answer *)
(* says.  What the account has is what counts, except while the command at *)
(* work has yet to tell the cache of what it did: until then, what the     *)
(* cache has.                                                              *)
(***************************************************************************)
OfAccount ==
  {[id |-> i, kind |-> boxes[i].kind, ends |-> boxes[i].ends] : i \in {j \in Ids : Registered(j)}}
OfCache ==
  {[id |-> cache[k].id, kind |-> k, ends |-> cache[k].expires] : k \in {l \in Kinds : Fresh(cache[l])}}

Owing  == {"verify", "save", "clearAll"}
Active == IF \E p \in Procs : pc[p] \in Owing THEN OfCache ELSE OfAccount
Cached == {k \in Kinds : cache[k] # NoEntry}

Destroying == {"slug", "destroyAuth", "destroy", "clearAll"}
ForMFA     == {"mfa", "mfaAuth", "mfaCode"}
Asked(p) ==
  IF pc[p] = "idle"            THEN [verb |-> "none", kind |-> Aws]
  ELSE IF pc[p] \in Destroying THEN [verb |-> "destroy", kind |-> Aws]
  ELSE IF pc[p] \in ForMFA     THEN [verb |-> "mfa", kind |-> kind[p]]
  ELSE                              [verb |-> "create", kind |-> kind[p]]

Contract ==
  INSTANCE SandboxContract
  WITH active <- Active, made <- Cached, readable <- ~Faulty("load"),
       call <- [p \in Procs |-> Asked(p)]

AllOrNothing == [][OnlyRefusals => Contract!Next]_(Contract!vars)

(***************************************************************************)
(* As long as commands run one by one and the cache can be read, two kinds *)
(* are never cached fresh at once, whatever else fails                     *)
(* (rejectOtherActiveSandbox; "Whizlabs allows only one active sandbox per *)
(* user").  Two creates that pass that check together can cache two, but   *)
(* of those at most one still runs.                                        *)
(***************************************************************************)
OneFreshKind ==
  \A k, l \in Kinds : Fresh(cache[k]) /\ Fresh(cache[l]) /\ k # l =>
    /\ OneByOne => Faulty("load")
    /\ ~(Running(cache[k].id) /\ Running(cache[l].id))

(***************************************************************************)
(* As long as commands run one by one and the cache can be read, a fresh   *)
(* entry means that nothing else runs: create provisions only when no      *)
(* entry of any kind is fresh, and the broker one at a time.  So what mfa, *)
(* create's reuse and destroy do about the entry is never done to another  *)
(* sandbox, whatever fails, is lost or is interrupted half way, and        *)
(* whether the entry's own sandbox still runs or not.                      *)
(***************************************************************************)
NothingElseRuns ==
  OneByOne /\ ~Faulty("load") =>
    \A k \in Kinds, i \in Ids : Fresh(cache[k]) /\ Running(i) => i = cache[k].id

(***************************************************************************)
(* The credentials of a sandbox that runs cannot be fetched again.  While  *)
(* commands run one by one, whatever fails, their entry is neither removed *)
(* nor overwritten: not by a destroy that went by another entry's route,   *)
(* nor by a create that could not read the cache.  (Overlapping commands   *)
(* can: a create that ends between a destroy's teardown and its ClearAll   *)
(* loses its entry, and so it does to a slower create whose own sandbox    *)
(* was destroyed meanwhile.)                                               *)
(***************************************************************************)
RunningIsKept ==
  [][\A k \in Kinds : OneByOne /\ Fresh(cache[k]) /\ Running(cache[k].id) =>
       cache'[k] # NoEntry /\ cache'[k].id = cache[k].id]_vars

(***************************************************************************)
(* As long as commands run one by one and the cache can be read, the code  *)
(* that mfa prints is for the sandbox whose credentials are cached, not    *)
(* for another of its kind that the account has: the broker is not told    *)
(* which one is meant.                                                     *)
(***************************************************************************)
CodeIsForCached ==
  [][\A p \in Procs : OneByOne /\ ~Faulty("load") /\ pc[p] = "mfaCode" /\ out'[p] = "code" =>
       cache[kind[p]] # NoEntry /\ cache[kind[p]].id \in Owned(kind[p])]_vars

(***************************************************************************)
(* A failed commit leaves no sandbox the account does not know: the        *)
(* comment on Create's rollback.                                           *)
(***************************************************************************)
NoPhantom == Quiet => \A i \in Ids : Running(i) => Registered(i)

(***************************************************************************)
(* Destroy answers ErrNoActiveSandbox only when there is nothing to        *)
(* destroy: the comments on Service.Destroy and Manager.Destroy.           *)
(***************************************************************************)
NoActiveMeansNone ==
  [][\A p \in Procs : pc[p] = "destroy" /\ out'[p] = "noActive" =>
       \A i \in Ids : ~Registered(i)]_vars
=============================================================================
