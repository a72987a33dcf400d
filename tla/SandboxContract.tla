-------------------------- MODULE SandboxContract --------------------------
(***************************************************************************)
(* What sandbox.Service promises the commands that call it, one after the  *)
(* other: the account has one sandbox at most, and a command does all that *)
(* it is about or nothing, in the step in which it answers, as its answer  *)
(* says.  Whatever it takes to get there, the calls to the broker, to the  *)
(* provider and to the store, is not seen from here.                       *)
(*                                                                         *)
(* SandboxService is shown to implement this, under the conditions its     *)
(* property AllOrNothing states.                                           *)
(***************************************************************************)
EXTENDS Naturals

CONSTANTS Procs, Kinds, Ids, Aws, Life, MaxTime

VARIABLES
  now,        \* the time
  active,     \* the account's sandboxes that have not run out
  made,       \* the kinds created since the last teardown
  readable,   \* the cache can be read
  call,       \* call[p]: what p is asked to do
  out         \* out[p]: p's last answer

vars == <<now, active, made, readable, call, out>>

Call(verb, k) == [verb |-> verb, kind |-> k]
NoCall == Call("none", Aws)

Running(S, t) == {s \in S : t < s.ends}

Init ==
  /\ now \in 0..MaxTime
  /\ active = {} /\ made = {}
  /\ readable \in BOOLEAN
  /\ call = [p \in Procs |-> NoCall]
  /\ out = [p \in Procs |-> "none"]

Ask(p, verb, k) ==
  /\ \A q \in Procs : call[q] = NoCall
  /\ call' = [call EXCEPT ![p] = Call(verb, k)]
  /\ out' = [q \in Procs |-> "none"]
  /\ UNCHANGED <<now, active, made>>

Answer(p, outcome) ==
  /\ call' = [call EXCEPT ![p] = NoCall]
  /\ out' = [out EXCEPT ![p] = outcome]
  /\ UNCHANGED now

(* A sandbox of the kind asked for becomes the account's only one; its     *)
(* time may have run out meanwhile.                                        *)
Create(p) ==
  /\ call[p].verb = "create" /\ active = {}
  /\ \E i \in Ids, end \in 0..(now + Life) :
       active' = Running({[id |-> i, kind |-> call[p].kind, ends |-> end]}, now)
  /\ made' = made \cup {call[p].kind}
  /\ Answer(p, "created") \/ Answer(p, "unverified")

(* The one of that kind is handed out again.                               *)
Reuse(p) ==
  /\ call[p].verb = "create" /\ call[p].kind \in made
  /\ \A s \in active : s.kind = call[p].kind
  /\ Answer(p, "reused") \/ Answer(p, "unverified")
  /\ UNCHANGED <<active, made>>

RejectOtherActive(p) ==
  /\ call[p].verb = "create"
  /\ \E s \in active : s.kind # call[p].kind
  /\ Answer(p, "activeOther")
  /\ UNCHANGED <<active, made>>

Destroy(p) ==
  /\ call[p].verb = "destroy" /\ made # {}
  /\ active' = {} /\ made' = {}
  /\ Answer(p, "destroyed")

(* A teardown by another kind's route finds nothing, and leaves it at that.*)
NoActive(p) ==
  /\ call[p].verb = "destroy"
  /\ active = {} \/ ~readable \/ \E k \in made : \A s \in active : s.kind # k
  /\ Answer(p, "noActive")
  /\ UNCHANGED <<active, made>>

GenerateMFA(p) ==
  /\ call[p].verb = "mfa"
  /\ \E s \in active : s.kind = call[p].kind
  /\ Answer(p, "code")
  /\ UNCHANGED <<active, made>>

Fail(p) ==
  /\ call[p] # NoCall
  /\ Answer(p, "failed")
  /\ UNCHANGED <<active, made>>

Tick ==
  /\ now < MaxTime
  /\ now' = now + 1
  /\ active' = Running(active, now')
  /\ UNCHANGED <<made, call, out>>

Next ==
  /\ \/ \E p \in Procs :
          \/ \E k \in Kinds : Ask(p, "create", k) \/ Ask(p, "mfa", k)
          \/ Ask(p, "destroy", Aws)
          \/ Create(p) \/ Reuse(p) \/ RejectOtherActive(p)
          \/ Destroy(p) \/ NoActive(p) \/ GenerateMFA(p)
          \/ Fail(p)
     \/ Tick
  /\ UNCHANGED readable

Spec == Init /\ [][Next]_vars
=============================================================================
