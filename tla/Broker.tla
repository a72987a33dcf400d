------------------------------- MODULE Broker -------------------------------
(***************************************************************************)
(* The account at Whizlabs, as far as internal/adapters/whizlabs uses it:  *)
(* an external system, modelled from the calls the code makes and from     *)
(* what it does with the answers.                                          *)
(*                                                                         *)
(* A sandbox is provisioned by one call and registered with the account    *)
(* by a second; until then the account does not know it and no teardown    *)
(* route finds it.  It ends by itself at the time the broker set for it,   *)
(* or when torn down.  The account permits one sandbox at a time.          *)
(***************************************************************************)
EXTENDS Naturals, FiniteSets

CONSTANTS
  Kinds,      \* sandbox.Kind values
  Aws,        \* the kind of the default teardown route
  Ids,        \* the sandboxes the broker may ever provision
  Life,       \* how long a sandbox is asked for
  MaxTime     \* bound on the clock

ASSUME BrokerAssumption ==
  /\ Aws \in Kinds
  /\ Life \in Nat \ {0}
  /\ MaxTime \in Nat

VARIABLES
  now,        \* the time
  boxes       \* boxes[i]: what became of sandbox i

Box == [state : {"unused", "provisioned", "registered", "ended"}, kind : Kinds, ends : Nat]

Unused(i)     == boxes[i].state = "unused"
Running(i)    == boxes[i].state \in {"provisioned", "registered"} /\ now < boxes[i].ends
Registered(i) == boxes[i].state = "registered" /\ now < boxes[i].ends

(* Of the sandboxes that are ever provisioned, some are of the past.       *)
BrokerInit(start, left) ==
  /\ now = start
  /\ \E future \in SUBSET Ids :
       /\ Cardinality(future) = left
       /\ boxes = [i \in Ids |-> [state |-> IF i \in future THEN "unused" ELSE "ended",
                                  kind |-> Aws, ends |-> 0]]

(* play-create-sandbox and play-create-lab, for a sandbox that ends then.  *)
Provision(i, k, end) ==
  /\ Unused(i) /\ \A j \in Ids : ~Running(j)
  /\ boxes' = [boxes EXCEPT ![i] = [state |-> "provisioned", kind |-> k, ends |-> end]]

(* play-update-sandbox and play-update-user-task-status: what is pending   *)
(* of that kind becomes the account's.                                     *)
Pending(k)  == {i \in Ids : boxes[i].state = "provisioned" /\ Running(i) /\ boxes[i].kind = k}
Register(k) ==
  /\ Pending(k) # {}
  /\ boxes' = [i \in Ids |-> IF i \in Pending(k) THEN [boxes[i] EXCEPT !.state = "registered"]
                                                 ELSE boxes[i]]

(* play-end-sandbox and play-end-lab: what the account has of that kind.   *)
Owned(k)     == {i \in Ids : Registered(i) /\ boxes[i].kind = k}
Terminate(k) ==
  /\ Owned(k) # {}
  /\ boxes' = [i \in Ids |-> IF i \in Owned(k) THEN [boxes[i] EXCEPT !.state = "ended"]
                                               ELSE boxes[i]]

(* The user ends a sandbox in the browser.                                 *)
EndUpstream == \E k \in Kinds : Terminate(k) /\ UNCHANGED now

Tick == now < MaxTime /\ now' = now + 1 /\ UNCHANGED boxes
=============================================================================
