--------------------------- MODULE StoreContract ---------------------------
(***************************************************************************)
(* What session.TokenStore and sandbox.Store promise their callers,        *)
(* whatever holds the data: two registers, the session tokens and the      *)
(* sandbox cache.  A call takes effect in one step, at some instant        *)
(* between its invocation and its reply, on the register it is about and   *)
(* on no other; a call that replies with an error, or whose process dies   *)
(* first, has had either its whole effect or none, and none when it        *)
(* replied.                                                                *)
(*                                                                         *)
(* Behind the two registers is one file, and a write replaces it as a      *)
(* whole.  A write that cannot read what it replaces goes by the empty     *)
(* store (Bases): that is all a fault can cost the other register.         *)
(*                                                                         *)
(* StateFile is shown to implement this, under the conditions its runs     *)
(* state.                                                                  *)
(***************************************************************************)
EXTENDS StoreTypes

CONSTANT Procs    \* the invocations of the program

VARIABLES
  auth,     \* the stored session tokens
  cache,    \* the stored sandbox of each kind
  call,     \* call[p]: the call process p has in flight
  res,      \* res[p]: the reply to p's last call, if it is not in flight
  blind     \* a write may fail to read what it replaces

vars == <<auth, cache, call, res, blind>>

(* What a write starts from.                                               *)
Bases == {[auth |-> auth, cache |-> cache]}
           \cup (IF blind THEN {[auth |-> NoAuth, cache |-> NoBoxes]} ELSE {})

Init ==
  /\ auth \in Auths
  /\ cache \in Caches
  /\ call = [p \in Procs |-> NoCall]
  /\ res = [p \in Procs |-> NoReply]
  /\ blind \in BOOLEAN

Invoke(p, c) ==
  /\ call[p] = NoCall
  /\ call' = [call EXCEPT ![p] = c]
  /\ res' = [res EXCEPT ![p] = NoReply]
  /\ UNCHANGED <<auth, cache>>

Reply(p, tag, val) ==
  /\ call' = [call EXCEPT ![p] = NoCall]
  /\ res' = [res EXCEPT ![p] = [tag |-> tag, val |-> val]]

Save(p) ==
  /\ call[p].name = "Save"
  /\ auth' = StoredTokens(call[p].tokens)
  /\ \E f \in Bases : cache' = f.cache
  /\ Reply(p, "ok", NoAuth)

Clear(p) ==
  /\ call[p].name = "Clear"
  /\ auth' = NoAuth
  /\ \E f \in Bases : cache' = f.cache
  /\ Reply(p, "ok", NoAuth)

(***************************************************************************)
(* Tokens that cannot be read back count as no tokens, and reading them    *)
(* may empty the whole store.                                              *)
(***************************************************************************)
Load(p) ==
  /\ call[p].name = "Load"
  /\ IF auth \in Tokens THEN Reply(p, "hit", auth) ELSE Reply(p, "miss", NoAuth)
  /\ \/ UNCHANGED <<auth, cache>>
     \/ auth = BadAuth /\ auth' = NoAuth /\ cache' = NoBoxes

SaveSandbox(p) ==
  /\ call[p].name = "SaveSandbox"
  /\ \E f \in Bases :
       /\ cache' = [f.cache EXCEPT ![call[p].kind] = call[p].box]
       /\ auth' = f.auth
  /\ Reply(p, "ok", NoAuth)

(* Blind, it may take the store for empty and leave it as it is.           *)
ClearSandboxes(p) ==
  /\ call[p].name = "ClearSandboxes"
  /\ cache' = NoBoxes \/ (blind /\ UNCHANGED cache)
  /\ UNCHANGED auth
  /\ Reply(p, "ok", NoAuth)

LoadSandbox(p) ==
  /\ call[p].name = "LoadSandbox"
  /\ IF cache[call[p].kind] \in Boxes
     THEN Reply(p, "hit", cache[call[p].kind])
     ELSE Reply(p, "miss", NoAuth)
  /\ UNCHANGED <<auth, cache>>

LoadAllSandboxes(p) ==
  /\ call[p].name = "LoadAllSandboxes"
  /\ Reply(p, "hit", Readable(cache))
  /\ UNCHANGED <<auth, cache>>

Fail(p) ==
  /\ call[p] # NoCall
  /\ Reply(p, "error", NoAuth)
  /\ UNCHANGED <<auth, cache>>

Die(p) ==
  /\ call[p] # NoCall
  /\ Reply(p, "crashed", NoAuth)
  /\ UNCHANGED <<auth, cache>>

Next ==
  /\ \E p \in Procs :
       \/ \E c \in Calls : Invoke(p, c)
       \/ Save(p) \/ Clear(p) \/ Load(p)
       \/ SaveSandbox(p) \/ ClearSandboxes(p) \/ LoadSandbox(p) \/ LoadAllSandboxes(p)
       \/ Fail(p) \/ Die(p)
  /\ UNCHANGED blind

Spec == Init /\ [][Next]_vars
=============================================================================
