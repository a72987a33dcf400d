----------------------------- MODULE StoreTypes -----------------------------
(***************************************************************************)
(* The values that pass through the ports session.TokenStore               *)
(* (internal/core/session/ports.go) and sandbox.Store                      *)
(* (internal/core/sandbox/ports.go), shared by the contract of those two   *)
(* ports (StoreContract) and by the file that implements both (StateFile). *)
(*                                                                         *)
(* A token set and a cached sandbox are opaque values: the store never     *)
(* looks inside them, except that it must be able to read back the two     *)
(* timestamps of each.  A stored section whose timestamps do not parse is  *)
(* BadAuth or BadBox.                                                      *)
(***************************************************************************)

CONSTANTS
  Tokens,        \* session.Tokens values callers save
  Unprintable,   \* those whose expiry has no RFC 3339 form (year > 9999)
  Kinds,         \* sandbox.Kind values
  Boxes,         \* *sandbox.Sandbox values callers save
  NoAuth,        \* every field of tokensDTO empty
  BadAuth,       \* a non-empty tokensDTO whose timestamps do not parse
  NoBox,         \* no entry for the kind
  BadBox         \* an entry whose timestamps do not parse

ASSUME DistinctValues ==
  /\ Unprintable \subseteq Tokens
  /\ NoAuth \notin Tokens /\ BadAuth \notin Tokens /\ NoAuth # BadAuth
  /\ NoBox \notin Boxes /\ BadBox \notin Boxes /\ NoBox # BadBox

Auths   == Tokens \cup {NoAuth, BadAuth}
Entries == Boxes \cup {NoBox, BadBox}
Caches  == [Kinds -> Entries]
NoBoxes == [k \in Kinds |-> NoBox]

(* What dtoFromTokens leaves of t once it has been formatted.              *)
StoredTokens(t) == IF t \in Unprintable THEN BadAuth ELSE t

(* The entries LoadAllSandboxes returns: unparsable ones are skipped.      *)
Readable(cache) == [k \in Kinds |-> IF cache[k] = BadBox THEN NoBox ELSE cache[k]]

(***************************************************************************)
(* The calls of the two ports, with their arguments.                       *)
(***************************************************************************)
NoCall == [name |-> "none"]

Calls ==
       [name : {"Load", "Clear", "LoadAllSandboxes", "ClearSandboxes"}]
  \cup [name : {"Save"}, tokens : Tokens]
  \cup [name : {"LoadSandbox"}, kind : Kinds]
  \cup [name : {"SaveSandbox"}, kind : Kinds, box : Boxes]

Writers == {"Save", "Clear", "SaveSandbox", "ClearSandboxes"}

Results ==
  [tag : {"none", "ok", "miss", "error", "hit", "crashed"},
   val : Tokens \cup Boxes \cup [Kinds -> Boxes \cup {NoBox}] \cup {NoAuth}]

NoReply == [tag |-> "none", val |-> NoAuth]
=============================================================================
