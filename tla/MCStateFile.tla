---------------------------- MODULE MCStateFile ----------------------------
(***************************************************************************)
(* Two invocations and the environments they run in.                       *)
(***************************************************************************)
EXTENDS StateFile, TLC

Env(users, racing, faults, unparsable) ==
  [users |-> users, racing |-> racing, faults |-> faults, unparsable |-> unparsable]

(* One invocation for which everything fails, with or without the read of  *)
(* a merge, and a writer among readers that only die, or merge blindly     *)
(* and create files under a hostile umask.                                 *)
OneFails   ==
  {Env({p}, FALSE, faults, TRUE) : p \in Procs, faults \in {Failures, Failures \ {"merge"}}}
ReadersDie ==
  {Env(Procs, FALSE, faults, FALSE) : faults \in {{"crash"}, {"crash", "merge", "umask"}}}
WriterAndReaders  == OneFails \cup ReadersDie

Racing     == {Env(Procs, TRUE, {}, FALSE)}
Healing    == {Env(Procs, FALSE, {}, TRUE)}
Unreadable == {Env({p}, FALSE, {"merge"}, FALSE) : p \in Procs}

Invocations == Permutations(Procs)
=============================================================================
