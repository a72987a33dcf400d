-------------------------- MODULE MCSandboxService --------------------------
(***************************************************************************)
(* Two of the three kinds: aws, which is verified and has the default      *)
(* teardown route, and azure, which is neither but has MFA codes.  Gcp     *)
(* differs from azure only in having none.                                 *)
(***************************************************************************)
EXTENDS SandboxService, TLC

Refusals      == {"refuse", "verify"}
ReadableCache == Refusals \cup {"lost", "save", "clear", "interrupt", "crash", "upstream"}

(* One command after the other, from the start.                            *)
Serially(faults) == [crew |-> 1, faults |-> faults, start |-> 0, left |-> Cardinality(Ids)]

(* A tick less.                                                            *)
Later(faults) == [Serially(faults) EXCEPT !.start = 1]

(* Two at a time, and two ticks and a sandbox less.                        *)
Racing(faults) == [crew |-> 2, faults |-> faults, start |-> MaxTime - 3, left |-> 2]

(* With sandboxes that end sooner or later than asked for, or than said.   *)
Untimely(faults)       == [Racing(faults \cup {"times"}) EXCEPT !.crew = 1]
UntimelyRacing(faults) == [Racing(faults \cup {"times"}) EXCEPT !.start = MaxTime - 2]

Undisturbed == {Serially({})}
Refused     == {Serially({"refuse"})}
SomeOrMost ==
  {Later(Refusals \cup {"load"}), Later({"load", "upstream"}),
   Serially(ReadableCache), Untimely({"lost", "clear", "upstream", "interrupt"}),
   Racing({"refuse", "verify", "crash", "load"}), Racing({"lost", "save", "clear"}),
   UntimelyRacing({})}

Interchangeable == Permutations(Procs) \cup Permutations(Ids)
=============================================================================
