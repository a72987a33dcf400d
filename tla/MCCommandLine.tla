--------------------------- MODULE MCCommandLine ---------------------------
(***************************************************************************)
(* The invocations that tell the questions apart: what is set where, for   *)
(* a command that needs nothing else; destroy with every way to say yes;   *)
(* create with every lab and both renderings; exec and list around an      *)
(* entry's expiry; the others as they are.  Every failure by itself, and   *)
(* the two that lose credentials together.                                 *)
(***************************************************************************)
EXTENDS CommandLine

Silence == [key \in Settings |-> Unset]

(* What one setting says, and nothing else.                                *)
Say(key, value) == [Silence EXCEPT ![key] = value]

Invocation(command, arg) ==
  [command |-> command, arg |-> arg, duration |-> Hour, flags |-> Silence, environ |-> Silence,
   tty |-> {}, dirs |-> [override |-> "unset", xdg |-> "unset", home |-> "private"],
   expires |-> Nothing, faults |-> {}]

Troubles  == {{}} \cup {{f} : f \in {"load", "save", "stdout"}} \cup {{"save", "stdout"}}
Terminals == {{}, {"stdin"}, {"stdin", "stderr"}}

Configured ==
  {[Invocation("version", "none") EXCEPT !.flags = f, !.environ = e] :
     f \in {[Silence EXCEPT !.LogLevel = l, !.Verbose = v, !.Quiet = q] :
              l \in {Unset, "", "debug", "warning", "loud"}, v \in {Unset, 1, 3}, q \in {Unset, TRUE}},
     e \in {[Silence EXCEPT !.LogLevel = l, !.Verbose = v] :
              l \in {Unset, "error"}, v \in {Unset, 2, Malformed}}}

Destroying ==
  {[Invocation("destroy", "none") EXCEPT !.flags = Say("AssumeYes", f),
      !.environ = Say("AssumeYes", e), !.tty = t, !.faults = x] :
     f, e \in {Unset, TRUE, FALSE}, t \in Terminals, x \in Troubles}

Creating ==
  {[Invocation("create", k) EXCEPT !.flags = Say("JSON", j), !.tty = t, !.faults = x] :
     k \in Providers, j \in {Unset, TRUE}, t \in Terminals, x \in Troubles}
  \cup {[Invocation("create", k) EXCEPT !.duration = d] : k \in Providers, d \in Durations}

Reading ==
  {[Invocation(c, IF c = "list" THEN "none" ELSE "aws") EXCEPT !.flags = Say("JSON", j),
      !.expires = e, !.faults = x] :
     c \in {"list", "exec"}, j \in {Unset, TRUE}, e \in {Nothing} \cup 0..MaxTime,
     x \in Troubles \cup {{"start"}, {"usage"}}}

Simple ==
  {[i EXCEPT !.tty = t, !.faults = x] :
     i \in {Invocation("mfa", "azure"), Invocation("login", "none"), Invocation("logout", "none")},
     t \in Terminals, x \in Troubles}

Misused == {Invocation(c, a) : c \in Commands \ {"completion"}, a \in {"none", "other", "gcp"}}

Anywhere(command) ==
  {[Invocation(command, "none") EXCEPT !.dirs = d, !.faults = x] :
     d \in {f \in [Places -> Directory \cup {"unset"}] : f["xdg"] # "wide" /\ f["home"] # "private"},
     x \in Troubles \cup {{"mkdir"}, {"chmod"}}}

All == Configured \cup Destroying \cup Creating \cup Reading \cup Simple \cup Misused
         \cup Anywhere("version") \cup Anywhere("status")

Completing == Anywhere("completion")

Quarters == -2..42
=============================================================================
