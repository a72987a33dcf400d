---------------------------- MODULE CommandLine ----------------------------
(***************************************************************************)
(* internal/cli and cmd/whzbox: one invocation of the program, from its    *)
(* command line to its exit status.                                        *)
(*                                                                         *)
(* The services behind the commands have modules of their own              *)
(* (SessionService, SandboxService, VerifyLoop); here a call to one is a   *)
(* step with any of the outcomes the command line can tell apart, and      *)
(* with what it brought about.  A signal cancels the context of whatever   *)
(* is under way: calls over the network, the login form and the child of   *)
(* exec end with it, the confirmation form and the store do not notice.    *)
(***************************************************************************)
EXTENDS Configuration, ExitCodes, LeaseTimes

CONSTANTS
  Invocations,   \* the circumstances under which the program is started
  Second,        \* time.Second, in the unit of the clock
  MaxTime,       \* bound on the clock
  ChildCodes,    \* the codes with which exec's child may exit
  Nothing        \* no such thing: no entry, no configuration, no child

Commands  == {"create", "destroy", "exec", "mfa", "list", "status", "login", "logout",
              "version", "completion"}
Providers == {"aws", "gcp", "azure"}
Places    == {"override", "xdg", "home"}
Directory == {"absent", "wide", "private"}
Failures  == {"mkdir", "chmod", "load", "save", "stdout", "start", "usage"}

(***************************************************************************)
(* An invocation is a command with its argument ("none", or "other" for    *)
(* what is no provider), create's --duration, what flags and environment   *)
(* set, which of stdin and stderr are terminals, what is at the places     *)
(* that WHZBOX_STATE_DIR, XDG_STATE_HOME and HOME name for the state       *)
(* directory, the expiry of the cached AWS sandbox if there is one, and    *)
(* what fails ("usage": --shell with other than one argument).             *)
(***************************************************************************)
ASSUME CommandLineAssumption ==
  /\ Invocations \subseteq
       [command : Commands, arg : Providers \cup {"other", "none"}, duration : Durations,
        flags : Source, environ : Source,
        tty : SUBSET {"stdin", "stderr"}, dirs : [Places -> Directory \cup {"unset"}],
        expires : Nat \cup {Nothing}, faults : SUBSET Failures]
  /\ Second \in Nat \ {0} /\ MaxTime \in Nat
  /\ ChildCodes \subseteq 0..255
  /\ Nothing \notin Nat

VARIABLES
  inv,      \* the invocation
  pc,       \* what it does next
  cfg,      \* App.Config, or Nothing
  dirs,     \* dirs[place]: the directory there
  now,      \* the clock
  halted,   \* the context is cancelled
  did,      \* what the invocation has brought about
  err,      \* what create's error wraps, while the sandbox is printed
  row,      \* what list prints of the AWS sandbox
  child,    \* exec's child
  status,   \* the exit status
  said      \* whether an "Error:" line was printed

vars == <<inv, pc, cfg, dirs, now, halted, did, err, row, child, status, said, leaseVars>>

Steps == {"parse", "config", "resolve", "mkdir", "chmod", "run", "form", "authorize", "prompt",
          "login", "call", "provision", "verify", "render", "load", "mark", "format", "child", "exited"}

Deeds == {"confirmed", "declined", "tornDown", "provisioned", "answered", "cached",
          "unverified", "printed"}

(* The child, and the code it ended with.                                  *)
Running     == [code |-> Nothing]
Ended(code) == [code |-> code]

Faulty(f) == f \in inv.faults

Goto(step) == pc' = step /\ UNCHANGED <<err, status, said>>

Did(deeds) == did' = did \cup deeds

(* RunWithOptions: one line for the error, then the exit status.           *)
Exit(errors) ==
  /\ pc' = "exited"
  /\ status' = ExitCode(errors)
  /\ said' = (errors # {})
  /\ err' = {}

(* Mutant of ExitAsChild: the child's failure is an error like others.     *)
ChildIsError(code) == Exit({"Other"})

(* ... but none for a child's own failure.                                 *)
ExitAsChild(code) ==
  /\ pc' = "exited"
  /\ status' = ChildStatus(code)
  /\ said' = FALSE
  /\ err' = {}

-----------------------------------------------------------------------------
(* Cobra refuses a wrong argument before anything is set up.               *)
ArgAllowed ==
  CASE inv.command = "create" -> inv.arg \in Providers
    [] inv.command = "mfa"    -> inv.arg = "azure"
    [] inv.command = "exec"   -> inv.arg # "none"
    [] OTHER                  -> inv.arg = "none"

Parse ==
  /\ pc = "parse"
  /\ IF ArgAllowed THEN Goto("config") ELSE Exit({"Other"})
  /\ UNCHANGED <<cfg, dirs, did, row, child, leaseVars>>

(* Mutant of Metadata: version gets the whole App.                         *)
NoCommand == {}

(* isVersionCommand: the commands that get a metadata-only App.            *)
Metadata == {"version"}

(* Mutant of LoadConfig: what was converted is not validated.              *)
LoadUnvalidated ==
  /\ pc = "config"
  /\ LET config == Loaded(inv.flags, inv.environ) IN
     IF \A key \in Settings : config[key] # Malformed
     THEN cfg' = config /\ Goto(IF inv.command \in Metadata THEN "run" ELSE "resolve")
     ELSE Exit({"Other"}) /\ UNCHANGED cfg
  /\ UNCHANGED <<dirs, did, row, child, leaseVars>>

(* config.Load, in newApp or newMetadataApp.                               *)
LoadConfig ==
  /\ pc = "config"
  /\ LET config == Loaded(inv.flags, inv.environ) IN
     IF Acceptable(config)
     THEN cfg' = config /\ Goto(IF inv.command \in Metadata THEN "run" ELSE "resolve")
     ELSE Exit({"Other"}) /\ UNCHANGED cfg
  /\ UNCHANGED <<dirs, did, row, child, leaseVars>>

(* xdgstore.ResolveStateDir                                                *)
Named(place) == inv.dirs[place] # "unset"
StateDir ==
  IF Named("override") THEN "override" ELSE IF Named("xdg") THEN "xdg" ELSE "home"

ResolveStateDir ==
  /\ pc = "resolve"
  /\ IF Named(StateDir) THEN Goto("mkdir") ELSE Exit({"Other"})
  /\ UNCHANGED <<cfg, dirs, did, row, child, leaseVars>>

(* xdgstore.New: MkdirAll leaves an existing directory as it is.           *)
MakeDir ==
  /\ pc = "mkdir"
  /\ \/ /\ dirs' = [dirs EXCEPT ![StateDir] = IF @ = "absent" THEN "private" ELSE @]
        /\ Goto("chmod")
     \/ Faulty("mkdir") /\ Exit({"Other"}) /\ UNCHANGED dirs
  /\ UNCHANGED <<cfg, did, row, child, leaseVars>>

(* Mutant of ChmodDir: a directory that exists is taken as it is.          *)
TrustDir ==
  /\ pc = "chmod"
  /\ Goto("run")
  /\ UNCHANGED <<cfg, dirs, did, row, child, leaseVars>>

ChmodDir ==
  /\ pc = "chmod"
  /\ \/ dirs' = [dirs EXCEPT ![StateDir] = "private"] /\ Goto("run")
     \/ Faulty("chmod") /\ Exit({"Other"}) /\ UNCHANGED dirs
  /\ UNCHANGED <<cfg, did, row, child, leaseVars>>

(* version and completion print, and report what the printing returned.    *)
PrintMetadata ==
  /\ pc = "run" /\ inv.command \in {"version", "completion"}
  /\ \/ Did({"printed"}) /\ Exit({})
     \/ Faulty("stdout") /\ Exit({"Other"}) /\ UNCHANGED did
  /\ UNCHANGED <<cfg, dirs, row, child, leaseVars>>

(* Session.Current and Session.Logout: the store, or its error.            *)
UseStore ==
  /\ pc = "run" /\ inv.command \in {"status", "logout"}
  /\ \/ Exit({})
     \/ Faulty(IF inv.command = "status" THEN "load" ELSE "save") /\ Exit({"Other"})
  /\ UNCHANGED <<cfg, dirs, did, row, child, leaseVars>>

-----------------------------------------------------------------------------
(* Destroying is confirmed, with --yes or on a terminal.                   *)

Terminal == {"stdin", "stderr"} \subseteq inv.tty

ConfirmDestroy ==
  /\ pc = "run" /\ inv.command = "destroy"
  /\ IF cfg.AssumeYes THEN Goto("authorize")
     ELSE IF Terminal THEN Goto("form")
     ELSE Exit({"PromptUnavailable"})
  /\ UNCHANGED <<cfg, dirs, did, row, child, leaseVars>>

(* The form does not hear of the context; its library may of the signal.   *)
FormEnds ==
  /\ pc = "form"
  /\ \/ Did({"confirmed"}) /\ Goto("authorize")
     \/ Did({"declined"}) /\ Exit({})
     \/ Exit({"UserAborted"}) /\ UNCHANGED did
     \/ Exit({"Other"}) /\ UNCHANGED did
  /\ UNCHANGED <<cfg, dirs, row, child, leaseVars>>

-----------------------------------------------------------------------------
(* The session, as in SessionService; Login always prompts.                *)
NeedsSession == {"create", "destroy", "mfa", "login"}

StartCommand ==
  /\ pc = "run" /\ inv.command \in NeedsSession \ {"destroy"}
  /\ Goto("authorize")
  /\ UNCHANGED <<cfg, dirs, did, row, child, leaseVars>>

(* Create has a sandbox: what it learnt of the credentials, if anything.   *)
Verdicts == IF inv.arg = "aws" THEN BOOLEAN ELSE {FALSE}
Answer(failed) == {"answered"} \cup (IF failed THEN {"unverified"} ELSE {})

(* Create returns the sandbox, with an error if the credentials failed.    *)
HandOver(failed) ==
  /\ pc' = "render"
  /\ err' = IF failed THEN {"VerificationFailed"} ELSE {}
  /\ UNCHANGED <<status, said>>

(* create and mfa look at the cache first: a sandbox that can be handed    *)
(* out again, another one in the way, or none for a code.                  *)
AnswerFromCache ==
  /\ pc = "authorize"
  /\ \/ /\ inv.command = "create"
        /\ \E failed \in Verdicts : Did({"cached"} \cup Answer(failed)) /\ HandOver(failed)
     \/ inv.command \in {"create", "mfa"} /\ Exit({"Other"}) /\ UNCHANGED did
  /\ UNCHANGED <<cfg, dirs, row, child, leaseVars>>

Authorize ==
  /\ pc = "authorize"
  /\ \/ inv.command # "login" /\ Goto("call")
     \/ Terminal /\ Goto("prompt")
     \/ ~Terminal /\ Exit({"PromptUnavailable"})
     \/ inv.command # "login" /\ Faulty("load") /\ Exit({"Other"})
     \/ inv.command # "login" /\ Faulty("save") /\ Exit({"Other"})
  /\ UNCHANGED <<cfg, dirs, did, row, child, leaseVars>>

(* The user answers, or gives up.                                          *)
PromptAnswered ==
  /\ pc = "prompt"
  /\ Goto("login") \/ Exit({"UserAborted"})
  /\ UNCHANGED <<cfg, dirs, did, row, child, leaseVars>>

(* RunWithContext: the form ends with the context, or fails.               *)
PromptFails ==
  /\ pc = "prompt"
  /\ Exit({"Other"})
  /\ UNCHANGED <<cfg, dirs, did, row, child, leaseVars>>

Login ==
  /\ pc = "login"
  /\ \/ ~halted /\ inv.command = "login" /\ Exit({})
     \/ ~halted /\ inv.command # "login" /\ Goto("call")
     \/ ~halted /\ Exit({"InvalidCredentials"})
     \/ Exit({"Other"})
  /\ UNCHANGED <<cfg, dirs, did, row, child, leaseVars>>

-----------------------------------------------------------------------------
(* The service's calls to Whizlabs and, in create, to the verifier.        *)

Slug == [aws |-> "aws-sandbox", gcp |-> "gcp-sandbox", azure |-> "azure-sandbox"]

(* A duration that the lab does not offer is refused before it is sent.    *)
RequestSandbox ==
  /\ pc = "call" /\ inv.command = "create"
  /\ Ask(Slug[inv.arg], inv.duration)
  /\ IF hours' = Rejected THEN Exit({"Provider"}) ELSE Goto("provision")
  /\ UNCHANGED <<cfg, dirs, did, row, child>>

(* Create and Commit, or one fails, with a sandbox left behind or without. *)
Provision ==
  /\ pc = "provision"
  /\ \/ ~halted /\ Did({"provisioned"}) /\ Goto("verify")
     \/ Did({"provisioned"}) /\ Exit({"Provider"})
     \/ Exit({"Provider"}) /\ UNCHANGED did
  /\ UNCHANGED <<cfg, dirs, row, child, leaseVars>>

(* The verdict, then the cache, which may fail.                            *)
Verify ==
  /\ pc = "verify"
  /\ \E failed \in Verdicts :
       /\ halted /\ inv.arg = "aws" => failed
       /\ HandOver(failed)
       /\ \/ Did({"cached"} \cup Answer(failed))
          \/ Faulty("save") /\ Did(Answer(failed))
  /\ UNCHANGED <<cfg, dirs, row, child, leaseVars>>

(* Service.Destroy; the answer may be lost.                                *)
TearDown ==
  /\ pc = "call" /\ inv.command = "destroy"
  /\ \/ ~halted /\ Did({"tornDown"}) /\ Exit({})
     \/ Did({"tornDown"}) /\ Exit({"Provider"})
     \/ ~halted /\ Exit({"NoActiveSandbox"}) /\ UNCHANGED did
     \/ Exit({"Provider"}) /\ UNCHANGED did
  /\ UNCHANGED <<cfg, dirs, row, child, leaseVars>>

GenerateMFA ==
  /\ pc = "call" /\ inv.command = "mfa"
  /\ \/ ~halted /\ Did({"answered"}) /\ Goto("render")
     \/ Exit({"Provider"}) /\ UNCHANGED did
  /\ UNCHANGED <<cfg, dirs, row, child, leaseVars>>

(* Mutant of Render: a sandbox that failed verification is not printed.    *)
RenderVerified ==
  /\ pc = "render"
  /\ \/ err = {} /\ Did({"printed"}) /\ Exit(err)
     \/ err # {} /\ Exit(err) /\ UNCHANGED did
     \/ /\ Faulty("stdout") /\ UNCHANGED did
        /\ IF inv.command = "create" /\ ~cfg.JSON THEN Exit(err) ELSE Exit({"Other"})
  /\ UNCHANGED <<cfg, dirs, row, child, leaseVars>>

(* Only the styled rendering of a sandbox does not notice a failed write;  *)
(* that of JSON takes the place of create's own error.                     *)
Render ==
  /\ pc = "render"
  /\ \/ Did({"printed"}) /\ Exit(err)
     \/ /\ Faulty("stdout") /\ UNCHANGED did
        /\ IF inv.command = "create" /\ ~cfg.JSON THEN Exit(err) ELSE Exit({"Other"})
  /\ UNCHANGED <<cfg, dirs, row, child, leaseVars>>

-----------------------------------------------------------------------------
(* list and exec read the cache.  One entry stands for all: the AWS one.   *)
StartLocal ==
  /\ pc = "run" /\ inv.command \in {"list", "exec"}
  /\ IF inv.command = "exec" /\ inv.arg # "aws" THEN Exit({"Other"}) ELSE Goto("load")
  /\ UNCHANGED <<cfg, dirs, did, row, child, leaseVars>>

LoadFails ==
  /\ pc = "load" /\ Faulty("load")
  /\ Exit({"Other"})
  /\ UNCHANGED <<cfg, dirs, did, row, child, leaseVars>>

(* JSON has no status column, and reports a failed write.                  *)
List ==
  /\ pc = "load" /\ inv.command = "list"
  /\ \/ ~cfg.JSON /\ inv.expires # Nothing /\ Goto("mark") /\ UNCHANGED did
     \/ (cfg.JSON \/ inv.expires = Nothing) /\ Did({"printed"}) /\ Exit({})
     \/ cfg.JSON /\ Faulty("stdout") /\ Exit({"Other"}) /\ UNCHANGED did
     \/ ~cfg.JSON /\ Faulty("stdout") /\ Exit({}) /\ UNCHANGED did
  /\ UNCHANGED <<cfg, dirs, row, child, leaseVars>>

(* The STATUS column, for the time at which the list was read.             *)
MarkRow ==
  /\ pc = "mark"
  /\ row' = [row EXCEPT !.status = IF inv.expires > now THEN "active" ELSE "expired"]
  /\ Goto("format")
  /\ UNCHANGED <<cfg, dirs, did, child, leaseVars>>

(* time.Until(t).Round(time.Second); only the sign of the result matters.  *)
Rounded(d) == Second * ((2 * d + Second) \div (2 * Second))

(* Mutant of FormatRow: nothing left is not yet nothing.                   *)
FormatStrictly ==
  /\ pc = "format"
  /\ row' = [row EXCEPT !.column = IF Rounded(inv.expires - now) < 0 THEN "expired" ELSE "in"]
  /\ Did({"printed"}) /\ Exit({})
  /\ UNCHANGED <<cfg, dirs, child, leaseVars>>

(* formatExpiry: the EXPIRES column, for the time at which it is printed.  *)
FormatRow ==
  /\ pc = "format"
  /\ row' = [row EXCEPT !.column = IF Rounded(inv.expires - now) <= 0 THEN "expired" ELSE "in"]
  /\ \/ Did({"printed"})
     \/ Faulty("stdout") /\ UNCHANGED did
  /\ Exit({})
  /\ UNCHANGED <<cfg, dirs, child, leaseVars>>

(* exec needs an entry that has not expired, and one argument for --shell. *)
Exec ==
  /\ pc = "load" /\ inv.command = "exec"
  /\ LET live == inv.expires # Nothing /\ inv.expires > now IN
     \/ live /\ ~Faulty("usage") /\ ~halted /\ child' = Running /\ Goto("child")
     \/ /\ ~live \/ Faulty("usage") \/ halted \/ Faulty("start")
        /\ Exit({"Other"}) /\ UNCHANGED child
  /\ UNCHANGED <<cfg, dirs, did, row, leaseVars>>

(* A child that ends well after the signal may be reported as cancelled.   *)
ChildExits ==
  /\ pc = "child"
  /\ \E code \in ChildCodes :
       /\ child' = Ended(code)
       /\ \/ code # 0 /\ ExitAsChild(code)
          \/ code = 0 /\ Exit({})
          \/ code = 0 /\ halted /\ Exit({"Other"})
  /\ UNCHANGED <<cfg, dirs, did, row, leaseVars>>

(* A signal of its own ends it.                                            *)
ChildDies ==
  /\ pc = "child"
  /\ child' = Ended(Signaled) /\ ExitAsChild(Signaled)
  /\ UNCHANGED <<cfg, dirs, did, row, leaseVars>>

(* Mutant of KillChild: exec.Command, which knows no context.              *)
NeverKilled == FALSE /\ UNCHANGED vars

(* exec.CommandContext kills it when the context is cancelled.             *)
KillChild ==
  /\ pc = "child" /\ halted
  /\ child' = Ended(Signaled) /\ ExitAsChild(Signaled)
  /\ UNCHANGED <<cfg, dirs, did, row, leaseVars>>

-----------------------------------------------------------------------------
(* NotifyContext: the first SIGINT or SIGTERM; later ones do nothing.      *)
Interrupt ==
  /\ ~halted /\ pc # "exited"
  /\ halted' = TRUE
  /\ UNCHANGED <<inv, pc, cfg, dirs, now, did, err, row, child, status, said, leaseVars>>

(* Time counts for those who look at an entry's expiry, while they do.     *)
Tick ==
  /\ pc \in {"load", "mark", "format"} /\ inv.expires # Nothing /\ now < MaxTime
  /\ now' = now + 1
  /\ UNCHANGED <<inv, pc, cfg, dirs, halted, did, err, row, child, status, said, leaseVars>>

Init ==
  /\ inv \in Invocations
  /\ pc = "parse" /\ cfg = Nothing
  /\ dirs = inv.dirs
  /\ now = 0 /\ halted = FALSE
  /\ did = {} /\ err = {} /\ row = [status |-> "none", column |-> "none"]
  /\ child = Nothing /\ status = 0 /\ said = FALSE
  /\ LeaseInit

(* What ends by itself: local work, and requests, which have a timeout.    *)
SetUp   == Parse \/ LoadConfig \/ ResolveStateDir \/ MakeDir \/ ChmodDir
Local   == PrintMetadata \/ UseStore \/ ConfirmDestroy \/ StartCommand \/ Authorize
             \/ RequestSandbox \/ Render \/ StartLocal \/ LoadFails \/ List \/ MarkRow
             \/ FormatRow \/ Exec
Remote  == Login \/ Provision \/ Verify \/ TearDown \/ GenerateMFA \/ PromptFails
Others  == AnswerFromCache \/ FormEnds \/ PromptAnswered \/ ChildExits \/ ChildDies

Own(action) == action /\ UNCHANGED <<inv, now, halted>>

Next ==
  \/ Own(SetUp) \/ Own(Local) \/ Own(Remote) \/ Own(Others) \/ Own(KillChild)
  \/ Interrupt \/ Tick

Spec == Init /\ [][Next]_vars

(***************************************************************************)
(* The program's own steps are taken, and what a cancelled context ends,   *)
(* ends.  Nothing is assumed of the user, of Whizlabs, of AWS, of the      *)
(* child or of the confirmation form.                                      *)
(***************************************************************************)
FairSpec ==
  /\ Spec
  /\ WF_vars(Own(SetUp)) /\ WF_vars(Own(Local))
  /\ WF_vars(halted /\ Own(Remote)) /\ WF_vars(Own(KillChild))

-----------------------------------------------------------------------------
(***************************************************************************)
(* Every variable has its type, and a configuration that any command gets  *)
(* to see is one that config.Load has converted and validated.             *)
(***************************************************************************)
TypeOK ==
  /\ pc \in Steps
  /\ cfg # Nothing => Acceptable(cfg)
  /\ \A place \in Places : dirs[place] \in Directory \/ dirs[place] = inv.dirs[place]
  /\ now \in 0..MaxTime
  /\ halted \in BOOLEAN
  /\ did \subseteq Deeds
  /\ err \in {{}, {"VerificationFailed"}}
  /\ row \in [status : {"none", "active", "expired"}, column : {"none", "in", "expired"}]
  /\ child = Nothing \/ child = Running \/ child \in {Ended(c) : c \in ChildCodes \cup {Signaled}}
  /\ status \in 0..255
  /\ said \in BOOLEAN

(***************************************************************************)
(* Nothing is torn down unless the user confirmed it at the form, or said  *)
(* --yes, or WHZBOX_YES without a --yes=false that overrides it (destroy's *)
(* "confirmation prompt is shown unless --yes is set").                    *)
(***************************************************************************)
SaidYes ==
  \/ inv.flags.AssumeYes = TRUE
  \/ inv.flags.AssumeYes = Unset /\ inv.environ.AssumeYes = TRUE

NoTeardownWithoutConsent == "tornDown" \in did => "confirmed" \in did \/ SaidYes

(***************************************************************************)
(* What a script may conclude from an exit status, whatever failed and     *)
(* whenever the program was interrupted: 2, 4 and 5 mean that nothing was  *)
(* created or destroyed, 0 that destroy destroyed or was told not to, that *)
(* create has a sandbox whose credentials did not fail, and that mfa has   *)
(* printed a code (ExitCode and the order of the services' errors).        *)
(***************************************************************************)
StatusTells ==
  pc = "exited" /\ inv.command # "exec" =>
    /\ status \in {ExitAuth, ExitUserAborted, ExitNonInteractive} =>
         did \cap {"tornDown", "provisioned", "answered"} = {}
    /\ status = ExitOK =>
         /\ inv.command = "destroy" => did \cap {"tornDown", "declined"} # {}
         /\ inv.command = "create" => "answered" \in did /\ "unverified" \notin did
         /\ inv.command = "mfa" => "printed" \in did

(***************************************************************************)
(* The credentials of a sandbox that create was given cannot be fetched    *)
(* again: verified or not, they are printed or cached, unless both fail    *)
(* (newCreateCommand prints what failed verification, too).                *)
(***************************************************************************)
CredentialsReachSomebody ==
  pc = "exited" /\ inv.command = "create" /\ "answered" \in did =>
    did \cap {"printed", "cached"} # {} \/ {"save", "stdout"} \subseteq inv.faults

(***************************************************************************)
(* When exec has run a child, a failure of the child's is reported as the  *)
(* child did, without a line of whzbox's own, and success only when the    *)
(* child succeeded, also if a signal arrives while the child ends          *)
(* (exit-codes.md on exec).                                                *)
(***************************************************************************)
ChildsStatus ==
  pc = "exited" /\ child # Nothing =>
    /\ child.code > 0 => status = child.code
    /\ child.code # 0 => ~said
    /\ status = ExitOK => child.code = 0

(***************************************************************************)
(* The clock is read twice for a row of list, and rounded once: a sandbox  *)
(* whose status is "expired" is never shown with time left.                *)
(***************************************************************************)
ExpiredRowSaysSo ==
  pc = "exited" /\ row.status = "expired" => row.column = "expired"

(***************************************************************************)
(* One more -v never makes the log quieter, whatever else is set.          *)
(***************************************************************************)
VerboseNeverQuieter ==
  cfg # Nothing => ResolveLevel([cfg EXCEPT !.Verbose = @ + 1]) <= ResolveLevel(cfg)

(***************************************************************************)
(* A log level that config.Load lets pass is one that logging knows: -v    *)
(* and -q have no say then ("its value is trusted because config.Load has  *)
(* already validated it").                                                 *)
(***************************************************************************)
LogLevelIsFinal ==
  cfg # Nothing /\ cfg.LogLevel # "" =>
    \A v \in 0..2, q \in BOOLEAN :
      ResolveLevel([cfg EXCEPT !.Verbose = v, !.Quiet = q]) = ResolveLevel(cfg)

(***************************************************************************)
(* Every command that may read or write the state file does so in a        *)
(* directory that is closed to others, also one that existed with another  *)
(* mode (xdgstore.New).                                                    *)
(***************************************************************************)
PrivateBeforeUse ==
  pc \in Steps \ {"parse", "config", "resolve", "mkdir", "chmod", "exited"}
      /\ inv.command \notin {"version", "completion"}
    => dirs[StateDir] = "private"

(***************************************************************************)
(* version works where no state directory can be found or made             *)
(* (newMetadataApp "deliberately avoids creating state").                  *)
(***************************************************************************)
WorksWithoutState(command) ==
  pc = "exited" /\ inv.command = command /\ ArgAllowed /\ ~Faulty("stdout")
      /\ Acceptable(Loaded(inv.flags, inv.environ))
    => status = ExitOK

VersionNeedsNoState == WorksWithoutState("version")

(***************************************************************************)
(* completion.md: "Does not require a state directory or network access".  *)
(***************************************************************************)
CompletionNeedsNoState == WorksWithoutState("completion")

(***************************************************************************)
(* After a signal the program ends, at the confirmation form excepted: it  *)
(* waits neither for Whizlabs nor AWS, nor for its child, nor for the      *)
(* login form.                                                             *)
(***************************************************************************)
InterruptedEnds == halted /\ pc # "form" ~> pc \in {"exited", "form"}
=============================================================================
