------------------------- MODULE CommandLineProofs -------------------------
(***************************************************************************)
(* For every invocation, every failure and every moment of an interrupt:   *)
(* the safety properties of CommandLine.                                   *)
(***************************************************************************)
EXTENDS CommandLine, LeaseProofs

(* What the invocation is, and what its settings have come to.             *)
Known ==
  /\ inv \in Invocations
  /\ pc \in Steps
  /\ dirs \in [Places -> Directory \cup {"unset"}]
  /\ cfg = Nothing \/ (cfg = Loaded(inv.flags, inv.environ) /\ Acceptable(cfg))
  /\ pc \notin {"parse", "exited"} => ArgAllowed
  /\ pc \notin {"parse", "config", "exited"} =>
       cfg = Loaded(inv.flags, inv.environ) /\ Acceptable(cfg)

(* Which commands come to which steps.                                     *)
Course ==
  /\ pc \in {"resolve", "mkdir", "chmod"} => inv.command # "version"
  /\ pc = "form" => inv.command = "destroy"
  /\ pc \in {"authorize", "prompt", "login", "call"} => inv.command \in NeedsSession
  /\ pc \in {"provision", "verify"} => inv.command = "create"
  /\ pc = "render" => inv.command \in {"create", "mfa"}
  /\ pc = "load" => inv.command \in {"list", "exec"}
  /\ pc \in {"mark", "format"} => inv.command = "list"
  /\ pc = "child" => inv.command = "exec"

(* What has been brought about on the way there.                           *)
Progress ==
  /\ pc \notin {"verify", "render", "exited"} => did \subseteq {"confirmed"}
  /\ pc = "verify" => did \subseteq {"confirmed", "provisioned"}
  /\ pc = "render" => "tornDown" \notin did
  /\ pc \in {"authorize", "prompt", "login", "call"} /\ inv.command = "destroy" =>
       "confirmed" \in did \/ SaidYes
  /\ pc = "render" /\ inv.command = "create" =>
       /\ "answered" \in did
       /\ err = {} => "unverified" \notin did
       /\ "cached" \in did \/ "save" \in inv.faults
  /\ pc # "render" => err = {}
  /\ pc # "exited" => status = 0 /\ ~said
  /\ pc = "child" => child = Running
  /\ pc \notin {"child", "exited"} => child = Nothing

(* The two columns of the row that list prints.                            *)
Columns ==
  /\ pc = "format" /\ row.status = "expired" => inv.expires \in Nat /\ inv.expires <= now
  /\ pc \notin {"format", "exited"} => row = [status |-> "none", column |-> "none"]
  /\ pc \in {"mark", "format"} => inv.expires \in Nat

Claims ==
  /\ TypeOK
  /\ NoTeardownWithoutConsent
  /\ StatusTells
  /\ CredentialsReachSomebody
  /\ ChildsStatus
  /\ ExpiredRowSaysSo
  /\ PrivateBeforeUse
  /\ VersionNeedsNoState

Sound == Known /\ Course /\ Progress /\ Columns /\ Claims

-----------------------------------------------------------------------------
(* Exit statuses that an error decides.                                    *)
LEMMA Statuses ==
  /\ ExitCode({}) = 0
  /\ ExitCode({"Other"}) = 1
  /\ ExitCode({"InvalidCredentials"}) = 2
  /\ ExitCode({"Provider"}) = 3
  /\ ExitCode({"NoActiveSandbox"}) = 3
  /\ ExitCode({"VerificationFailed"}) = 3
  /\ ExitCode({"UserAborted"}) = 4
  /\ ExitCode({"PromptUnavailable"}) = 5
  /\ {0, 1, 2, 3, 4, 5} \subseteq 0..255
  BY DEF ExitCode, AuthErrors, ProviderErrors, ExitOK, ExitGeneric, ExitAuth, ExitProvider,
         ExitUserAborted, ExitNonInteractive

(* Those that a child decides.                                             *)
LEMMA ChildStatuses ==
  /\ \A code \in ChildCodes : code \in 0..255 /\ ChildStatus(code) = code
  /\ ChildStatus(Signaled) = 255
<1>1. \A code \in 0..255 : code % 256 = code
  BY Z3
<1>2. \A n \in Int : n + 1 = 0 => n % 256 = 255
  BY Z3
<1>3. -1 \in Int /\ -1 + 1 = 0
  BY SMT
<1> QED
  BY <1>1, <1>2, <1>3, CommandLineAssumption DEF ChildStatus, Signaled

(* What an invocation is made of.                                          *)
LEMMA Fields ==
  ASSUME NEW i \in Invocations
  PROVE  /\ i.command \in Commands
         /\ i.arg \in Providers \cup {"other", "none"}
         /\ i.duration \in Durations
         /\ i.flags \in Source /\ i.environ \in Source
         /\ i.tty \subseteq {"stdin", "stderr"}
         /\ i.dirs \in [Places -> Directory \cup {"unset"}]
         /\ i.expires \in Nat \cup {Nothing}
         /\ i.faults \subseteq Failures
  BY CommandLineAssumption

(* A time that has passed is not shown as time left, however it is rounded. *)
LEMMA PastIsPast ==
  ASSUME NEW d \in Int, d <= 0
  PROVE  Rounded(d) \in Int /\ Rounded(d) <= 0
<1> DEFINE n == 2 * d + Second
           q == n \div (2 * Second)
<1>1. Second \in Int /\ Second > 0
  BY CommandLineAssumption
<1>2. n \in Int /\ n < 2 * Second
  BY <1>1
<1>3. q \in Int /\ q * (2 * Second) <= n
  BY <1>1, <1>2, Z3
<1> HIDE DEF n
<1>4. q <= 0
  <2> HIDE DEF q
  <2>1. CASE q >= 1
    <3>1. q - 1 \in Nat /\ 2 * Second \in Nat
      BY <1>1, <1>3, <2>1
    <3>2. q * (2 * Second) = (q - 1) * (2 * Second) + 2 * Second
      BY <1>1, <1>3, Z3
    <3>3. (q - 1) * (2 * Second) >= 0
      BY <3>1, Z3
    <3> QED
      BY <1>1, <1>2, <1>3, <3>1, <3>2, <3>3, Z3
  <2> QED
    BY <1>3, <2>1
<1>5. Rounded(d) = Second * q
  BY DEF Rounded, n
<1> HIDE DEF q
<1> QED
  BY <1>1, <1>3, <1>4, <1>5, Z3

(* --yes is what the user said.                                            *)
LEMMA YesIsSaid ==
  ASSUME NEW i \in Invocations, i = inv, Acceptable(Loaded(i.flags, i.environ))
  PROVE  /\ Loaded(i.flags, i.environ).AssumeYes \in BOOLEAN
         /\ Loaded(i.flags, i.environ).AssumeYes => SaidYes
<1> DEFINE yes == Loaded(i.flags, i.environ).AssumeYes
<1>1. yes = Resolve(i.flags, i.environ, "AssumeYes")
  BY DEF Loaded, Settings
<1>2. yes # Malformed
  BY DEF Acceptable, Settings
<1>3. /\ i.flags.AssumeYes \in BOOLEAN \cup {Unset, Malformed}
      /\ i.environ.AssumeYes \in BOOLEAN \cup {Unset, Malformed}
  BY Fields DEF Source
<1>4. Default.AssumeYes = FALSE
  BY DEF Default
<1> QED
  BY <1>1, <1>2, <1>3, <1>4 DEF Resolve, SaidYes

-----------------------------------------------------------------------------
LEMMA SoundInit == Init => Sound
<1> SUFFICES ASSUME Init PROVE Sound
  OBVIOUS
<1>1. inv \in Invocations /\ inv.dirs \in [Places -> Directory \cup {"unset"}]
  BY Fields DEF Init
<1>2. 0 \in 0..MaxTime /\ 0 \in 0..255
  BY CommandLineAssumption
<1>3. Known /\ Course /\ Progress /\ Columns
  BY <1>1 DEF Init, Known, Course, Progress, Columns, Steps
<1>4. TypeOK
  BY <1>1, <1>2 DEF Init, TypeOK, Steps
<1>5. Claims
  BY <1>1, <1>4
  DEF Init, Claims, NoTeardownWithoutConsent, StatusTells, CredentialsReachSomebody,
      ChildsStatus, ExpiredRowSaysSo, PrivateBeforeUse, VersionNeedsNoState, WorksWithoutState
<1> QED
  BY <1>3, <1>5 DEF Sound

(* A step of the program's own leaves the circumstances and what follows   *)
(* from them.                                                              *)
LEMMA Keeps ==
  ASSUME inv' = inv
  PROVE  ArgAllowed' = ArgAllowed /\ SaidYes' = SaidYes /\ StateDir' = StateDir
  BY DEF ArgAllowed, SaidYes, StateDir, Named

(* A step after which the invocation goes on has nothing to answer for yet *)
(* but consent and the directory.                                          *)
LEMMA Onward ==
  ASSUME Sound, inv' = inv, pc' # "exited",
         Known', Course', Progress', Columns', TypeOK',
         PrivateBeforeUse'
  PROVE  Sound'
<1>1. NoTeardownWithoutConsent' /\ StatusTells' /\ CredentialsReachSomebody'
  BY DEF NoTeardownWithoutConsent, StatusTells, CredentialsReachSomebody, Progress, Known
<1>2. ChildsStatus' /\ ExpiredRowSaysSo' /\ VersionNeedsNoState'
  BY DEF ChildsStatus, ExpiredRowSaysSo, VersionNeedsNoState, WorksWithoutState
<1> QED
  BY <1>1, <1>2 DEF Sound, Claims

(* The simplest of these: on to the next step, with all else as it was.    *)
Early == {"parse", "config", "resolve", "mkdir", "chmod"}
Late  == {"verify", "render", "format", "child", "exited"}

LEMMA Advance ==
  ASSUME Sound, NEW step \in Steps \ (Early \cup Late), Goto(step),
         UNCHANGED <<inv, now, halted, cfg, dirs, did, row, child>>,
         pc \notin Early \cup Late,
         Course',
         inv.command = "destroy" /\ step \in {"authorize", "prompt", "login", "call"} =>
           "confirmed" \in did \/ SaidYes,
         step = "mark" => inv.expires \in Nat
  PROVE  Sound'
<1>1. Known' /\ Columns'
  BY Keeps DEF Sound, Known, Columns, Goto, Early, Late, Steps
<1>2. Progress'
  BY Keeps DEF Sound, Progress, Goto, Early, Late
<1>3. TypeOK' /\ PrivateBeforeUse'
  BY Keeps DEF Sound, Claims, TypeOK, PrivateBeforeUse, Goto, Early, Late, Steps
<1> QED
  BY <1>1, <1>2, <1>3, Onward DEF Goto, Early, Late

(* A step that ends the invocation leaves this much to be shown.           *)
LEMMA Ending ==
  ASSUME Sound, UNCHANGED <<inv, now, halted, cfg, dirs>>, pc' = "exited", err' = {},
         did' \subseteq Deeds, status' \in 0..255, said' \in BOOLEAN,
         row' \in [status : {"none", "active", "expired"}, column : {"none", "in", "expired"}],
         child' = child \/ child' \in {Ended(c) : c \in ChildCodes \cup {Signaled}},
         NoTeardownWithoutConsent', StatusTells', CredentialsReachSomebody', ChildsStatus',
         ExpiredRowSaysSo', VersionNeedsNoState'
  PROVE  Sound'
<1>1. Known' /\ Course' /\ Progress' /\ Columns'
  BY DEF Sound, Known, Course, Progress, Columns, Steps
<1>2. TypeOK'
  BY DEF Sound, Claims, TypeOK, Steps
<1>3. PrivateBeforeUse'
  BY DEF PrivateBeforeUse, Steps
<1> QED
  BY <1>1, <1>2, <1>3 DEF Sound, Claims

(* ... and little for commands whose exit status promises nothing.         *)
LEMMA Success ==
  ASSUME Sound, Exit({}), UNCHANGED <<inv, now, halted, cfg, dirs, row, child>>,
         pc \notin Late,
         did' = did \/ did' = did \cup {"printed"},
         inv.command \notin {"create", "destroy", "mfa", "exec"}
  PROVE  Sound'
<1>1. status' = 0 /\ status' \in 0..255 /\ pc' = "exited" /\ err' = {} /\ said' \in BOOLEAN
  BY Statuses DEF Exit
<1>2. did' \subseteq {"confirmed", "printed"} /\ did' \subseteq Deeds
  BY DEF Sound, Progress, Deeds, Late
<1>3. NoTeardownWithoutConsent' /\ StatusTells' /\ CredentialsReachSomebody'
  BY <1>1, <1>2
  DEF NoTeardownWithoutConsent, StatusTells, CredentialsReachSomebody, ExitOK, ExitAuth,
      ExitUserAborted, ExitNonInteractive
<1>4. ChildsStatus' /\ ExpiredRowSaysSo' /\ VersionNeedsNoState'
  BY <1>1
  DEF Sound, Progress, Columns, ChildsStatus, ExpiredRowSaysSo, VersionNeedsNoState,
      WorksWithoutState, Late, ExitOK
<1>5. row' \in [status : {"none", "active", "expired"}, column : {"none", "in", "expired"}]
  BY DEF Sound, Claims, TypeOK
<1> QED
  BY <1>1, <1>2, <1>3, <1>4, <1>5, Ending

(* An invocation that ends with an error before it had an effect.          *)
Errors == {{"Other"}, {"InvalidCredentials"}, {"Provider"}, {"NoActiveSandbox"},
           {"UserAborted"}, {"PromptUnavailable"}}

LEMMA Refusal ==
  ASSUME Sound, NEW errors \in Errors, Exit(errors),
         UNCHANGED <<inv, now, halted, cfg, dirs, did, row, child>>,
         pc \notin Late,
         \/ inv.command # "version" \/ ~ArgAllowed \/ Faulty("stdout")
         \/ ~Acceptable(Loaded(inv.flags, inv.environ))
  PROVE  Sound'
<1>1. status' \in {1, 2, 3, 4, 5} /\ status' \in 0..255
  BY Statuses DEF Exit, Errors
<1>2. /\ pc' = "exited" /\ err' = {} /\ said' \in BOOLEAN
      /\ did' \subseteq Deeds
      /\ row' \in [status : {"none", "active", "expired"}, column : {"none", "in", "expired"}]
  BY DEF Sound, Claims, TypeOK, Exit
<1>3. NoTeardownWithoutConsent' /\ StatusTells' /\ CredentialsReachSomebody'
  BY <1>1, Keeps
  DEF Sound, Progress, NoTeardownWithoutConsent, StatusTells, CredentialsReachSomebody, Late,
      ExitOK
<1>4. ChildsStatus' /\ ExpiredRowSaysSo'
  BY DEF Sound, Progress, Columns, ChildsStatus, ExpiredRowSaysSo, Late
<1>5. VersionNeedsNoState'
  BY Keeps DEF VersionNeedsNoState, WorksWithoutState, Faulty
<1> QED
  BY <1>1, <1>2, <1>3, <1>4, <1>5, Ending

-----------------------------------------------------------------------------
(* Setting up.                                                             *)
LEMMA SetUpStep == Sound /\ Own(SetUp) => Sound'
<1> SUFFICES ASSUME Sound, Own(SetUp) PROVE Sound'
  OBVIOUS
<1>0. UNCHANGED <<inv, now, halted>>
  BY DEF Own
<1>1. CASE Parse
  <2>1. CASE ~ArgAllowed
    BY <1>0, <1>1, <2>1, Refusal DEF Parse, Late, Errors
  <2>2. CASE ArgAllowed
    <3>1. Known' /\ Course' /\ Progress' /\ Columns'
      BY <1>0, <1>1, <2>2, Keeps
      DEF Parse, Goto, Sound, Known, Course, Progress, Columns, Steps
    <3>2. TypeOK' /\ PrivateBeforeUse'
      BY <1>0, <1>1, <2>2 DEF Parse, Goto, Sound, Claims, TypeOK, PrivateBeforeUse, Steps
    <3> QED
      BY <1>0, <1>1, <2>2, <3>1, <3>2, Onward DEF Parse, Goto
  <2> QED
    BY <2>1, <2>2
<1>2. CASE LoadConfig
  <2> DEFINE config == Loaded(inv.flags, inv.environ)
  <2>1. CASE ~Acceptable(config)
    BY <1>0, <1>2, <2>1, Refusal DEF LoadConfig, Late, Errors
  <2>2. CASE Acceptable(config)
    <3>1. /\ pc = "config" /\ cfg' = config
          /\ pc' = IF inv.command = "version" THEN "run" ELSE "resolve"
          /\ UNCHANGED <<inv, now, halted, dirs, did, row, child, err, status, said>>
      BY <1>0, <1>2, <2>2 DEF LoadConfig, Goto, Metadata
    <3> HIDE DEF config
    <3>2. Known'
      BY <2>2, <3>1, Keeps DEF config, Sound, Known, Steps
    <3>3. Course' /\ Progress' /\ Columns'
      BY <3>1, Keeps DEF Sound, Course, Progress, Columns
    <3>4. TypeOK' /\ PrivateBeforeUse'
      BY <2>2, <3>1 DEF Sound, Claims, TypeOK, PrivateBeforeUse, Steps
    <3> QED
      BY <3>1, <3>2, <3>3, <3>4, Onward
  <2> QED
    BY <2>1, <2>2
<1>3. CASE ResolveStateDir
  <2>1. CASE ~Named(StateDir)
    BY <1>0, <1>3, <2>1, Refusal DEF ResolveStateDir, Late, Errors, Sound, Course
  <2>2. CASE Named(StateDir)
    <3>1. Known' /\ Course' /\ Progress' /\ Columns'
      BY <1>0, <1>3, <2>2, Keeps
      DEF ResolveStateDir, Goto, Sound, Known, Course, Progress, Columns, Steps
    <3>2. TypeOK' /\ PrivateBeforeUse'
      BY <1>0, <1>3, <2>2
      DEF ResolveStateDir, Goto, Sound, Claims, TypeOK, PrivateBeforeUse, Steps
    <3> QED
      BY <1>0, <1>3, <2>2, <3>1, <3>2, Onward DEF ResolveStateDir, Goto
  <2> QED
    BY <2>1, <2>2
<1>4. CASE MakeDir \/ ChmodDir
  <2>1. CASE Exit({"Other"})
    BY <1>0, <1>4, <2>1, Refusal DEF MakeDir, ChmodDir, Goto, Exit, Late, Errors, Sound, Course
  <2>2. CASE Goto(IF pc = "mkdir" THEN "chmod" ELSE "run")
    <3>1. /\ pc \in {"mkdir", "chmod"} /\ UNCHANGED <<inv, now, halted, cfg, did, row, child>>
          /\ \E there \in Directory \cup {dirs[StateDir]} :
               dirs' = [dirs EXCEPT ![StateDir] = there]
          /\ pc = "chmod" => dirs' = [dirs EXCEPT ![StateDir] = "private"]
      <4>1. StateDir \in Places /\ dirs[StateDir] \in Directory \cup {"unset"}
        BY DEF StateDir, Places, Sound, Known
      <4>2. Directory \cup {"unset"} = {"absent", "wide", "private", "unset"}
        BY DEF Directory
      <4> QED
        BY <1>0, <1>4, <2>2, <4>1, <4>2 DEF MakeDir, ChmodDir, Goto, Exit
    <3>2. Known' /\ Course' /\ Progress' /\ Columns'
      BY <2>2, <3>1, Keeps DEF Goto, Sound, Known, Course, Progress, Columns, Steps
    <3>3. PrivateBeforeUse'
      BY <2>2, <3>1, Keeps DEF Goto, Sound, Known, StateDir, Places, PrivateBeforeUse, Steps
    <3>4. TypeOK'
      BY <2>2, <3>1 DEF Goto, Sound, Known, Claims, TypeOK, Steps, Directory
    <3> QED
      BY <2>2, <3>1, <3>2, <3>3, <3>4, Onward DEF Goto
  <2> QED
    BY <1>4, <2>1, <2>2 DEF MakeDir, ChmodDir
<1> QED
  BY <1>1, <1>2, <1>3, <1>4 DEF Own, SetUp

(* What is done with the store only, and the way to a session.             *)
SessionSteps == PrintMetadata \/ UseStore \/ ConfirmDestroy \/ FormEnds \/ StartCommand
                  \/ Authorize \/ PromptAnswered \/ PromptFails \/ Login

LEMMA SessionStep == Sound /\ Own(SessionSteps) => Sound'
<1> SUFFICES ASSUME Sound, Own(SessionSteps) PROVE Sound'
  OBVIOUS
<1>0. UNCHANGED <<inv, now, halted>>
  BY DEF Own
<1>1. CASE PrintMetadata
  <2>1. CASE Exit({})
    BY <1>0, <1>1, <2>1, Success DEF PrintMetadata, Did, Late
  <2>2. CASE Faulty("stdout") /\ Exit({"Other"}) /\ UNCHANGED did
    BY <1>0, <1>1, <2>2, Refusal DEF PrintMetadata, Late, Errors
  <2> QED
    BY <1>1, <2>1, <2>2 DEF PrintMetadata
<1>2. CASE UseStore
  <2>1. CASE Exit({})
    BY <1>0, <1>2, <2>1, Success DEF UseStore, Late
  <2>2. CASE Exit({"Other"})
    BY <1>0, <1>2, <2>2, Refusal DEF UseStore, Late, Errors
  <2> QED
    BY <1>2, <2>1, <2>2 DEF UseStore
<1>3. CASE ConfirmDestroy
  <2>1. cfg.AssumeYes \in BOOLEAN /\ (cfg.AssumeYes => SaidYes)
    BY <1>3, YesIsSaid DEF ConfirmDestroy, Sound, Known
  <2>2. CASE Goto("authorize") /\ cfg.AssumeYes
    BY <1>0, <1>3, <2>1, <2>2, Advance
    DEF ConfirmDestroy, Goto, Sound, Course, NeedsSession, Early, Late, Steps
  <2>3. CASE Goto("form")
    BY <1>0, <1>3, <2>3, Advance DEF ConfirmDestroy, Goto, Sound, Course, Early, Late, Steps
  <2>4. CASE Exit({"PromptUnavailable"})
    BY <1>0, <1>3, <2>4, Refusal DEF ConfirmDestroy, Late, Errors
  <2> QED
    BY <1>3, <2>1, <2>2, <2>3, <2>4 DEF ConfirmDestroy
<1>4. CASE FormEnds
  <2>1. pc = "form" /\ inv.command = "destroy" /\ UNCHANGED <<cfg, dirs, row, child>>
    BY <1>4 DEF FormEnds, Sound, Course
  <2>2. CASE Did({"confirmed"}) /\ Goto("authorize")
    <3>1. did' \subseteq {"confirmed"} /\ "confirmed" \in did'
      BY <2>1, <2>2 DEF Did, Sound, Progress
    <3>2. Known' /\ Course' /\ Columns'
      BY <1>0, <2>1, <2>2, Keeps DEF Goto, Sound, Known, Course, Columns, NeedsSession, Steps
    <3>3. Progress'
      BY <1>0, <2>1, <2>2, <3>1 DEF Goto, Sound, Progress
    <3>4. TypeOK' /\ PrivateBeforeUse'
      BY <1>0, <2>1, <2>2, <3>1, Keeps
      DEF Goto, Sound, Claims, TypeOK, PrivateBeforeUse, Steps, Deeds
    <3> QED
      BY <1>0, <2>2, <3>2, <3>3, <3>4, Onward DEF Goto
  <2>3. CASE Did({"declined"}) /\ Exit({})
    <3>1. did' \subseteq {"confirmed", "declined"} /\ "declined" \in did' /\ did' \subseteq Deeds
      BY <2>1, <2>3 DEF Did, Sound, Progress, Deeds
    <3>2. status' = 0 /\ status' \in 0..255 /\ pc' = "exited" /\ err' = {} /\ said' \in BOOLEAN
      BY <2>3, Statuses DEF Exit
    <3>3. row' \in [status : {"none", "active", "expired"}, column : {"none", "in", "expired"}]
      BY <2>1 DEF Sound, Claims, TypeOK
    <3>4. NoTeardownWithoutConsent' /\ StatusTells' /\ CredentialsReachSomebody'
      BY <1>0, <2>1, <3>1, <3>2
      DEF NoTeardownWithoutConsent, StatusTells, CredentialsReachSomebody, ExitOK, ExitAuth,
          ExitUserAborted, ExitNonInteractive
    <3>5. ChildsStatus' /\ ExpiredRowSaysSo' /\ VersionNeedsNoState'
      BY <1>0, <2>1, <3>2
      DEF Sound, Progress, Columns, ChildsStatus, ExpiredRowSaysSo, VersionNeedsNoState,
          WorksWithoutState
    <3> QED
      BY <1>0, <2>1, <3>1, <3>2, <3>3, <3>4, <3>5, Ending
  <2>4. CASE (Exit({"UserAborted"}) \/ Exit({"Other"})) /\ UNCHANGED did
    BY <1>0, <2>1, <2>4, Refusal DEF Late, Errors
  <2> QED
    BY <1>4, <2>2, <2>3, <2>4 DEF FormEnds
<1>5. CASE StartCommand
  BY <1>0, <1>5, Advance
  DEF StartCommand, Goto, Sound, Course, NeedsSession, Early, Late, Steps
<1>6. CASE Authorize
  <2>1. /\ pc = "authorize" /\ inv.command \in NeedsSession
        /\ UNCHANGED <<cfg, dirs, did, row, child>>
        /\ inv.command = "destroy" => "confirmed" \in did \/ SaidYes
    BY <1>6 DEF Authorize, Sound, Course, Progress
  <2>2. CASE Goto("call")
    BY <1>0, <2>1, <2>2, Advance DEF Goto, Course, Early, Late, Steps
  <2>3. CASE Goto("prompt")
    BY <1>0, <2>1, <2>3, Advance DEF Goto, Course, Early, Late, Steps
  <2>4. CASE Exit({"PromptUnavailable"}) \/ Exit({"Other"})
    BY <1>0, <2>1, <2>4, Refusal DEF NeedsSession, Late, Errors
  <2> QED
    BY <1>6, <2>2, <2>3, <2>4 DEF Authorize
<1>7. CASE PromptAnswered \/ PromptFails
  <2>1. /\ pc = "prompt" /\ inv.command \in NeedsSession
        /\ UNCHANGED <<cfg, dirs, did, row, child>>
        /\ inv.command = "destroy" => "confirmed" \in did \/ SaidYes
    BY <1>7 DEF PromptAnswered, PromptFails, Sound, Course, Progress
  <2>2. CASE Goto("login")
    BY <1>0, <2>1, <2>2, Advance DEF Goto, Course, Early, Late, Steps
  <2>3. CASE Exit({"UserAborted"}) \/ Exit({"Other"})
    BY <1>0, <2>1, <2>3, Refusal DEF NeedsSession, Late, Errors
  <2> QED
    BY <1>7, <2>2, <2>3 DEF PromptAnswered, PromptFails
<1>8. CASE Login
  <2>1. /\ pc = "login" /\ inv.command \in NeedsSession
        /\ UNCHANGED <<cfg, dirs, did, row, child>>
        /\ inv.command = "destroy" => "confirmed" \in did \/ SaidYes
    BY <1>8 DEF Login, Sound, Course, Progress
  <2>2. CASE inv.command = "login" /\ Exit({})
    BY <1>0, <2>1, <2>2, Success DEF Late
  <2>3. CASE Goto("call")
    BY <1>0, <2>1, <2>3, Advance DEF Goto, Course, Early, Late, Steps
  <2>4. CASE Exit({"InvalidCredentials"}) \/ Exit({"Other"})
    BY <1>0, <2>1, <2>4, Refusal DEF NeedsSession, Late, Errors
  <2> QED
    BY <1>8, <2>2, <2>3, <2>4 DEF Login
<1> QED
  BY <1>1, <1>2, <1>3, <1>4, <1>5, <1>6, <1>7, <1>8 DEF Own, SessionSteps

(* A request for a sandbox that goes on with a sandbox in hand.            *)
LEMMA Handed ==
  ASSUME Sound, UNCHANGED <<inv, now, halted, cfg, dirs, row, child>>,
         pc \in {"authorize", "verify"}, inv.command = "create",
         NEW failed \in BOOLEAN, HandOver(failed),
         \/ Did({"cached"} \cup Answer(failed))
         \/ Faulty("save") /\ Did(Answer(failed))
  PROVE  Sound'
<1>1. did \subseteq {"confirmed", "provisioned"}
  BY DEF Sound, Progress
<1>2. /\ did' \subseteq Deeds \ {"tornDown"} /\ "answered" \in did'
      /\ ~failed => "unverified" \notin did'
      /\ "cached" \in did' \/ "save" \in inv.faults
  BY <1>1 DEF Did, Answer, Deeds, Faulty
<1>3. /\ pc' = "render" /\ err' = (IF failed THEN {"VerificationFailed"} ELSE {})
      /\ UNCHANGED <<status, said>>
  BY DEF HandOver
<1>4. err' = {} => ~failed
  BY <1>3
<1>5. Known' /\ Course' /\ Columns'
  BY <1>3, Keeps DEF Sound, Known, Course, Columns, Steps
<1>6. Progress'
  BY <1>2, <1>3, <1>4 DEF Sound, Progress
<1>7. TypeOK' /\ PrivateBeforeUse'
  BY <1>2, <1>3, Keeps DEF Sound, Claims, TypeOK, PrivateBeforeUse, Steps
<1> QED
  BY <1>3, <1>5, <1>6, <1>7, Onward

(* The calls of create, destroy and mfa, and what is printed of them.      *)
ServiceSteps == AnswerFromCache \/ RequestSandbox \/ Provision \/ Verify \/ TearDown
                  \/ GenerateMFA \/ Render

LEMMA ServiceStep == Sound /\ Own(ServiceSteps) => Sound'
<1> SUFFICES ASSUME Sound, Own(ServiceSteps) PROVE Sound'
  OBVIOUS
<1>0. UNCHANGED <<inv, now, halted>>
  BY DEF Own
<1>1. CASE AnswerFromCache
  <2>1. ASSUME inv.command = "create", NEW failed \in Verdicts,
               Did({"cached"} \cup Answer(failed)), HandOver(failed)
        PROVE  Sound'
    BY <1>0, <1>1, <2>1, Handed DEF AnswerFromCache, Verdicts
  <2>2. CASE inv.command \in {"create", "mfa"} /\ Exit({"Other"}) /\ UNCHANGED did
    BY <1>0, <1>1, <2>2, Refusal DEF AnswerFromCache, Late, Errors
  <2> QED
    BY <1>1, <2>1, <2>2 DEF AnswerFromCache
<1>2. CASE RequestSandbox
  <2>1. /\ pc = "call" /\ inv.command = "create" /\ UNCHANGED <<cfg, dirs, did, row, child>>
        /\ Exit({"Provider"}) \/ Goto("provision")
    BY <1>2 DEF RequestSandbox
  <2>2. CASE Exit({"Provider"})
    BY <1>0, <2>1, <2>2, Refusal DEF Late, Errors
  <2>3. CASE Goto("provision")
    BY <1>0, <2>1, <2>3, Advance DEF Goto, Course, Early, Late, Steps
  <2> QED
    BY <2>1, <2>2, <2>3
<1>3. CASE Provision
  <2>1. /\ pc = "provision" /\ inv.command = "create" /\ UNCHANGED <<cfg, dirs, row, child>>
        /\ did \subseteq {"confirmed"}
    BY <1>3 DEF Provision, Sound, Course, Progress
  <2>2. CASE Did({"provisioned"}) /\ Goto("verify")
    <3>1. did' \subseteq {"confirmed", "provisioned"}
      BY <2>1, <2>2 DEF Did
    <3>2. Known' /\ Course' /\ Progress' /\ Columns'
      BY <1>0, <2>1, <2>2, <3>1, Keeps
      DEF Goto, Sound, Known, Course, Progress, Columns, Steps
    <3>3. TypeOK' /\ PrivateBeforeUse'
      BY <1>0, <2>1, <2>2, <3>1, Keeps
      DEF Goto, Sound, Claims, TypeOK, PrivateBeforeUse, Steps, Deeds
    <3> QED
      BY <1>0, <2>2, <3>2, <3>3, Onward DEF Goto
  <2>3. CASE Did({"provisioned"}) /\ Exit({"Provider"})
    <3>1. did' \subseteq {"confirmed", "provisioned"} /\ did' \subseteq Deeds
      BY <2>1, <2>3 DEF Did, Deeds
    <3>2. status' = 3 /\ status' \in 0..255 /\ pc' = "exited" /\ err' = {} /\ said' \in BOOLEAN
      BY <2>3, Statuses DEF Exit
    <3>3. row' \in [status : {"none", "active", "expired"}, column : {"none", "in", "expired"}]
      BY <2>1 DEF Sound, Claims, TypeOK
    <3>4. NoTeardownWithoutConsent' /\ StatusTells' /\ CredentialsReachSomebody'
      BY <3>1, <3>2
      DEF NoTeardownWithoutConsent, StatusTells, CredentialsReachSomebody, ExitOK, ExitAuth,
          ExitUserAborted, ExitNonInteractive
    <3>5. ChildsStatus' /\ ExpiredRowSaysSo' /\ VersionNeedsNoState'
      BY <1>0, <2>1
      DEF Sound, Progress, Columns, ChildsStatus, ExpiredRowSaysSo, VersionNeedsNoState,
          WorksWithoutState
    <3> QED
      BY <1>0, <2>1, <3>1, <3>2, <3>3, <3>4, <3>5, Ending
  <2>4. CASE Exit({"Provider"}) /\ UNCHANGED did
    BY <1>0, <2>1, <2>4, Refusal DEF Late, Errors
  <2> QED
    BY <1>3, <2>2, <2>3, <2>4 DEF Provision
<1>4. CASE Verify
  <2>1. PICK failed \in Verdicts :
          /\ HandOver(failed)
          /\ \/ Did({"cached"} \cup Answer(failed))
             \/ Faulty("save") /\ Did(Answer(failed))
    BY <1>4 DEF Verify
  <2>2. pc = "verify" /\ inv.command = "create" /\ failed \in BOOLEAN
    BY <1>4, <2>1 DEF Verify, Verdicts, Sound, Course
  <2>3. UNCHANGED <<cfg, dirs, row, child>>
    BY <1>4 DEF Verify
  <2> QED
    BY <1>0, <2>1, <2>2, <2>3, Handed
<1>5. CASE TearDown
  <2>1. /\ pc = "call" /\ inv.command = "destroy" /\ UNCHANGED <<cfg, dirs, row, child>>
        /\ did \subseteq {"confirmed"}
        /\ "confirmed" \in did \/ SaidYes
    BY <1>5 DEF TearDown, Sound, Course, Progress
  <2>2. CASE Did({"tornDown"}) /\ (Exit({}) \/ Exit({"Provider"}))
    <3>1. /\ did' = did \cup {"tornDown"}
          /\ did' \subseteq {"confirmed", "tornDown"} /\ did' \subseteq Deeds
      BY <2>1, <2>2 DEF Did, Deeds
    <3>2. /\ status' \in {0, 3} /\ status' \in 0..255
          /\ pc' = "exited" /\ err' = {} /\ said' \in BOOLEAN
      <4>1. CASE Exit({})
        BY <4>1, Statuses DEF Exit
      <4>2. CASE Exit({"Provider"})
        BY <4>2, Statuses DEF Exit
      <4> QED
        BY <2>2, <4>1, <4>2
    <3>3. row' \in [status : {"none", "active", "expired"}, column : {"none", "in", "expired"}]
      BY <2>1 DEF Sound, Claims, TypeOK
    <3>4. NoTeardownWithoutConsent'
      BY <1>0, <2>1, <3>1, Keeps DEF NoTeardownWithoutConsent
    <3>5. StatusTells' /\ CredentialsReachSomebody'
      BY <1>0, <2>1, <3>1, <3>2
      DEF StatusTells, CredentialsReachSomebody, ExitOK, ExitAuth, ExitUserAborted,
          ExitNonInteractive
    <3>6. ChildsStatus' /\ ExpiredRowSaysSo' /\ VersionNeedsNoState'
      BY <1>0, <2>1
      DEF Sound, Progress, Columns, ChildsStatus, ExpiredRowSaysSo, VersionNeedsNoState,
          WorksWithoutState
    <3> QED
      BY <1>0, <2>1, <3>1, <3>2, <3>3, <3>4, <3>5, <3>6, Ending
  <2>3. CASE (Exit({"NoActiveSandbox"}) \/ Exit({"Provider"})) /\ UNCHANGED did
    BY <1>0, <2>1, <2>3, Refusal DEF Late, Errors
  <2> QED
    BY <1>5, <2>2, <2>3 DEF TearDown
<1>6. CASE GenerateMFA
  <2>1. /\ pc = "call" /\ inv.command = "mfa" /\ UNCHANGED <<cfg, dirs, row, child>>
        /\ did \subseteq {"confirmed"}
    BY <1>6 DEF GenerateMFA, Sound, Progress
  <2>2. CASE Did({"answered"}) /\ Goto("render")
    <3>1. did' \subseteq {"confirmed", "answered"}
      BY <2>1, <2>2 DEF Did
    <3>2. Known' /\ Course' /\ Progress' /\ Columns'
      BY <1>0, <2>1, <2>2, <3>1, Keeps
      DEF Goto, Sound, Known, Course, Progress, Columns, Steps
    <3>3. TypeOK' /\ PrivateBeforeUse'
      BY <1>0, <2>1, <2>2, <3>1, Keeps
      DEF Goto, Sound, Claims, TypeOK, PrivateBeforeUse, Steps, Deeds
    <3> QED
      BY <1>0, <2>2, <3>2, <3>3, Onward DEF Goto
  <2>3. CASE Exit({"Provider"}) /\ UNCHANGED did
    BY <1>0, <2>1, <2>3, Refusal DEF Late, Errors
  <2> QED
    BY <1>6, <2>2, <2>3 DEF GenerateMFA
<1>7. CASE Render
  <2>1. /\ pc = "render" /\ inv.command \in {"create", "mfa"}
        /\ UNCHANGED <<cfg, dirs, row, child>>
        /\ did \subseteq Deeds \ {"tornDown"} /\ err \in {{}, {"VerificationFailed"}}
        /\ inv.command = "create" =>
             /\ "answered" \in did
             /\ err = {} => "unverified" \notin did
             /\ "cached" \in did \/ "save" \in inv.faults
    BY <1>7 DEF Render, Sound, Course, Progress, Claims, TypeOK
  <2>2. \/ did' = did \cup {"printed"} /\ Exit(err)
        \/ /\ "stdout" \in inv.faults /\ did' = did
           /\ (Exit(err) /\ inv.command = "create") \/ Exit({"Other"})
    BY <1>7 DEF Render, Did, Faulty
  <2>3. /\ status' \in {0, 1, 3} /\ status' \in 0..255
        /\ pc' = "exited" /\ err' = {} /\ said' \in BOOLEAN
        /\ status' = 0 => err = {} /\ ("printed" \in did' \/ inv.command = "create")
    <3>1. ExitCode(err) \in {0, 3} /\ (ExitCode(err) = 0 => err = {}) /\ {0, 1, 3} \subseteq 0..255
      BY <2>1, Statuses
    <3>2. \/ status' = ExitCode(err) /\ ("printed" \in did' \/ inv.command = "create")
          \/ status' = 1
      BY <2>2, Statuses DEF Exit
    <3>3. pc' = "exited" /\ err' = {} /\ said' \in BOOLEAN
      BY <2>2 DEF Exit
    <3> QED
      BY <3>1, <3>2, <3>3
  <2>4. /\ did' \subseteq Deeds \ {"tornDown"} /\ did \subseteq did'
        /\ "unverified" \in did' => "unverified" \in did
        /\ "printed" \in did' \/ "stdout" \in inv.faults
    BY <2>1, <2>2 DEF Deeds
  <2>5. row' \in [status : {"none", "active", "expired"}, column : {"none", "in", "expired"}]
    BY <2>1 DEF Sound, Claims, TypeOK
  <2>6. NoTeardownWithoutConsent' /\ StatusTells' /\ CredentialsReachSomebody'
    BY <1>0, <2>1, <2>3, <2>4
    DEF NoTeardownWithoutConsent, StatusTells, CredentialsReachSomebody, ExitOK, ExitAuth,
        ExitUserAborted, ExitNonInteractive
  <2>7. ChildsStatus' /\ ExpiredRowSaysSo' /\ VersionNeedsNoState'
    BY <1>0, <2>1
    DEF Sound, Progress, Columns, ChildsStatus, ExpiredRowSaysSo, VersionNeedsNoState,
        WorksWithoutState
  <2> QED
    BY <1>0, <2>1, <2>3, <2>4, <2>5, <2>6, <2>7, Ending
<1> QED
  BY <1>1, <1>2, <1>3, <1>4, <1>5, <1>6, <1>7 DEF Own, ServiceSteps

(* list and exec, until there is a child.                                  *)
LocalSteps == StartLocal \/ LoadFails \/ List \/ MarkRow \/ FormatRow \/ Exec

LEMMA LocalStep == Sound /\ Own(LocalSteps) => Sound'
<1> SUFFICES ASSUME Sound, Own(LocalSteps) PROVE Sound'
  OBVIOUS
<1>0. UNCHANGED <<inv, now, halted>>
  BY DEF Own
<1>1. CASE StartLocal
  <2>1. CASE Goto("load")
    BY <1>0, <1>1, <2>1, Advance DEF StartLocal, Goto, Sound, Course, Early, Late, Steps
  <2>2. CASE Exit({"Other"})
    BY <1>0, <1>1, <2>2, Refusal DEF StartLocal, Late, Errors
  <2> QED
    BY <1>1, <2>1, <2>2 DEF StartLocal
<1>2. CASE LoadFails
  BY <1>0, <1>2, Refusal DEF LoadFails, Sound, Course, Late, Errors
<1>3. CASE List
  <2>1. pc = "load" /\ inv.command = "list" /\ UNCHANGED <<cfg, dirs, row, child>>
    BY <1>3 DEF List
  <2>2. CASE inv.expires # Nothing /\ Goto("mark") /\ UNCHANGED did
    <3>1. inv.expires \in Nat
      BY <2>2, Fields DEF Sound, Known
    <3>2. Course'
      BY <1>0, <2>1, <2>2 DEF Goto, Course
    <3> QED
      BY <1>0, <2>1, <2>2, <3>1, <3>2, Advance DEF Goto, Early, Late, Steps
  <2>3. CASE (Did({"printed"}) \/ UNCHANGED did) /\ Exit({})
    BY <1>0, <2>1, <2>3, Success DEF Did, Late
  <2>4. CASE Exit({"Other"}) /\ UNCHANGED did
    BY <1>0, <2>1, <2>4, Refusal DEF Late, Errors
  <2> QED
    BY <1>3, <2>2, <2>3, <2>4 DEF List
<1>4. CASE MarkRow
  <2>1. /\ pc = "mark" /\ Goto("format") /\ UNCHANGED <<inv, now, halted, cfg, dirs, did, child>>
        /\ row' = [row EXCEPT !.status = IF inv.expires > now THEN "active" ELSE "expired"]
        /\ row = [status |-> "none", column |-> "none"]
        /\ inv.expires \in Nat /\ now \in Nat
    BY <1>0, <1>4, CommandLineAssumption DEF MarkRow, Sound, Columns, Claims, TypeOK
  <2>2. /\ row' \in [status : {"none", "active", "expired"}, column : {"none", "in", "expired"}]
        /\ row'.status = "expired" => inv.expires <= now
    BY <2>1
  <2>3. Known' /\ Course' /\ Progress'
    BY <2>1, Keeps DEF Goto, Sound, Known, Course, Progress, Steps
  <2>4. Columns'
    BY <2>1, <2>2 DEF Goto, Columns
  <2>5. TypeOK' /\ PrivateBeforeUse'
    BY <2>1, <2>2, Keeps DEF Goto, Sound, Claims, TypeOK, PrivateBeforeUse, Steps
  <2> QED
    BY <2>1, <2>3, <2>4, <2>5, Onward DEF Goto
<1>5. CASE FormatRow
  <2> DEFINE left == Rounded(inv.expires - now)
  <2>1. /\ pc = "format" /\ inv.command = "list" /\ Exit({}) /\ UNCHANGED <<cfg, dirs, child>>
        /\ row' = [row EXCEPT !.column = IF left <= 0 THEN "expired" ELSE "in"]
        /\ did' = did \/ did' = did \cup {"printed"}
    BY <1>5 DEF FormatRow, Did, Sound, Course
  <2>2. /\ row \in [status : {"none", "active", "expired"}, column : {"none", "in", "expired"}]
        /\ did \subseteq {"confirmed"} /\ now \in Nat /\ inv.expires \in Nat
        /\ row.status = "expired" => inv.expires <= now
        /\ child = Nothing
    BY <2>1, CommandLineAssumption DEF Sound, Progress, Columns, Claims, TypeOK
  <2>3. row.status = "expired" => left <= 0
    <3>1. inv.expires <= now => inv.expires - now \in Int /\ inv.expires - now <= 0
      BY <2>2
    <3> QED
      BY <2>2, <3>1, PastIsPast
  <2> HIDE DEF left
  <2>4. /\ row' \in [status : {"none", "active", "expired"}, column : {"none", "in", "expired"}]
        /\ row'.status = "expired" => row'.column = "expired"
    BY <2>1, <2>2, <2>3
  <2>5. status' = 0 /\ status' \in 0..255 /\ pc' = "exited" /\ err' = {} /\ said' \in BOOLEAN
    BY <2>1, Statuses DEF Exit
  <2>6. did' \subseteq {"confirmed", "printed"} /\ did' \subseteq Deeds
    BY <2>1, <2>2 DEF Deeds
  <2>7. NoTeardownWithoutConsent' /\ StatusTells' /\ CredentialsReachSomebody'
    BY <1>0, <2>1, <2>5, <2>6
    DEF NoTeardownWithoutConsent, StatusTells, CredentialsReachSomebody, ExitOK, ExitAuth,
        ExitUserAborted, ExitNonInteractive
  <2>8. ChildsStatus' /\ ExpiredRowSaysSo' /\ VersionNeedsNoState'
    BY <1>0, <2>1, <2>2, <2>4
    DEF ChildsStatus, ExpiredRowSaysSo, VersionNeedsNoState, WorksWithoutState
  <2> QED
    BY <1>0, <2>1, <2>4, <2>5, <2>6, <2>7, <2>8, Ending
<1>6. CASE Exec
  <2>1. pc = "load" /\ inv.command = "exec" /\ UNCHANGED <<cfg, dirs, did, row>>
    BY <1>6 DEF Exec
  <2>2. CASE child' = Running /\ Goto("child")
    <3>1. Known' /\ Course' /\ Progress' /\ Columns'
      BY <1>0, <2>1, <2>2, Keeps DEF Goto, Sound, Known, Course, Progress, Columns, Steps
    <3>2. TypeOK' /\ PrivateBeforeUse'
      BY <1>0, <2>1, <2>2, Keeps DEF Goto, Sound, Claims, TypeOK, PrivateBeforeUse, Steps
    <3> QED
      BY <1>0, <2>2, <3>1, <3>2, Onward DEF Goto
  <2>3. CASE Exit({"Other"}) /\ UNCHANGED child
    BY <1>0, <2>1, <2>3, Refusal DEF Late, Errors
  <2> QED
    BY <1>6, <2>2, <2>3 DEF Exec
<1> QED
  BY <1>1, <1>2, <1>3, <1>4, <1>5, <1>6 DEF Own, LocalSteps

(* The child's end, however it comes.                                      *)
ChildSteps == ChildExits \/ ChildDies \/ KillChild

LEMMA ChildStep == Sound /\ Own(ChildSteps) => Sound'
<1> SUFFICES ASSUME Sound, Own(ChildSteps) PROVE Sound'
  OBVIOUS
<1>1. /\ pc = "child" /\ inv.command = "exec" /\ did \subseteq {"confirmed"}
      /\ UNCHANGED <<inv, now, halted, cfg, dirs, did, row>>
  BY DEF Own, ChildSteps, ChildExits, ChildDies, KillChild, Sound, Course, Progress
<1>2. PICK code \in ChildCodes \cup {Signaled} :
        /\ child' = Ended(code)
        /\ \/ code # 0 /\ ExitAsChild(code)
           \/ code = 0 /\ Exit({})
           \/ code = 0 /\ Exit({"Other"})
  BY DEF Own, ChildSteps, ChildExits, ChildDies, KillChild, Signaled
<1>3. /\ code \in Int /\ ChildStatus(code) \in 0..255
      /\ code > 0 => ChildStatus(code) = code
      /\ code # 0 => ChildStatus(code) # 0
  BY ChildStatuses DEF Signaled
<1>4. /\ status' \in 0..255 /\ said' \in BOOLEAN /\ pc' = "exited" /\ err' = {}
      /\ code > 0 => status' = code
      /\ code # 0 => ~said'
      /\ status' = 0 => code = 0
  <2>1. CASE code # 0 /\ ExitAsChild(code)
    BY <1>3, <2>1 DEF ExitAsChild
  <2>2. CASE code = 0 /\ Exit({})
    BY <2>2, Statuses DEF Exit
  <2>3. CASE code = 0 /\ Exit({"Other"})
    BY <2>3, Statuses DEF Exit
  <2> QED
    BY <1>2, <2>1, <2>2, <2>3
<1>5. child'.code = code
  BY <1>2 DEF Ended
<1>6. ChildsStatus'
  BY <1>4, <1>5 DEF ChildsStatus, ExitOK
<1>7. NoTeardownWithoutConsent' /\ StatusTells' /\ CredentialsReachSomebody'
  BY <1>1 DEF NoTeardownWithoutConsent, StatusTells, CredentialsReachSomebody
<1>8. ExpiredRowSaysSo' /\ VersionNeedsNoState'
  BY <1>1 DEF Sound, Columns, ExpiredRowSaysSo, VersionNeedsNoState, WorksWithoutState
<1>9. row' \in [status : {"none", "active", "expired"}, column : {"none", "in", "expired"}]
  BY <1>1 DEF Sound, Claims, TypeOK
<1>10. did' \subseteq Deeds
  BY <1>1 DEF Deeds
<1> QED
  BY <1>1, <1>2, <1>4, <1>6, <1>7, <1>8, <1>9, <1>10, Ending

(* A signal and the passing of time.                                       *)
LEMMA OutsideStep == Sound /\ (Interrupt \/ Tick) => Sound'
<1> SUFFICES ASSUME Sound, Interrupt \/ Tick PROVE Sound'
  OBVIOUS
<1>1. /\ UNCHANGED <<inv, pc, cfg, dirs, did, err, row, child, status, said>>
      /\ pc # "exited"
      /\ now' \in 0..MaxTime /\ now' >= now /\ now \in Nat /\ now' \in Nat
      /\ halted' \in BOOLEAN
  <2>1. MaxTime \in Nat /\ now \in 0..MaxTime /\ halted \in BOOLEAN
    BY CommandLineAssumption DEF Sound, Claims, TypeOK
  <2>2. CASE Interrupt
    BY <2>1, <2>2 DEF Interrupt
  <2>3. CASE Tick
    BY <2>1, <2>3 DEF Tick
  <2> QED
    BY <2>2, <2>3
<1>2. Known' /\ Course' /\ Progress'
  BY <1>1, Keeps DEF Sound, Known, Course, Progress
<1>3. Columns'
  BY <1>1 DEF Sound, Columns
<1>4. TypeOK' /\ PrivateBeforeUse'
  BY <1>1, Keeps DEF Sound, Claims, TypeOK, PrivateBeforeUse
<1> QED
  BY <1>1, <1>2, <1>3, <1>4, Onward

LEMMA SoundStep == Sound /\ [Next]_vars => Sound'
<1> SUFFICES ASSUME Sound, [Next]_vars PROVE Sound'
  OBVIOUS
<1>1. CASE UNCHANGED vars
  BY <1>1, Keeps
  DEF vars, Sound, Known, Course, Progress, Columns, Claims, TypeOK, NoTeardownWithoutConsent,
      StatusTells, CredentialsReachSomebody, ChildsStatus, ExpiredRowSaysSo,
      PrivateBeforeUse, VersionNeedsNoState, WorksWithoutState, Faulty
<1>2. CASE Own(SetUp)
  BY <1>2, SetUpStep
<1>3. CASE Own(SessionSteps)
  BY <1>3, SessionStep
<1>4. CASE Own(ServiceSteps)
  BY <1>4, ServiceStep
<1>5. CASE Own(LocalSteps)
  BY <1>5, LocalStep
<1>6. CASE Own(ChildSteps)
  BY <1>6, ChildStep
<1>7. CASE Interrupt \/ Tick
  BY <1>7, OutsideStep
<1>8. Own(Local) \/ Own(Remote) \/ Own(Others) \/ Own(KillChild) =>
        Own(SessionSteps) \/ Own(ServiceSteps) \/ Own(LocalSteps) \/ Own(ChildSteps)
  BY DEF Own, Local, Remote, Others, SessionSteps, ServiceSteps, LocalSteps, ChildSteps
<1> QED
  BY <1>1, <1>2, <1>3, <1>4, <1>5, <1>6, <1>7, <1>8 DEF Next

LEMMA AlwaysSound == Spec => []Sound
  BY SoundInit, SoundStep, PTL DEF Spec

-----------------------------------------------------------------------------
(***************************************************************************)
(* Every variable keeps its type; the exit status is one that the          *)
(* operating system can report, also for a child that a signal ended.      *)
(***************************************************************************)
THEOREM TypeCorrect == Spec => []TypeOK
<1>1. Sound => TypeOK
  BY DEF Sound, Claims
<1> QED
  BY <1>1, AlwaysSound, PTL

(***************************************************************************)
(* destroy tears nothing down without --yes, WHZBOX_YES or a "yes" at its  *)
(* form (confirmDestroy).                                                  *)
(***************************************************************************)
THEOREM ConsentFirst == Spec => []NoTeardownWithoutConsent
<1>1. Sound => NoTeardownWithoutConsent
  BY DEF Sound, Claims
<1> QED
  BY <1>1, AlwaysSound, PTL

(***************************************************************************)
(* What a script concludes from an exit status is true, whatever fails and *)
(* whenever a signal comes (ExitCode, and the order in which the commands  *)
(* call the services).                                                     *)
(***************************************************************************)
THEOREM StatusIsTrue == Spec => []StatusTells
<1>1. Sound => StatusTells
  BY DEF Sound, Claims
<1> QED
  BY <1>1, AlwaysSound, PTL

(***************************************************************************)
(* The credentials that create was given are printed or cached, unless     *)
(* both fail (newCreateCommand).                                           *)
(***************************************************************************)
THEOREM CredentialsArrive == Spec => []CredentialsReachSomebody
<1>1. Sound => CredentialsReachSomebody
  BY DEF Sound, Claims
<1> QED
  BY <1>1, AlwaysSound, PTL

(***************************************************************************)
(* exec reports of its child what the child reported (ExecChildError).     *)
(***************************************************************************)
THEOREM ChildIsHeard == Spec => []ChildsStatus
<1>1. Sound => ChildsStatus
  BY DEF Sound, Claims
<1> QED
  BY <1>1, AlwaysSound, PTL

(***************************************************************************)
(* A row of list that says "expired" shows no time left, however the time  *)
(* passes between its two columns and is rounded (formatExpiry).           *)
(***************************************************************************)
THEOREM RowsAgree == Spec => []ExpiredRowSaysSo
<1>1. Sound => ExpiredRowSaysSo
  BY DEF Sound, Claims
<1> QED
  BY <1>1, AlwaysSound, PTL

(***************************************************************************)
(* The state file is used in a directory closed to others only             *)
(* (xdgstore.New).                                                         *)
(***************************************************************************)
THEOREM StateIsPrivate == Spec => []PrivateBeforeUse
<1>1. Sound => PrivateBeforeUse
  BY DEF Sound, Claims
<1> QED
  BY <1>1, AlwaysSound, PTL

(***************************************************************************)
(* version works where no state directory can be had (newMetadataApp).     *)
(***************************************************************************)
THEOREM VersionWorks == Spec => []VersionNeedsNoState
<1>1. Sound => VersionNeedsNoState
  BY DEF Sound, Claims
<1> QED
  BY <1>1, AlwaysSound, PTL

-----------------------------------------------------------------------------
(* What a configuration that was let pass is made of.                      *)
LEMMA Converted ==
  ASSUME NEW i \in Invocations, NEW config, config = Loaded(i.flags, i.environ),
         Acceptable(config)
  PROVE  /\ config = [key \in Settings |-> config[key]]
         /\ config.Verbose \in Nat
         /\ config.LogLevel # "" => config.LogLevel \in DOMAIN ParseLevel
<1>1. config.Verbose = Resolve(i.flags, i.environ, "Verbose") /\ config.Verbose # Malformed
  BY DEF Loaded, Settings, Acceptable
<1>2. /\ i.flags.Verbose \in Nat \cup {Unset, Malformed}
      /\ i.environ.Verbose \in Nat \cup {Unset, Malformed}
  BY Fields DEF Source
<1>3. config.Verbose \in Nat
  BY <1>1, <1>2 DEF Resolve, Default
<1>4. DOMAIN ParseLevel = {"debug", "info", "warn", "warning", "error"}
  BY DEF ParseLevel
<1>5. config.LogLevel \in ValidLogLevels
  BY DEF Acceptable
<1>6. config = [key \in Settings |-> config[key]]
  BY DEF Loaded
<1> QED
  BY <1>3, <1>4, <1>5, <1>6 DEF ValidLogLevels

(***************************************************************************)
(* One more -v never makes the log quieter (logging.ResolveLevel).         *)
(***************************************************************************)
THEOREM VerboseIsMonotonic == Spec => []VerboseNeverQuieter
<1>1. Sound => VerboseNeverQuieter
  <2> SUFFICES ASSUME Sound, cfg # Nothing
               PROVE  ResolveLevel([cfg EXCEPT !.Verbose = @ + 1]) <= ResolveLevel(cfg)
    BY DEF VerboseNeverQuieter
  <2> DEFINE more == [cfg EXCEPT !.Verbose = @ + 1]
  <2>1. cfg = [key \in Settings |-> cfg[key]] /\ cfg.Verbose \in Nat
    BY Converted DEF Sound, Known
  <2>2. /\ more.Verbose = cfg.Verbose + 1
        /\ more.LogLevel = cfg.LogLevel /\ more.Quiet = cfg.Quiet
    BY <2>1 DEF Settings
  <2>3. \A level \in DOMAIN ParseLevel : ParseLevel[level] \in Int
    BY DEF ParseLevel, LevelDebug, LevelInfo, LevelWarn, LevelError
  <2> HIDE DEF more
  <2>4. ResolveLevel(more) <= ResolveLevel(cfg)
    BY <2>1, <2>2, <2>3 DEF ResolveLevel, LevelDebug, LevelInfo, LevelWarn, LevelError
  <2> QED
    BY <2>4 DEF more
<1> QED
  BY <1>1, AlwaysSound, PTL

(***************************************************************************)
(* A log level that validation lets pass is the one that logging takes     *)
(* (config.Load before logging.New).                                       *)
(***************************************************************************)
THEOREM LogLevelDecides == Spec => []LogLevelIsFinal
<1>1. Sound => LogLevelIsFinal
  <2> SUFFICES ASSUME Sound, cfg # Nothing, cfg.LogLevel # "",
                      NEW v \in 0..2, NEW q \in BOOLEAN
               PROVE  ResolveLevel([cfg EXCEPT !.Verbose = v, !.Quiet = q]) = ResolveLevel(cfg)
    BY DEF LogLevelIsFinal
  <2>1. cfg = [key \in Settings |-> cfg[key]] /\ cfg.LogLevel \in DOMAIN ParseLevel
    BY Converted DEF Sound, Known
  <2> DEFINE other == [cfg EXCEPT !.Verbose = v, !.Quiet = q]
  <2>2. other.LogLevel = cfg.LogLevel
    BY <2>1 DEF Settings
  <2> HIDE DEF other
  <2>3. ResolveLevel(other) = ResolveLevel(cfg)
    BY <2>1, <2>2 DEF ResolveLevel
  <2> QED
    BY <2>3 DEF other
<1> QED
  BY <1>1, AlwaysSound, PTL

-----------------------------------------------------------------------------
(* A command asks for a sandbox as LeaseTimes says, or not at all.         *)
LEMMA AsksProperly == Sound /\ [Next]_vars => [LeaseNext]_leaseVars
<1> SUFFICES ASSUME Sound, [Next]_vars PROVE [LeaseNext]_leaseVars
  OBVIOUS
<1>1. CASE RequestSandbox
  <2>1. inv.arg \in Providers /\ inv.duration \in Durations
    BY <1>1, Fields DEF RequestSandbox, Sound, Known, ArgAllowed
  <2>2. Slug[inv.arg] \in Slugs
    BY <2>1 DEF Slug, Slugs, Providers
  <2> QED
    BY <1>1, <2>1, <2>2 DEF RequestSandbox, LeaseNext
<1>2. CASE ~RequestSandbox
  BY <1>2
  DEF Next, Own, SetUp, Local, Remote, Others, vars, Interrupt, Tick, Parse, LoadConfig,
      ResolveStateDir, MakeDir, ChmodDir, PrintMetadata, UseStore, ConfirmDestroy, StartCommand,
      Authorize, Render, StartLocal, LoadFails, List, MarkRow, FormatRow, Exec, Login, Provision,
      Verify, TearDown, GenerateMFA, PromptFails, AnswerFromCache, FormEnds, PromptAnswered,
      ChildExits, ChildDies, KillChild
<1> QED
  BY <1>1, <1>2

(***************************************************************************)
(* An invocation implements LeaseTimes, so what is proved of that module   *)
(* holds of every create that reaches Whizlabs.                            *)
(***************************************************************************)
THEOREM ImplementsLeases == Spec => LeaseSpec
<1>1. Init => LeaseInit
  BY DEF Init
<1> QED
  BY <1>1, AlwaysSound, AsksProperly, PTL DEF Spec, LeaseSpec
=============================================================================
