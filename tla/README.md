# A verification of whzbox

`whzbox` is a command line program that rents cloud sandboxes from Whizlabs. Every invocation
is a short-lived process. What lasts between invocations is one file, `state.json`, with the
session tokens and the cached sandboxes, and the account at Whizlabs. This directory models the
program from its command line to its exit status, and the parts where invocations meet; it checks
the models with TLC and proves their safety properties with TLAPS.

## Inventory

| Part (source) | State | Operations | What is hard | What makes it correct |
| --- | --- | --- | --- | --- |
| State file (`internal/adapters/xdgstore`) | `state.json`, `state.json.tmp` | `Load` `Save` `Clear`; `LoadSandbox` `LoadAllSandboxes` `SaveSandbox` `ClearSandboxes`; `New` `ResolveStateDir` | several processes, no lock; death between two system calls; every call may fail | each method acts on its own section, at one instant, entirely or not at all; nothing torn or readable by others is ever published |
| Session (`internal/core/session`) | none of its own: tokens pass through it | `EnsureValid` `Login` `Logout` `Current` | tokens lapse while requests run; refresh races other invocations; prompts | tokens outlive what they are used for; a session is stored before it is spent; failure keeps the old one |
| Sandbox (`internal/core/sandbox`) | none: cache and account | `Create` `Destroy` `List` `Load` `EnvFor` `GenerateMFA` `Status` | a two-phase create with a roll-back; lost answers; interrupts between and during requests; cache against account | what the cache hands out is real; credentials that cannot be fetched again are kept; destroy finds what there is |
| Whizlabs client (`internal/adapters/whizlabs`) | none | `Login` `Refresh` `Create` `Commit` `Destroy` `GenerateMFA` `Active` | time-outs; durations and timestamps at their bounds | hours sent cover what was asked; every lifetime on offer is served |
| Verifiers (`awsverify`, `gcpconsole`, `azureconsole`) | none | `VerifyCredentials` `Env` | retries while IAM propagates; cancellation | ends within its attempts; a verdict is never wrong |
| Prompt (`huhprompt`) | terminal | `Credentials` | a prompt nobody can answer | never waits without a terminal |
| CLI (`internal/cli`, `cmd/whzbox`) | the `App` of one invocation | one command per invocation; confirmation; `exec`'s child; exit codes | signals at any moment; which error decides the exit status; which failures are swallowed | what an exit status says is true; nothing is torn down unasked; credentials reach the user or the cache; a signal ends everything |
| Configuration (`internal/config`), log level (`internal/logging`) | `Config` | `Load` `Validate`; `ResolveLevel` | precedence of three sources; two lists of levels | an explicit flag has the last word; no accepted setting is ignored |
| Rendering (`internal/ui`), redaction | none | | two readings of the clock in one row | a row does not contradict itself |
| Clock (`internal/core/clock`) | the time | `Now` | | |
| `.github/scripts/configure_github_repo.py` | GitHub's settings | plan, apply | partial application | applying twice changes nothing |

The services call the adapters through ports (Go interfaces). The session service calls the
identity provider (the Whizlabs client), the token store (the state file) and the prompt. The
sandbox service calls the session service, the manager (the Whizlabs client), the providers and
the sandbox store (the same state file). The CLI builds an `App` of these and calls one service per
command. Nothing runs in the background; concurrency is between invocations, which share the file
and the account and no lock, and between an invocation, its signals and the child of `exec`. A
signal cancels the context, which cuts off the request in flight, whether it had its effect or not,
and makes later network calls fail, but not later file operations.

## Modules

| Module | Models | How |
| --- | --- | --- |
| `StoreTypes` | values that cross the store's ports | token sets and sandboxes are opaque; what matters is whether they read back |
| `StoreContract` | the promise of `session.TokenStore` and `sandbox.Store` | two registers; a call takes effect at one step; a write that cannot read what it replaces may go by the empty store (`blind`) |
| `SandboxContract` | the promise of `sandbox.Service` to the CLI | the account has one sandbox at most; a command takes effect, entirely or not at all, in the step in which it answers |
| `StateFile` | `xdgstore.Store` | one action per system call: `Begin`, `StatForRead`/`StatForClear`, the reads, the merges, `OpenTmp` `WriteTmp` `ChmodTmp` `RenameTmp`, their failures and `CleanupTmp`, `Heal` (Load's removal), `RemoveState`, `Crash` |
| `Broker` | the account at Whizlabs (external) | a sandbox is provisioned, registered by a second call, ended |
| `SandboxService` | `Create`, `Destroy`, `GenerateMFA` | one action per port call and outcome, effect without answer included (`Unanswered`, `HaltedTo`); `Interrupt` cancels the context, `Crash` kills; `Resolved` is what the client makes of the broker's times |
| `SessionService` | `EnsureValid`, `Login`, `Logout`, the requests the tokens are spent on, and `create`'s wait for AWS | time passes at the prompt, while a request is in flight, and in the verification (`verify`), there without bound |
| `VerifyLoop` | `STSVerifier.VerifyCredentials` (awsverify) | one action per outcome of a request and of the pause after it |
| `LeaseTimes` | durations to hours | functions; `Ask` is one request |
| `Configuration` | `internal/config`, `ResolveLevel` | functions on what each source sets |
| `ExitCodes` | `internal/cli/exit.go` | functions on sets of wrapped sentinels and on a child's status |
| `CommandLine` | `internal/cli`, `cmd/whzbox`, `New` and `ResolveStateDir` of the store | one invocation: one action per stage of the start-up, per form, per service call and outcome, per thing printed, and for the child; `Interrupt` at any moment |
| `StateFileProofs`, `ContractProofs`, `SandboxProofs`, `OneByOneProofs`, `SessionProofs`, `VerifyProofs`, `LeaseProofs`, `CommandLineProofs` | theorems | see Proofs |
| `MCStateFile`, `MCSandboxService`, `MCSessionService`, `MCCommandLine` | | environments, invocations, symmetry and bounds for TLC |

How they compose:

* `StateFile` instantiates `StoreContract` with the two sections of `state.json` (`Contract`);
  `ContractSpec` is the refinement, checked and proved. `SandboxService` and `SessionService` use
  the store through this contract: a call to `Save` is one step that happens or does not.
* `SandboxService` in its turn instantiates `SandboxContract` (`Contract`; `AllOrNothing` is the
  refinement, checked and proved). The contract's one sandbox is the account's (`OfAccount`), and
  while a command has changed the account and not yet the cache (`Owing`) it is still the cache's
  (`OfCache`): a command takes effect when it has paid both, however many calls that took.
* `SandboxService` EXTENDS `Broker`: a command's step and its effect on the account are one step,
  and losing the answer, to the network or to an interrupt, is a separate outcome of the same
  action. The verifier is one step there, with either verdict; `VerifyLoop` is what happens inside
  that step and inside `verify` of `SessionService`.
* `CommandLine` EXTENDS `Configuration`, `ExitCodes` and `LeaseTimes`. A call to a service is one
  step with the outcomes the CLI can tell apart and what each has brought about (`did`); the
  modules of the services say how the outcomes come about. Its requests for sandboxes are those of
  `LeaseTimes` (`ImplementsLeases`), whose properties are checked in the run of the command line.
* `SessionService` EXTENDS `ExitCodes`: what a headless command ends with is an exit status.

How the state corresponds to the code:

* `StateFile`: `disk` is the directory, `pc[p]` the system call that process `p` makes next,
  `call[p]` the method it is in, `buf[p]` the `fileFormat` it has built, `fd[p]` the file that
  `os.WriteFile` has open. A descriptor follows its file through renames, so that a writer can
  find itself writing to a published `state.json`; that is possible in Unix and in the model.
* `SandboxService`: `pc[p]` is the port that command `p` calls next, `sb[p]` its `*Sandbox`,
  `kind[p]` its kind or teardown route, `halted[p]` its cancelled context, `out[p]` how it ended.
* `VerifyLoop`: `pc` is where the `for` and its `select` are, `attempt` the loop variable, `wake`
  when `time.After` fires, `spreadBy` when the last of AWS's servers has learnt of the key.
* `SessionService`: `tty` is whether the invocation has a terminal, `held` is the `Tokens` value in
  hand, `started` when the command began, `began` when the request in flight was sent, `calls` how
  many broker calls the command has begun on one `EnsureValid`.
* `CommandLine`: `inv` is what the invocation is given (command, argument, flags, environment,
  terminals, directories, the cached AWS entry, what fails) and never changes; `cfg` is
  `App.Config`, `dirs` the candidate state directories, `halted` the cancelled context, `err` the
  error that `create` keeps while it prints the sandbox, `row` the two time-dependent columns of
  `list`, `child` the process of `exec`, `status` and `said` what the parent shell sees.

`StateFile` and `SandboxService` have a variable `env`, which a behaviour chooses at its start from
the constant `Environments` and never changes: which invocations there are and how many at a time,
and what may fail. One run can so ask one question of several circumstances, and a theorem can say
which of them it needs.

Definitions whose comment begins with "Mutant" are not part of a specification: each is a
plausible bug, put in the place of the definition it names to see that a property notices.

## Runs

Every run is `tlc -config <cfg> <module>`; the longest, `sandbox`, takes about three minutes on
two cores.

| Run | Properties | Shows |
| --- | --- | --- |
| `state` | `TypeOK` `NeverTorn` `PublishedWholeAndPrivate` `ResidueNeverBlocks` `SessionOutlivesReaders` `ContractSpec` | One invocation on a file that may be damaged from the start, where every system call may fail, the read of a merge included or not, under any umask, and the process may die anywhere; and a writer overlapped by readers, with deaths and failing merges, on a file only this program wrote. |
| `sandbox` | `TypeOK` `FreshIsRegistered` `CacheMirrorsAccount` `OneFreshKind` `NothingElseRuns` `HandedOutIsLive` `RunningIsKept` `CodeIsForCached` `AllOrNothing` | Commands one after another in six environments, and two at once in three. Each property says which of them it is about: `FreshIsRegistered` all, `CacheMirrorsAccount`, `HandedOutIsLive` and `AllOrNothing` those where calls fail only before they have an effect, the others commands one by one. |
| `session` | `TypeOK` `WindowCoversTwoCalls` `HeadlessInTime` `SpentIsStored` `FailureKeepsSession` `HeadlessGetsThrough` | Invocations with and without a terminal, other invocations that replace and remove the stored session, a failing store, servers that may never answer; how long a headless command can be busy with Whizlabs. |
| `verify_loop` | `TypeOK` `PatienceCovers` `CancelEnds` | One verification, any delays of AWS, a cancellation at any time. |
| `command_line` | `TypeOK` `NoTeardownWithoutConsent` `StatusTells` `CredentialsReachSomebody` `ChildsStatus` `ExpiredRowSaysSo` `VerboseNeverQuieter` `LogLevelIsFinal` `PrivateBeforeUse` `VersionNeedsNoState` `FewestHoursThatCover` `ServesWhatItOffers` `InterruptedEnds` | Every command under the settings, terminals, failures, directories and durations that concern it, interrupted anywhere. |

Runs that end in a counterexample, each against a sentence of the repository:

| Run | Property | What the code does |
| --- | --- | --- |
| `state_torn` | `NeverTorn` | Two writers share the name `state.json.tmp`; one renames what the other has just truncated. |
| `state_heal` | `SessionOutlivesReaders` | `Load` removes by name a file it judged by content; a session saved in between is lost. |
| `state_unreadable` | `SandboxesOutliveSessions` | `readCurrent` takes a file it could not read for an empty one, so that a login or logout drops the cached sandboxes. |
| `sandbox_phantom` | `NoPhantom` | The roll-back of a refused commit cannot find the sandbox. |
| `sandbox_expired_route` | `NoActiveMeansNone` | An expired entry decides the teardown route. (Without any entry it is always the AWS route, so a lab whose create died before it was cached is not found either.) |
| `session_expired` | `ExpiredExitsAsAuth` | `ErrSessionExpired` never leaves `EnsureValid`; the exit code is 5, not 2. |
| `completion_state` | `CompletionNeedsNoState` | `completion` creates the state directory and fails where it cannot. |

Things seen while modelling that are no run of their own:

* `durationToHours` rounds half an hour up to one hour and requests it, while its comment
  (`whizlabs/sandbox.go:379`) has durations below one hour rejected and the help of `create` offers
  "between 1h and 9h". For the other labs `validateLabDuration` does reject it.
  `ServesWhatItOffers` is about the lifetimes on offer and leaves those below an hour open.
* A process that dies between opening `state.json.tmp` and its chmod leaves a file with the mode
  the umask made of 0600. Where the umask takes the owner's write permission (0400, 0000), no later
  `os.WriteFile` can open that file, and every save and logout that has to write fails until
  somebody removes it. `ResidueNeverBlocks` is for umasks that leave it;
  the fault `umask` is the others.
* When the broker's times do not parse, or are no interval, the client makes up an end from its own
  clock (`resolveSandboxTimes`). The entry may then outlive the sandbox or lapse before it.
  `FreshIsRegistered` therefore says nothing of ends; what still holds of such entries is
  `NothingElseRuns` and `RunningIsKept`.
* A signal cuts off the request in flight. If Whizlabs has carried it out, a create or destroy
  leaves half of itself behind: a sandbox that runs without an entry, or an entry whose sandbox is
  gone. That is why interrupts are not among the failures of `OnlyRefusals`.
* The refresh window covers the first exchange of a command and the start of the second, not a
  third broker call made on the same `EnsureValid`; `WindowCoversTwoCalls` states what it covers.
* Of two commands at once, one can cost the other its cache entry: `ClearAll` removes what is in
  the cache when it runs, not what was destroyed, and a create that was slow to end saves its dead
  sandbox over a newer one's entry. `RunningIsKept` is therefore about commands one by one.
  Nothing in the repository promises more.
* Of two racing writers of the state file the last one wins, with both sections. A comment on
  `Store` says so, hence `StoreContract` is checked, and proved, for one writer at a time.

### Bounds

* `state`: two processes are enough for every race in the store, since a race here is one method's
  steps between two of another's. Two token sets tell "kept" from "replaced"; a third, `huge`, has
  an expiry that does not read back. Two kinds tell "this entry" from "the other entries". The
  environments (`WriterAndReaders`) are one invocation on any file with every fault, with and
  without failing merges (`OneFails`: what a session survives depends on it), and both invocations
  on a clean file with deaths, with and without failing merges (`ReadersDie`). The remaining ones,
  two writers and a reader beside a damaged file, are those of `state_torn` and `state_heal`.
* `sandbox`: two kinds, `aws`, verified and with the default teardown route, and `azure`, neither,
  but with MFA codes. GCP differs from Azure only in having none. One command at a time sees three
  sandboxes and five ticks, where a sandbox lives for two: a sandbox, its successor of another
  kind after destruction or expiry, and one more after that. Their environments are: no fault;
  refusals; refusals and an unreadable cache, from tick 1; an unreadable cache with labs that end
  by themselves, from tick 1; and every fault but an unreadable cache and bad times. With two
  sandboxes and three ticks: bad times (the sandbox ends at any tick, and the entry has that end
  or the client's own), with lost answers, interrupts, labs that end by themselves and a failing
  `ClearAll`. Two commands at once see as much, since the questions about them concern one sandbox
  and its successor: with unreadable caches and deaths; with lost answers and failing writes; and,
  a tick less, with bad times.
* `session`: times are in units of two minutes: window 5, time-out 2, access tokens 8, refresh
  tokens 10. `MaxTime` 14 lets a session be issued, lapse, be refreshed and be replaced at login,
  and is seven time-outs, the most a headless command with three broker calls can be busy with
  Whizlabs.
* `verify_loop`: four attempts and a pause of three ticks; 14 ticks are more than all pauses, so
  that a key may spread before, between and after all attempts.
* `command_line`: an invocation does not change, so its circumstances are slices of their product,
  each the part that a question can depend on (see `MCCommandLine`): all settings for a command
  that needs nothing else, every way to consent for `destroy`, every lab, terminal and rendering
  for `create`, every expiry around the clock for `list` and `exec`, every state of the
  directories for a command that needs them and one that does not. Every failure occurs by itself,
  and the two that lose credentials together. A second is four ticks, so that rounding to the
  second has cases on either side; the clock runs to six. A child exits with 0, 3 or 255, or by a
  signal. Durations are quarters of an hour from below zero to over ten hours, which has every
  boundary of `durationToHours` and its neighbours on either side.

### Fairness

`session` checks `HeadlessGetsThrough` under `WF(Local)`: a step that waits for nobody is taken,
since the program has a single goroutine that does not block there; `WF(Tick)`: time passes;
`WF(TimeOut)`: `http.Client.Timeout` ends a request after its time, whatever the server does.
Nothing is assumed of the user, of Whizlabs or of AWS, so the property covers servers that never
answer. It does not say that a headless `create` ends: once the sandbox is committed, it asks AWS
up to 15 times, by requests without a time-out of the program's own, and `verify` has no fairness.

`verify_loop` checks `CancelEnds` under weak fairness of the verifier's own steps and of the SDK
giving up a request whose context is cancelled. Nothing is assumed of AWS; requests to AWS have no
time-out of the program's own, so without a cancellation a verification need not end.

`command_line` checks `InterruptedEnds` under weak fairness of the program's own steps (`SetUp`,
`Local`), of the kill that `exec.CommandContext` sends (`KillChild`), and of the remote steps and
the login form once the context is cancelled, because both take the context and return with it.
Nothing is assumed of the user, of Whizlabs, of AWS or of the child. The confirmation form of
`destroy` is run without the context, so the property excepts it.

`verify_loop`, `command_line` and `completion_state` end, so these runs allow deadlock; the others
do not.

## Proofs

All theorems hold for every value of the constants that satisfies the modules' `ASSUME`s, which TLC
evaluates in every run, and under the condition the table gives.

| Module | Theorem | Property | Condition |
| --- | --- | --- | --- |
| `StateFileProofs` | `TypeCorrect` | `TypeOK` | |
| | `WholeWithOneWriter` | `NeverTorn` | `OneWriter`: no environment lets two writers race |
| | `PrivateWithOneWriter` | `PublishedWholeAndPrivate` | `OneWriter` |
| `ContractProofs` | `ImplementsContract` | `ContractSpec` | `Sheltered`: no two writers overlap, and a file that may not parse has one user |
| | `SessionsLast` | `SessionOutlivesReaders` | `Sheltered`; in the property: merges can read the file |
| | `ResidueIsHarmless` | `ResidueNeverBlocks` | `OneWriter`; in the property: nothing fails, and the umask leaves the owner his permissions |
| `SandboxProofs` | `TypeCorrect` | `TypeOK` | |
| | `CacheRegistered` | `FreshIsRegistered` | |
| `OneByOneProofs` | `OneKindAtATime` `NothingBesides` `CredentialsKept` `CodesMatch` | `OneFreshKind` `NothingElseRuns` `RunningIsKept` `CodeIsForCached` | in the property: one command at a time |
| | `CacheIsMirror` `LiveWhenHandedOut` | `CacheMirrorsAccount` `HandedOutIsLive` | in the property, `OnlyRefusals`: one at a time, calls fail only before they have an effect, the broker's times are usable and nobody interrupts (the cache may be unreadable) |
| | `CommandsAreAtomic` | `AllOrNothing` | `OnlyRefusals`, in the property |
| | `ServiceImplements` | from the first state on, `SandboxService` is `SandboxContract` | `OnlyRefusals` |
| `SessionProofs` | `TypeCorrect` | `TypeOK` | |
| | `WindowSuffices` | `WindowCoversTwoCalls` | `LongWindow`: the window is two time-outs or more, and a token lives longer than that |
| | `HeadlessIsPunctual` | `HeadlessInTime` | |
| | `StoredBeforeSpent` `NothingLostByFailure` | `SpentIsStored` `FailureKeepsSession` | |
| `VerifyProofs` | `AttemptsBounded` `PatienceSuffices` | `TypeOK` `PatienceCovers` | |
| `LeaseProofs` | `RoundsUpTightly` `ServesTheOffer` | `FewestHoursThatCover` `ServesWhatItOffers` | |
| `CommandLineProofs` | `TypeCorrect` | `TypeOK` | |
| | `ConsentFirst` `StatusIsTrue` `CredentialsArrive` `ChildIsHeard` `RowsAgree` `StateIsPrivate` `VersionWorks` | `NoTeardownWithoutConsent` `StatusTells` `CredentialsReachSomebody` `ChildsStatus` `ExpiredRowSaysSo` `PrivateBeforeUse` `VersionNeedsNoState` | |
| | `VerboseIsMonotonic` `LogLevelDecides` | `VerboseNeverQuieter` `LogLevelIsFinal` | |
| | `ImplementsLeases` | every step of an invocation is one of `LeaseSpec` or leaves its variables | |

The real constants satisfy the conditions on numbers: `AccessTokenRefreshWindow` is ten minutes and
`defaultTimeout` four. That an access token lives longer than eight minutes is Whizlabs's to keep.

**The state file is whole.** `NeverTorn` looks at `state.json` only, and what is renamed to it was
written steps before, so `Inv` adds `SoleWriter` and `Phase`: the process at a writing step is the
writer, its descriptor is on the temporary file, which is empty before the write, whole after it and
private after the chmod. `TmpUntouched` shows that nobody else touches it, `WriterStep` leads from
phase to phase, and the action property follows from what `InvStep` says of `state.json` beside
keeping `Inv`. The run `state_torn` shows that the condition is needed.

**The state file is two registers.** A write takes effect at its rename, by a body that was merged
steps before, so `FullInv` adds `Carried`: what a process is about to publish is still its call's
update of what is there now, a file is only removed when that update leaves nothing in it, and a
`Load` only removes what is of no use. Lemmas of the form `...Faithfully` show, action by action,
that a step is one of the contract's or none and re-establishes this for its own process;
`OthersCarry` shows that it keeps what the others carry, because beside a writer there are only
readers of a file that parses, and these leave the disk alone. Where a merge may fail to read the
file (`blind`), what a process carries is its call's update of what is there or of the empty store
(`Merges`), and the contract lets a write choose between the two; `state_unreadable` shows that the
code does take the second. The two conditions of `Sheltered` are those that `state_torn` and
`state_heal` end without. `SessionsLast` then needs no look at the file: it is read off the
contract. `ResidueIsHarmless` goes by `Phase` (when the temporary file is made private and renamed,
it is there) and by `Writable` (a temporary file that an earlier writer left can be opened), so that
only a failing call leads to the clean-up.

**The sandbox cache is true.** `FreshIsRegistered` speaks of the cache only and is not inductive:
what is saved comes from the hands of a command. `Inv` adds what a command knows of the sandbox it
holds: between the answer to create and that to commit it is `Genuine` (provisioned, of this kind,
and, where the broker's times are usable, with this end), and from then on `Vouched` (the account
has registered it, or it no longer runs). `Onward` states what no step of anybody undoes;
`OnwardKeeps` carries both facts over every step of the others, and `InvStep` has one case per
action. The one step that creates a fact is `Committed`, where `Genuine` and the effect of
`Register` give `Vouched`.

**Commands one by one.** `SerialInv` adds to `Inv` that the account runs at most one sandbox
(`AtMostOne`, however many commands there are), and for one command at a time `Alone`, `Orderly`
(a readable cache has one fresh entry at most, and nothing runs but what that entry names, `Sole`)
and `Seen`: what the command has seen of the account and of the cache stays true until it acts on
it. The four properties of every fault environment follow (`OneFreshKind`, `NothingElseRuns`,
`RunningIsKept`, `CodeIsForCached`), lost answers and interrupted requests included. Under
`OnlyRefusals`, `MirrorInv` adds `Mirror`: the fresh entries are exactly the registered sandboxes,
except between the two steps in which a create or a destroy has changed one side and not yet the
other, and for those steps it says what the difference is.

**A command is one step.** `Mirror` is also what makes commands atomic. While a command owes the
cache an entry or its removal, the contract's sandbox is read from the cache, otherwise from the
account, and `Mirrored` says that without a debt the two views are the same; so a step that runs
up a debt changes nothing of the contract, and the one that pays it is the contract's `Create` or
`Destroy`. `ContractInv` adds `Bounded` (where the broker's times are usable, no sandbox outlives
its time, which the contract's `Create` promises) and `Recalls`: what the command found in the
cache when it chose to reuse, to tear down or to give up, because `Seen` forgets this where the
cache cannot be read. Each action has a lemma that it is a step of the contract or none. Lost
answers, interrupts (which may cut off a request that has had its effect), failing writes and
deaths are not in `OnlyRefusals` because there the code does leave half a command behind;
`FreshIsRegistered`, `NothingElseRuns`, `RunningIsKept` and the other properties of every fault
environment say what is kept even then.

**The session.** `Covered` says at each stage of a command how much of the window is left: two
requests' time before the first exchange, one before the call proper, none before the second
exchange. `Counted` ties the stage to the number of calls. `HeadlessIsPunctual` is the safety half
of `HeadlessGetsThrough`: without a terminal a command that is still busy with Whizlabs, and not
yet with the verification at AWS, is within two time-outs for each of its broker calls and one for
the refresh before them. `Punctual` says by when the request in flight was sent, stage by stage,
and where the command waits for nobody it says what time it is. No fairness is needed, since
`http.Client.Timeout` does not let the clock pass a request in flight; the program's own steps
count as taking no time.

**The verifier.** `Paced`: at attempt n the clock has come to n - 1 pauses at least.

**Lease times.** `RoundedUp` says of `HoursUp` what rounding up means; the rest is arithmetic.

**The command line.** `Sound` adds to the properties which command comes to which stage (`Course`),
what can have been brought about there (`Progress`: before `verify` nothing was provisioned, before
`call` a destroy was agreed to, at `render` a create has been answered and is cached unless the save
failed), and how the first column of a row limits the second (`Columns`). Each stage has a lemma.

Only model-checked: the three liveness properties `HeadlessGetsThrough`, `CancelEnds` and
`InterruptedEnds`, since fairness is out of the prover's reach; of the first the time bound is
proved (`HeadlessInTime`), and what is left is that the clock and the program go on. All safety
properties of passing runs are proved.

## Not modelled

* The text of requests, answers, logs and screens; the parsing of JWTs and of JSON; redaction, which
  is string processing; styling and layout, with `NO_COLOR`.
* The choice of argv and environment for `exec`'s child. The environment is the caller's with the
  sandbox's keys appended; what the tools make of a mixture is outside the program.
* `List`, `Load`, `Status`, `EnvFor` and `Current`, which only read; their commands are in
  `CommandLine`.
* The base URLs of the configuration, which are passed through.
* A second account. The cache is not keyed by account, so that a login as another user leaves the
  sandboxes of the first one in it; what Whizlabs says of them then cannot be seen from the code.
* The GitHub configurator, a maintenance script that is not part of the program.

## Plan

1. Done: the store and its contract, the sandbox and session services, the AWS verifier, lease
   times, configuration, exit codes and the command line; theorems for every safety property of a
   passing run, the refinements of `StoreContract`, `SandboxContract` and `LeaseTimes` included.
2. A composition of `SandboxService` with the session on the one store of two registers, now that
   `ImplementsContract` justifies its steps: a logout beside a create, a refresh beside a save.
3. The GitHub configurator: plan and apply, partial application, idempotence.
4. What holds of two writers after all: the weaker contract in which the last of two racing writers
   wins and only whole files are seen needs a temporary name of each writer's own; a variant of
   `StateFile` with such names would show what a fix gains.
