--------------------------- MODULE SessionService ---------------------------
(***************************************************************************)
(* internal/core/session: one invocation after another, each of which      *)
(* obtains a session (EnsureValid), or starts a new one (login), or ends   *)
(* it (logout), and then spends the session on calls to the broker.        *)
(*                                                                         *)
(* Time passes only where an invocation waits: at the prompt, without      *)
(* limit; on a request to Whizlabs, for no longer than the client's        *)
(* timeout; and, once create has committed, on AWS, which is asked whether *)
(* the credentials work, again and again, by requests without a timeout of *)
(* the program's (VerifyLoop has that loop; here it takes any time, or     *)
(* does not end).  Nothing that reaches EnsureValid has asked AWS before.  *)
(*                                                                         *)
(* Each broker call is two requests, the exchange of the access token for  *)
(* a play token and the call proper; only the exchange needs the access    *)
(* token.  create makes up to three broker calls on one EnsureValid        *)
(* (create, commit, and destroy to roll back), the others one.             *)
(***************************************************************************)
EXTENDS Naturals, ExitCodes

CONSTANTS
  Window,        \* AccessTokenRefreshWindow
  Timeout,       \* the HTTP client's defaultTimeout
  AccessLife,    \* how long the identity provider makes access tokens live
  RefreshLife,   \* the same of refresh tokens
  Faults,        \* "load", "save", "clear": store calls that may fail;
                 \* "others": other invocations log in and out meanwhile
  MaxTime,       \* bound on the clock
  NoTokens       \* nothing stored

ASSUME SessionAssumption ==
  /\ Window \in Nat /\ Timeout \in Nat \ {0}
  /\ AccessLife \in Nat /\ RefreshLife \in Nat
  /\ MaxTime \in Nat
  /\ NoTokens \notin [access : Nat, refresh : Nat]

VARIABLES
  now,      \* the time
  stored,   \* the stored session
  pc,       \* what the invocation is doing
  cmd,      \* the command it executes
  tty,      \* whether its stdin and stderr are terminals
  held,     \* the session it has obtained
  started,  \* when the command was
  began,    \* when the request in flight was sent
  calls,    \* how many broker calls it has begun: 2 is the commit, 3 the rollback
  errs,     \* the sentinel errors of the command that ended last
  expired   \* whether the identity provider said ErrSessionExpired to it

vars == <<now, stored, pc, cmd, tty, held, started, began, calls, errs, expired>>

Token == [access : Nat, refresh : Nat]    \* the two expiry times
Issued == [access |-> now + AccessLife, refresh |-> now + RefreshLife]

Steps    == {"idle", "refresh", "prompt", "login", "save", "ready", "exchange", "call", "verify"}
Requests == {"refresh", "login", "exchange", "call"}

(* Tokens.AccessValid and AccessNearExpiry, Refreshable                    *)
AccessValid(t) == now < t.access
Refreshable(t) == now < t.refresh

(* Mutant of AccessNearExpiry: a token counts until it has expired.        *)
AccessExpired(t) == now >= t.access

AccessNearExpiry(t) == now + Window >= t.access

Faulty(f) == f \in Faults

Goto(step) == pc' = step /\ UNCHANGED <<cmd, tty, started, began, calls, errs, expired>>
Send(step) == pc' = step /\ began' = now /\ UNCHANGED <<cmd, tty, started, errs, expired>>

End(errors) ==
  /\ pc' = "idle" /\ errs' = errors
  /\ cmd' = "none" /\ tty' = FALSE
  /\ held' = NoTokens /\ started' = now /\ began' = now /\ calls' = 0
  /\ UNCHANGED expired

Start(c) ==
  /\ pc = "idle"
  /\ cmd' = c /\ tty' \in BOOLEAN
  /\ errs' = {} /\ expired' = FALSE /\ started' = now /\ calls' = 0

-----------------------------------------------------------------------------
(* EnsureValid, up to its first wait.                                      *)
EnsureValid ==
  /\ Start("broker")
  /\ LET valid == stored # NoTokens /\ AccessValid(stored) /\ ~AccessNearExpiry(stored)
         refreshable == stored # NoTokens /\ Refreshable(stored)
     IN  \/ valid /\ pc' = "ready" /\ held' = stored
         \/ ~valid /\ refreshable /\ pc' = "refresh" /\ held' = stored
         \/ ~valid /\ ~refreshable /\ pc' = "prompt" /\ held' = NoTokens
  /\ began' = now
  /\ UNCHANGED <<now, stored>>

(* store.Load fails: the command does.                                     *)
EnsureValidFails ==
  /\ pc = "idle" /\ Faulty("load")
  /\ errs' = {"Other"} /\ expired' = FALSE
  /\ UNCHANGED <<now, stored, pc, cmd, tty, held, started, began, calls>>

(* Login: the stored session is but a hint, and goes straight to the       *)
(* prompt.                                                                 *)
Login ==
  /\ Start("login")
  /\ pc' = "prompt" /\ held' = NoTokens /\ began' = now
  /\ UNCHANGED <<now, stored>>

Logout ==
  /\ pc = "idle"
  /\ \/ stored' = NoTokens /\ errs' = {}
     \/ Faulty("clear") /\ UNCHANGED stored /\ errs' = {"Other"}
  /\ expired' = FALSE
  /\ UNCHANGED <<now, pc, cmd, tty, held, started, began, calls>>

-----------------------------------------------------------------------------
(* Mutant of Refreshed: the new pair is used and not stored.               *)
RefreshedUnsaved ==
  /\ pc = "refresh"
  /\ held' = Issued
  /\ Goto("ready")
  /\ UNCHANGED <<now, stored>>

(* provider.Refresh answers with a new pair, ErrSessionExpired, or fails.  *)
Refreshed ==
  /\ pc = "refresh"
  /\ held' = Issued
  /\ Goto("save")
  /\ UNCHANGED <<now, stored>>

(* Mutants of RefreshFails: the command goes on without a session, the     *)
(* stored session is discarded, or the refresh is tried once more.         *)
RefreshFailureIgnored ==
  /\ pc = "refresh"
  /\ pc' = "ready" /\ held' = NoTokens
  /\ UNCHANGED <<now, stored, cmd, tty, started, began, calls, errs, expired>>

RefreshFailureLogsOut ==
  /\ pc = "refresh"
  /\ pc' = "prompt" /\ held' = NoTokens /\ stored' = NoTokens
  /\ UNCHANGED <<now, cmd, tty, started, began, calls, errs, expired>>

RefreshAgain ==
  /\ pc = "refresh"
  /\ Send("refresh")
  /\ UNCHANGED <<now, stored, held, calls>>

(* Whatever the error, it is logged, and the user is asked to log in.      *)
RefreshFails ==
  /\ pc = "refresh"
  /\ pc' = "prompt" /\ held' = NoTokens
  /\ expired' \in BOOLEAN
  /\ UNCHANGED <<now, stored, cmd, tty, started, began, calls, errs>>

PromptFails ==
  /\ pc = "prompt"
  /\ \E e \in IF tty THEN {"UserAborted", "Other"} ELSE {"PromptUnavailable"} : End({e})
  /\ UNCHANGED <<now, stored>>

Prompted ==
  /\ pc = "prompt" /\ tty
  /\ Send("login")
  /\ UNCHANGED <<now, stored, held, calls>>

LoggedIn ==
  /\ pc = "login"
  /\ held' = Issued
  /\ Goto("save")
  /\ UNCHANGED <<now, stored>>

LoginFails ==
  /\ pc = "login"
  /\ \E e \in {"InvalidCredentials", "Other"} : End({e})
  /\ UNCHANGED <<now, stored>>

(* The new session is stored before it is used, or not used.               *)
Save ==
  /\ pc = "save"
  /\ stored' = held
  /\ IF cmd = "login" THEN End({}) ELSE Goto("ready") /\ UNCHANGED held
  /\ UNCHANGED now

SaveFails ==
  /\ pc = "save" /\ Faulty("save")
  /\ End({"Other"})
  /\ UNCHANGED <<now, stored>>

-----------------------------------------------------------------------------
(* exchangeForPlayToken, then the request it was for.  The second call of  *)
(* a command is create's commit; only if it fails is there a third.        *)
Exchange ==
  /\ pc = "ready" /\ calls < 2
  /\ Send("exchange")
  /\ calls' = calls + 1
  /\ UNCHANGED <<now, stored, held>>

Call ==
  /\ pc = "exchange"
  /\ Send("call")
  /\ UNCHANGED <<now, stored, held, calls>>

(* The commit's answer sends create on to AWS; the rollback's ends it with *)
(* the commit's error.                                                     *)
Answered ==
  /\ pc = "call"
  /\ \/ calls = 1 /\ Goto("ready") /\ UNCHANGED held
     \/ calls = 2 /\ Goto("verify") /\ UNCHANGED held
     \/ calls = 3 /\ End({"Provider"})
  /\ UNCHANGED <<now, stored>>

BrokerFails ==
  /\ pc \in {"exchange", "call"} /\ calls # 2
  /\ End({"Provider"})
  /\ UNCHANGED <<now, stored>>

CommitFails ==
  /\ pc \in {"exchange", "call"} /\ calls = 2
  /\ Send("exchange")
  /\ calls' = 3
  /\ UNCHANGED <<now, stored, held>>

(* destroy and mfa end with the answer to their one call.                  *)
Finish ==
  /\ pc = "ready" /\ calls = 1
  /\ End({})
  /\ UNCHANGED <<now, stored>>

(* create ends with what AWS says of the credentials, whenever it does.    *)
Verified ==
  /\ pc = "verify"
  /\ End({}) \/ End({"VerificationFailed"})
  /\ UNCHANGED <<now, stored>>

(* Another invocation saves a session it was issued, or logs out.          *)
Others ==
  /\ Faulty("others")
  /\ stored' \in {Issued, NoTokens}
  /\ UNCHANGED <<now, pc, cmd, tty, held, started, began, calls, errs, expired>>

(* Mutant of Tick: an http.Client without a timeout.                       *)
TickWithoutTimeout ==
  /\ now < MaxTime
  /\ pc \in {"idle", "verify"} \cup Requests \/ (pc = "prompt" /\ tty)
  /\ now' = now + 1
  /\ UNCHANGED <<stored, pc, cmd, tty, held, started, began, calls, errs, expired>>

(* http.Client.Timeout bounds every request to Whizlabs, nothing those to  *)
(* AWS and the pauses between them, and no form waits without a terminal.  *)
Tick ==
  /\ now < MaxTime
  /\ \/ pc \in {"idle", "verify"} \/ (pc = "prompt" /\ tty)
     \/ pc \in Requests /\ now < began + Timeout
  /\ now' = now + 1
  /\ UNCHANGED <<stored, pc, cmd, tty, held, started, began, calls, errs, expired>>

Init ==
  /\ now = 0
  /\ stored \in {NoTokens} \cup [access : 0..AccessLife, refresh : 0..RefreshLife]
  /\ pc = "idle" /\ cmd = "none" /\ tty = FALSE
  /\ held = NoTokens /\ started = 0 /\ began = 0 /\ calls = 0
  /\ errs = {} /\ expired = FALSE

Next ==
  \/ EnsureValid \/ EnsureValidFails \/ Login \/ Logout
  \/ Refreshed \/ RefreshFails
  \/ PromptFails \/ Prompted \/ LoggedIn \/ LoginFails
  \/ Save \/ SaveFails
  \/ Exchange \/ Call \/ Answered \/ BrokerFails \/ CommitFails \/ Finish \/ Verified
  \/ Others
  \/ Tick

Spec == Init /\ [][Next]_vars

(***************************************************************************)
(* The runtime keeps running what needs nobody (Local), the clock goes on, *)
(* and the HTTP client gives up at its timeout.  Nothing is assumed of the *)
(* user, of Whizlabs or of AWS (Verified has no fairness).  (The last instant of the bounded clock stands for *)
(* the later ones a request would time out at.)                            *)
(***************************************************************************)
Local   == Save \/ Exchange \/ Finish \/ (~tty /\ PromptFails)
TimeOut ==
  /\ pc \in Requests /\ (now >= began + Timeout \/ now = MaxTime)
  /\ RefreshFails \/ LoginFails \/ BrokerFails \/ CommitFails

FairSpec == Spec /\ WF_vars(Local) /\ WF_vars(Tick) /\ WF_vars(TimeOut)

-----------------------------------------------------------------------------
(***************************************************************************)
(* Every variable has its type, and whoever waits for the broker holds a   *)
(* session (EnsureValid returns tokens or an error, never neither).        *)
(***************************************************************************)
TypeOK ==
  /\ now \in 0..MaxTime /\ started \in 0..now /\ began \in 0..now
  /\ stored \in Token \cup {NoTokens}
  /\ held \in Token \cup {NoTokens}
  /\ pc \in Steps
  /\ cmd \in {"none", "broker", "login"}
  /\ tty \in BOOLEAN
  /\ calls \in 0..3
  /\ errs \in SUBSET Sentinels
  /\ expired \in BOOLEAN
  /\ pc \in {"refresh", "save", "ready", "exchange", "call", "verify"} => held # NoTokens

(***************************************************************************)
(* The access token outlives the first exchange of a command, answer       *)
(* included, and has not expired when the second, create's commit, is      *)
(* sent: what the ten minutes of AccessTokenRefreshWindow buy with four    *)
(* minutes per request, whatever the session came from and whatever other  *)
(* invocations do to the stored one.                                       *)
(***************************************************************************)
WindowCoversTwoCalls ==
  pc = "exchange" => /\ calls = 1 => now < held.access
                     /\ calls = 2 => began < held.access

(***************************************************************************)
(* A session is spent on the broker only once the store holds it: a        *)
(* refreshed or new session is never used without the next invocation      *)
(* finding it.                                                             *)
(***************************************************************************)
SpentIsStored ==
  [][pc # "ready" /\ pc' = "ready" /\ calls = 0 => stored' = held']_vars

(***************************************************************************)
(* A command replaces the stored session only by one it was just issued,   *)
(* and only logout removes it: a refresh or a login that fails, is refused *)
(* or is given up leaves it for the next attempt.                          *)
(***************************************************************************)
FailureKeepsSession ==
  [][stored' # stored /\ pc' # pc => pc = "save" /\ stored' = held]_vars

(***************************************************************************)
(* A command without a terminal is done with Whizlabs in bounded time: as  *)
(* long as it is busy with its session and the broker, it is no more than  *)
(* two timeouts for every broker call it has begun, and one for the        *)
(* refresh, past EnsureValid, whatever Whizlabs answers and when, and      *)
(* whatever fails.  Its requests are that many and each ends at the        *)
(* client's timeout.  create's verification after the commit is not part   *)
(* of this: AWS has no timeout here.                                       *)
(***************************************************************************)
HeadlessInTime ==
  pc \notin {"idle", "verify"} /\ ~tty => now <= started + (2 * calls + 1) * Timeout

(***************************************************************************)
(* A command without a terminal gets through, whether or not Whizlabs ever *)
(* answers: it ends, or, being a create whose sandbox is committed, comes  *)
(* to ask AWS.  It is not left at a prompt nobody can answer, nor at a     *)
(* request.  Whether AWS then lets it end is VerifyLoop's matter, and only *)
(* a cancellation makes sure of it.                                        *)
(***************************************************************************)
HeadlessGetsThrough == pc # "idle" /\ ~tty ~> pc \in {"idle", "verify"}

(***************************************************************************)
(* A command that failed after the identity provider had declared the      *)
(* session expired exits with the code for authentication errors:          *)
(* docs/docs/reference/exit-codes.md, "session expired and not             *)
(* recoverable".                                                           *)
(***************************************************************************)
ExpiredExitsAsAuth == pc = "idle" /\ errs # {} /\ expired => ExitCode(errs) = ExitAuth
=============================================================================
