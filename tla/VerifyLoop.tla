----------------------------- MODULE VerifyLoop -----------------------------
(***************************************************************************)
(* internal/adapters/awsverify: one call of STSVerifier.VerifyCredentials. *)
(* A new key is unknown to some of AWS's servers for a while, so the error *)
(* that says so is retried after a pause; any other ends the call.  The    *)
(* caller may cancel at any time, and AWS need not answer.                 *)
(*                                                                         *)
(* SandboxService has all of this as one step, Verify or Reverify.         *)
(***************************************************************************)
EXTENDS Naturals

CONSTANTS
  MaxAttempts,    \* STSVerifier.maxAttempts
  RetryBackoff,   \* STSVerifier.retryBackoff
  MaxTime         \* bound on the clock

ASSUME VerifierAssumption ==
  /\ MaxAttempts \in Nat \ {0}
  /\ RetryBackoff \in Nat
  /\ MaxTime \in Nat

VARIABLES
  now,         \* the time since VerifyCredentials was called
  pc,          \* the step it takes next; "sent" while a request is in flight
  attempt,     \* which attempt it is at
  wake,        \* when the pause after the last attempt is over
  cancelled,   \* whether the caller's context is cancelled
  verdict,     \* what it returned
  spreadBy     \* when every server of AWS knows the key

vars == <<now, pc, attempt, wake, cancelled, verdict, spreadBy>>

Verdicts == {"none", "verified", "unknownKey", "error", "cancelled"}

Return(v) == pc' = "done" /\ verdict' = v /\ UNCHANGED <<now, attempt, wake, cancelled, spreadBy>>

Init ==
  /\ now = 0 /\ pc = "client" /\ attempt = 1 /\ wake = 0
  /\ cancelled \in BOOLEAN
  /\ verdict = "none"
  /\ spreadBy \in 0..(MaxTime + 1)

(* clientFactory: the SDK's configuration loads, or not.                   *)
NewClient ==
  /\ pc = "client"
  /\ \/ pc' = "call" /\ UNCHANGED <<now, attempt, wake, cancelled, verdict, spreadBy>>
     \/ Return("error")

(* A request under a cancelled context fails without being sent.           *)
Call ==
  /\ pc = "call"
  /\ IF cancelled
     THEN Return("error")
     ELSE pc' = "sent" /\ UNCHANGED <<now, attempt, wake, cancelled, verdict, spreadBy>>

(* A server that knows the key says whose it is.                           *)
Accepted == pc = "sent" /\ Return("verified")

(* Mutant of KeyUnknown: the last attempt is not made.                     *)
KeyUnknownOnceTooOften ==
  /\ pc = "sent" /\ now < spreadBy
  /\ IF attempt + 1 >= MaxAttempts
     THEN Return("unknownKey")
     ELSE /\ pc' = "pause" /\ wake' = now + RetryBackoff
          /\ UNCHANGED <<now, attempt, cancelled, verdict, spreadBy>>

(* InvalidClientTokenId, which only a server that does not know the key    *)
(* answers.                                                                *)
KeyUnknown ==
  /\ pc = "sent" /\ now < spreadBy
  /\ IF attempt = MaxAttempts
     THEN Return("unknownKey")
     ELSE /\ pc' = "pause" /\ wake' = now + RetryBackoff
          /\ UNCHANGED <<now, attempt, cancelled, verdict, spreadBy>>

(* Mutant of Refused: every error is taken for propagation.                *)
RefusedAndRetried ==
  /\ pc = "sent"
  /\ pc' = "pause" /\ wake' = now + RetryBackoff
  /\ UNCHANGED <<now, attempt, cancelled, verdict, spreadBy>>

(* Any other error: access denied, no connection.                          *)
Refused == pc = "sent" /\ Return("error")

(* Mutant of AbandonRequest: the request has a context of its own.         *)
AwaitAnswer == pc = "sent" /\ cancelled /\ UNCHANGED vars

(* The SDK gives a request up when its context is cancelled.               *)
AbandonRequest == pc = "sent" /\ cancelled /\ Return("error")

(* The select: when both are ready, either may be taken.                   *)
PauseOver ==
  /\ pc = "pause" /\ now >= wake
  /\ pc' = "call" /\ attempt' = attempt + 1
  /\ UNCHANGED <<now, wake, cancelled, verdict, spreadBy>>

PauseCancelled == pc = "pause" /\ cancelled /\ Return("cancelled")

Cancel ==
  /\ pc # "done" /\ ~cancelled /\ cancelled' = TRUE
  /\ UNCHANGED <<now, pc, attempt, wake, verdict, spreadBy>>

Tick ==
  /\ pc # "done" /\ now < MaxTime
  /\ now' = now + 1
  /\ UNCHANGED <<pc, attempt, wake, cancelled, verdict, spreadBy>>

Next ==
  \/ NewClient \/ Call
  \/ Accepted \/ KeyUnknown \/ Refused \/ AbandonRequest
  \/ PauseOver \/ PauseCancelled
  \/ Cancel \/ Tick

Spec == Init /\ [][Next]_vars

(* What waits for nobody is done; nothing is assumed of AWS.               *)
FairSpec == Spec /\ WF_vars(NewClient \/ Call \/ AbandonRequest \/ PauseCancelled)

-----------------------------------------------------------------------------
(***************************************************************************)
(* Every variable has its type, attempts are at most MaxAttempts, and      *)
(* there is a verdict exactly at the end.                                  *)
(***************************************************************************)
TypeOK ==
  /\ now \in 0..MaxTime
  /\ pc \in {"client", "call", "sent", "pause", "done"}
  /\ attempt \in 1..MaxAttempts
  /\ wake \in 0..(MaxTime + RetryBackoff)
  /\ cancelled \in BOOLEAN
  /\ verdict \in Verdicts
  /\ spreadBy \in 0..(MaxTime + 1)
  /\ pc = "pause" => attempt < MaxAttempts
  /\ verdict = "none" <=> pc # "done"

(***************************************************************************)
(* A key that AWS has made known everywhere within the pauses of all the   *)
(* attempts is never reported as unknown, however slowly or quickly AWS    *)
(* answers meanwhile.                                                      *)
(***************************************************************************)
PatienceCovers ==
  spreadBy <= (MaxAttempts - 1) * RetryBackoff => verdict # "unknownKey"

(***************************************************************************)
(* A verification that is cancelled ends, even if AWS never answers: "so a *)
(* canceled command does not hang for the full retry budget".              *)
(***************************************************************************)
CancelEnds == cancelled ~> pc = "done"
=============================================================================
