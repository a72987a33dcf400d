----------------------------- MODULE ExitCodes -----------------------------
(***************************************************************************)
(* internal/cli/exit.go: the exit status of an invocation, as a function   *)
(* of the sentinel errors its error wraps (what errors.Is finds in it), or *)
(* of the status of the child that exec ran: an ExecChildError wraps       *)
(* nothing else and is looked for first.                                   *)
(***************************************************************************)
EXTENDS Integers

Sentinels == {"InvalidCredentials", "SessionExpired", "PromptUnavailable", "UserAborted",
              "Provider", "VerificationFailed", "NoActiveSandbox", "Other"}

AuthErrors     == {"InvalidCredentials", "SessionExpired"}
ProviderErrors == {"Provider", "VerificationFailed", "NoActiveSandbox"}

ExitOK == 0
ExitGeneric == 1
ExitAuth == 2
ExitProvider == 3
ExitUserAborted == 4
ExitNonInteractive == 5

(* Mutant of ExitCode: credentials that fail count as bad ones.            *)
VerificationIsAuth(errors) ==
  IF errors = {} THEN ExitOK
  ELSE IF "VerificationFailed" \in errors THEN ExitAuth
  ELSE IF errors \cap AuthErrors # {} THEN ExitAuth
  ELSE IF errors \cap ProviderErrors # {} THEN ExitProvider
  ELSE IF "UserAborted" \in errors THEN ExitUserAborted
  ELSE IF "PromptUnavailable" \in errors THEN ExitNonInteractive
  ELSE ExitGeneric

(* The first class one of whose sentinels is wrapped decides.              *)
ExitCode(errors) ==
  IF errors = {} THEN ExitOK
  ELSE IF errors \cap AuthErrors # {} THEN ExitAuth
  ELSE IF errors \cap ProviderErrors # {} THEN ExitProvider
  ELSE IF "UserAborted" \in errors THEN ExitUserAborted
  ELSE IF "PromptUnavailable" \in errors THEN ExitNonInteractive
  ELSE ExitGeneric

(* exec.ExitError's code, -1 for a child that a signal ended.  ExitCode    *)
(* returns it as it is; of what os.Exit is given the kernel keeps eight    *)
(* bits.                                                                   *)
Signaled == -1
ChildStatus(code) == code % 256
=============================================================================
