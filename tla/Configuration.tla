--------------------------- MODULE Configuration ---------------------------
(***************************************************************************)
(* internal/config and the part of internal/logging that interprets it:    *)
(* from what is set by flags and in the environment to the Config, and     *)
(* from that to the log level.                                             *)
(*                                                                         *)
(* A source gives each setting a value or leaves it Unset.  The            *)
(* environment may hold what does not convert to the setting's type        *)
(* (Malformed); a malformed flag never gets past the command line.         *)
(***************************************************************************)
EXTENDS Integers

CONSTANTS
  LogLevels,   \* what users write for a log level
  Unset,       \* the source says nothing, or is an empty variable
  Malformed    \* a value that is no number or no boolean

(* What one source may say.                                                *)
Source ==
  LET Flag == BOOLEAN \cup {Unset, Malformed} IN
  [LogLevel : LogLevels \cup {Unset}, Verbose : Nat \cup {Unset, Malformed},
   Quiet : Flag, AssumeYes : Flag, JSON : Flag, NoColor : Flag]

Settings == {"LogLevel", "Verbose", "Quiet", "AssumeYes", "JSON", "NoColor"}
Default  == [LogLevel |-> "", Verbose |-> 0, Quiet |-> FALSE, AssumeYes |-> FALSE,
             JSON |-> FALSE, NoColor |-> FALSE]

(* Mutant of Resolve: the environment has the last word.                   *)
ResolveEnvFirst(flags, environ, key) ==
  IF environ[key] # Unset THEN environ[key]
  ELSE IF flags[key] # Unset THEN flags[key]
  ELSE Default[key]

(* Flags over environment over built-in default, setting by setting.       *)
Resolve(flags, environ, key) ==
  IF flags[key] # Unset THEN flags[key]
  ELSE IF environ[key] # Unset THEN environ[key]
  ELSE Default[key]

Loaded(flags, environ) == [key \in Settings |-> Resolve(flags, environ, key)]

(* Config.Validate                                                         *)
ValidLogLevels == {"", "debug", "info", "warn", "warning", "error"}

(* Load succeeds: everything converts, and the log level is known.         *)
Acceptable(config) ==
  /\ \A key \in Settings : config[key] # Malformed
  /\ config.LogLevel \in ValidLogLevels

-----------------------------------------------------------------------------
(* slog's levels: the higher, the quieter.                                 *)
LevelDebug == -4
LevelInfo  == 0
LevelWarn  == 4
LevelError == 8

(* Mutant of ParseLevel: one of the two spellings is missing.              *)
ParseOneSpelling ==
  [debug |-> LevelDebug, info |-> LevelInfo, warn |-> LevelWarn, error |-> LevelError]

ParseLevel ==
  [debug |-> LevelDebug, info |-> LevelInfo, warn |-> LevelWarn, warning |-> LevelWarn,
   error |-> LevelError]

(* Mutant of ResolveLevel: a third -v is not counted.                      *)
ResolveExactlyTwo(config) ==
  IF config.LogLevel \in DOMAIN ParseLevel THEN ParseLevel[config.LogLevel]
  ELSE IF config.Verbose = 2 THEN LevelDebug
  ELSE IF config.Verbose >= 1 THEN LevelInfo
  ELSE IF config.Quiet THEN LevelError
  ELSE LevelInfo

(* --log-level, then -v, then -q, then info.                               *)
ResolveLevel(config) ==
  IF config.LogLevel \in DOMAIN ParseLevel THEN ParseLevel[config.LogLevel]
  ELSE IF config.Verbose >= 2 THEN LevelDebug
  ELSE IF config.Verbose >= 1 THEN LevelInfo
  ELSE IF config.Quiet THEN LevelError
  ELSE LevelInfo
=============================================================================
