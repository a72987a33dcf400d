--------------------------- MODULE SessionProofs ---------------------------
(***************************************************************************)
(* For every window, timeout and lifetime of tokens, and however often     *)
(* other invocations replace the stored session: SessionService's types,   *)
(* what happens to the stored session, and what the refresh window buys.   *)
(***************************************************************************)
EXTENDS SessionService, TLAPS

(* The number of broker calls says how far a command is.                   *)
Counted ==
  /\ pc \in {"refresh", "prompt", "login", "save"} => calls = 0
  /\ pc \in {"exchange", "call"} => calls >= 1
  /\ pc = "ready" => calls <= 3
  /\ pc \in Requests => now <= began + Timeout

(* The window is long enough for two requests, as a token's life is.       *)
LongWindow == 2 * Timeout <= Window /\ 2 * Timeout < AccessLife

(* How much of it is left: two requests' time before the first exchange,   *)
(* one before the call proper, none before the second exchange.            *)
Covered ==
  /\ pc = "save" => now + 2 * Timeout < held.access
  /\ pc = "ready" /\ calls = 0 => now + 2 * Timeout < held.access
  /\ pc = "exchange" /\ calls = 1 => began + 2 * Timeout < held.access
  /\ pc = "call" /\ calls = 1 => began + Timeout < held.access
  /\ pc = "ready" /\ calls = 1 => now < held.access
  /\ pc = "exchange" /\ calls = 2 => began < held.access

Inv == TypeOK /\ Counted
FullInv == Inv /\ (LongWindow => Covered)

-----------------------------------------------------------------------------
LEMMA IssuedIsToken ==
  ASSUME now \in Nat
  PROVE  Issued \in Token /\ Issued # NoTokens /\ Issued.access = now + AccessLife
  BY SessionAssumption DEF Issued, Token

LEMMA InvInit == Init => FullInv
<1> SUFFICES ASSUME Init PROVE FullInv
  OBVIOUS
<1>1. stored \in Token \cup {NoTokens}
  BY SessionAssumption DEF Init, Token
<1>2. 0 \in 0..MaxTime /\ 0 \in 0..0 /\ 0 \in 0..3
  BY SessionAssumption
<1>3. TypeOK
  BY <1>1, <1>2 DEF Init, TypeOK, Steps
<1>4. Counted /\ Covered
  BY DEF Init, Counted, Covered, Requests
<1> QED
  BY <1>3, <1>4 DEF FullInv, Inv

(* The end of a command leaves nothing to be kept.                         *)
LEMMA Ended ==
  ASSUME TypeOK, NEW errors \in SUBSET Sentinels, End(errors), now' = now,
         stored' \in Token \cup {NoTokens}
  PROVE  FullInv'
<1>1. now \in 0..now /\ 0 \in 0..3 /\ now \in 0..MaxTime
  BY SessionAssumption DEF TypeOK
<1>2. TypeOK'
  BY <1>1 DEF End, TypeOK, Steps
<1>3. Counted' /\ Covered'
  BY DEF End, Counted, Covered, Requests
<1> QED
  BY <1>2, <1>3 DEF FullInv, Inv

LEMMA InvStep == FullInv /\ [Next]_vars => FullInv'
<1> SUFFICES ASSUME FullInv, [Next]_vars PROVE FullInv'
  OBVIOUS
<1>0. TypeOK /\ Counted /\ (LongWindow => Covered)
  BY DEF FullInv, Inv
<1>1. /\ now \in Nat /\ MaxTime \in Nat /\ now \in 0..MaxTime /\ began \in Nat /\ began \in 0..now
      /\ Window \in Nat /\ Timeout \in Nat /\ AccessLife \in Nat
      /\ now \in 0..now /\ calls \in 0..3 /\ 0 \in 0..3 /\ 1 \in 0..3
  BY <1>0, SessionAssumption DEF TypeOK
<1>2. Issued \in Token /\ Issued # NoTokens /\ Issued.access = now + AccessLife
  BY <1>1, IssuedIsToken
<1>3. {"Other"} \in SUBSET Sentinels /\ {} \in SUBSET Sentinels /\ {"Provider"} \in SUBSET Sentinels
      /\ {"VerificationFailed"} \in SUBSET Sentinels
  BY DEF Sentinels
<1>a. CASE EnsureValid
  <2>1. CASE pc' = "ready"
    <3>1. /\ held' = stored /\ stored \in Token /\ now + Window < stored.access
          /\ now' = now /\ calls' = 0 /\ stored' = stored /\ began' = now
      BY <1>0, <1>1, <1>a, <2>1 DEF EnsureValid, Start, TypeOK, AccessNearExpiry, Token
    <3>2. TypeOK'
      BY <1>0, <1>1, <1>3, <1>a, <2>1, <3>1 DEF EnsureValid, Start, TypeOK, Steps
    <3>3. Counted' /\ (LongWindow => Covered)'
      BY <1>1, <2>1, <3>1 DEF Counted, Covered, LongWindow, Requests, Token
    <3> QED
      BY <3>2, <3>3 DEF FullInv, Inv
  <2>2. CASE pc' \in {"refresh", "prompt"}
    <3>1. /\ held' \in Token \cup {NoTokens} /\ (pc' = "refresh" => held' # NoTokens)
          /\ now' = now /\ calls' = 0 /\ stored' = stored /\ began' = now
      BY <1>0, <1>a, <2>2 DEF EnsureValid, Start, TypeOK
    <3>2. TypeOK'
      BY <1>0, <1>1, <1>3, <1>a, <2>2, <3>1 DEF EnsureValid, Start, TypeOK, Steps
    <3>3. Counted' /\ Covered'
      BY <1>1, <2>2, <3>1 DEF Counted, Covered, Requests
    <3> QED
      BY <3>2, <3>3 DEF FullInv, Inv
  <2> QED
    BY <1>a, <2>1, <2>2 DEF EnsureValid
<1>b. CASE EnsureValidFails \/ Logout
  <2>1. /\ pc = "idle" /\ stored' \in Token \cup {NoTokens} /\ errs' \in SUBSET Sentinels
        /\ expired' \in BOOLEAN /\ UNCHANGED <<now, pc, cmd, tty, held, started, began, calls>>
    BY <1>0, <1>3, <1>b DEF EnsureValidFails, Logout, TypeOK
  <2> QED
    BY <1>0, <2>1 DEF TypeOK, Counted, Covered, Requests, FullInv, Inv
<1>c. CASE Login
  BY <1>0, <1>1, <1>3, <1>c
  DEF Login, Start, TypeOK, Steps, Counted, Covered, Requests, FullInv, Inv
<1>d. CASE Refreshed \/ LoggedIn
  <2>1. /\ pc \in {"refresh", "login"} /\ pc' = "save" /\ held' = Issued
        /\ UNCHANGED <<now, stored, cmd, tty, started, began, calls, errs, expired>>
    BY <1>d DEF Refreshed, LoggedIn, Goto
  <2>2. TypeOK'
    BY <1>0, <1>2, <2>1 DEF TypeOK, Steps
  <2>3. Counted' /\ (LongWindow => Covered)'
    BY <1>0, <1>1, <1>2, <2>1 DEF Counted, Covered, LongWindow, Requests
  <2> QED
    BY <2>2, <2>3 DEF FullInv, Inv
<1>e. CASE RefreshFails
  BY <1>0, <1>e DEF RefreshFails, TypeOK, Steps, Counted, Covered, Requests, FullInv, Inv
<1>f. CASE PromptFails \/ LoginFails
  <2>1. PICK e \in {"UserAborted", "Other", "PromptUnavailable", "InvalidCredentials"} : End({e})
    BY <1>f DEF PromptFails, LoginFails
  <2>2. {e} \in SUBSET Sentinels
    BY <2>1 DEF Sentinels
  <2>3. now' = now /\ stored' = stored
    BY <1>f DEF PromptFails, LoginFails
  <2> QED
    BY <1>0, <2>1, <2>2, <2>3, Ended DEF TypeOK
<1>g. CASE Prompted
  BY <1>0, <1>1, <1>g
  DEF Prompted, Send, TypeOK, Steps, Counted, Covered, Requests, FullInv, Inv
<1>h. CASE Save \/ SaveFails
  <2>1. now' = now /\ stored' \in Token \cup {NoTokens} /\ pc = "save"
    BY <1>0, <1>h DEF Save, SaveFails, TypeOK
  <2>2. CASE End({}) \/ End({"Other"})
    BY <1>0, <1>3, <2>1, <2>2, Ended
  <2>3. CASE Goto("ready") /\ UNCHANGED held
    <3>1. TypeOK'
      BY <1>0, <2>1, <2>3 DEF Goto, TypeOK, Steps
    <3>2. Counted' /\ (LongWindow => Covered)'
      BY <1>0, <2>1, <2>3 DEF Goto, Counted, Covered, LongWindow, Requests
    <3> QED
      BY <3>1, <3>2 DEF FullInv, Inv
  <2> QED
    BY <1>h, <2>2, <2>3 DEF Save, SaveFails
<1>i. CASE Exchange
  <2>1. /\ pc = "ready" /\ calls < 2 /\ pc' = "exchange" /\ began' = now /\ calls' = calls + 1
        /\ UNCHANGED <<now, stored, held, cmd, tty, started, errs, expired>>
    BY <1>i DEF Exchange, Send
  <2>2. TypeOK'
    BY <1>0, <1>1, <2>1 DEF TypeOK, Steps
  <2>3. Counted' /\ (LongWindow => Covered)'
    BY <1>0, <1>1, <2>1 DEF Counted, Covered, LongWindow, Requests
  <2> QED
    BY <2>2, <2>3 DEF FullInv, Inv
<1>j. CASE Call
  <2>1. /\ pc = "exchange" /\ pc' = "call" /\ began' = now
        /\ UNCHANGED <<now, stored, held, calls, cmd, tty, started, errs, expired>>
    BY <1>j DEF Call, Send
  <2>2. TypeOK'
    BY <1>0, <1>1, <2>1 DEF TypeOK, Steps
  <2>3. Counted'
    BY <1>0, <1>1, <2>1 DEF Counted, Requests
  <2>4. (LongWindow => Covered)'
    <3>1. held \in Token /\ now <= began + Timeout
      BY <1>0, <2>1 DEF TypeOK, Counted, Requests
    <3> QED
      BY <1>0, <1>1, <2>1, <3>1 DEF Covered, LongWindow, Token
  <2> QED
    BY <2>2, <2>3, <2>4 DEF FullInv, Inv
<1>k. CASE Answered
  <2>1. /\ pc = "call" /\ now' = now /\ stored' = stored
        /\ \/ End({"Provider"}) \/ (Goto("ready") /\ UNCHANGED held)
           \/ (Goto("verify") /\ UNCHANGED held)
    BY <1>k DEF Answered
  <2>2. CASE End({"Provider"})
    BY <1>0, <1>3, <2>1, <2>2, Ended DEF TypeOK
  <2>3. CASE Goto("ready") /\ UNCHANGED held
    <3>1. held \in Token /\ now <= began + Timeout /\ calls >= 1
      BY <1>0, <2>1 DEF TypeOK, Counted, Requests
    <3>2. TypeOK'
      BY <1>0, <2>1, <2>3 DEF Goto, TypeOK, Steps
    <3>3. Counted' /\ (LongWindow => Covered)'
      BY <1>0, <1>1, <2>1, <2>3, <3>1
      DEF Goto, Counted, Covered, LongWindow, Requests, Token
    <3> QED
      BY <3>2, <3>3 DEF FullInv, Inv
  <2>4. CASE Goto("verify") /\ UNCHANGED held
    BY <1>0, <2>1, <2>4
    DEF Goto, TypeOK, Steps, Counted, Covered, Requests, FullInv, Inv
  <2> QED
    BY <2>1, <2>2, <2>3, <2>4
<1>l. CASE BrokerFails \/ Finish \/ Verified
  <2>1. /\ now' = now /\ stored' = stored
        /\ End({}) \/ End({"Provider"}) \/ End({"VerificationFailed"})
    BY <1>l DEF BrokerFails, Finish, Verified
  <2> QED
    BY <1>0, <1>3, <2>1, Ended DEF TypeOK
<1>m. CASE CommitFails
  <2>1. /\ pc' = "exchange" /\ began' = now /\ calls' = 3 /\ 3 \in 0..3
        /\ pc \in {"exchange", "call"}
        /\ UNCHANGED <<now, stored, held, cmd, tty, started, errs, expired>>
    BY <1>m DEF CommitFails, Send
  <2> QED
    BY <1>0, <1>1, <2>1 DEF TypeOK, Steps, Counted, Covered, Requests, FullInv, Inv
<1>n. CASE Others
  <2>1. /\ stored' \in Token \cup {NoTokens}
        /\ UNCHANGED <<now, pc, cmd, tty, held, started, began, calls, errs, expired>>
    BY <1>2, <1>n DEF Others
  <2> QED
    BY <1>0, <2>1 DEF TypeOK, Counted, Covered, FullInv, Inv
<1>o. CASE Tick
  <2>1. /\ now' = now + 1 /\ now < MaxTime
        /\ pc \in {"idle", "prompt", "verify"} \/ (pc \in Requests /\ now < began + Timeout)
        /\ UNCHANGED <<stored, pc, cmd, tty, held, started, began, calls, errs, expired>>
    BY <1>o DEF Tick
  <2>2. TypeOK'
    BY <1>0, <1>1, <2>1 DEF TypeOK
  <2>3. Counted' /\ (LongWindow => Covered)'
    BY <1>0, <1>1, <2>1 DEF Counted, Covered, Requests
  <2> QED
    BY <2>2, <2>3 DEF FullInv, Inv
<1>p. CASE UNCHANGED vars
  BY <1>0, <1>p DEF vars, TypeOK, Counted, Covered, FullInv, Inv
<1> QED
  BY <1>a, <1>b, <1>c, <1>d, <1>e, <1>f, <1>g, <1>h, <1>i, <1>j, <1>k, <1>l, <1>m, <1>n, <1>o, <1>p
  DEF Next

LEMMA AlwaysInv == Spec => []FullInv
  BY InvInit, InvStep, PTL DEF Spec

-----------------------------------------------------------------------------
(***************************************************************************)
(* Types, and EnsureValid returns tokens or an error, never neither.       *)
(***************************************************************************)
THEOREM TypeCorrect == Spec => []TypeOK
<1>1. FullInv => TypeOK
  BY DEF FullInv, Inv
<1> QED
  BY <1>1, AlwaysInv, PTL

(***************************************************************************)
(* With any window of two timeouts or more (AccessTokenRefreshWindow and   *)
(* defaultTimeout), and tokens that live longer than two timeouts: the     *)
(* access token outlives the first exchange of a command, and has not      *)
(* expired when the second is sent.                                        *)
(***************************************************************************)
THEOREM WindowSuffices ==
  ASSUME LongWindow
  PROVE  Spec => []WindowCoversTwoCalls
<1>1. FullInv => WindowCoversTwoCalls
  <2> SUFFICES ASSUME TypeOK, Counted, Covered, pc = "exchange"
               PROVE  /\ calls = 1 => now < held.access
                      /\ calls = 2 => began < held.access
    BY DEF FullInv, Inv, WindowCoversTwoCalls
  <2>1. /\ held \in Token /\ now <= began + Timeout
        /\ now \in Nat /\ began \in Nat /\ Timeout \in Nat
    BY SessionAssumption DEF TypeOK, Counted, Requests
  <2> QED
    BY <2>1 DEF Covered, Token
<1> QED
  BY <1>1, AlwaysInv, PTL

(***************************************************************************)
(* No session is spent on the broker before the store holds it (EnsureValid*)
(* saves before it returns).                                               *)
(***************************************************************************)
THEOREM StoredBeforeSpent == Spec => SpentIsStored
<1>1. FullInv /\ [Next]_vars => [pc # "ready" /\ pc' = "ready" /\ calls = 0 => stored' = held']_vars
  <2> SUFFICES ASSUME TypeOK, Counted, Next, pc # "ready", pc' = "ready", calls = 0
               PROVE  stored' = held'
    BY DEF FullInv, Inv
  <2>1. pc \notin {"exchange", "call"}
    BY DEF TypeOK, Counted
  <2>2. CASE EnsureValid
    BY <2>2 DEF EnsureValid
  <2>3. CASE Save
    BY <2>3 DEF Save, End
  <2>4. EnsureValid \/ Save
    BY <2>1
    DEF Next, EnsureValidFails, Login, Logout, Start, Refreshed, RefreshFails, PromptFails,
        Prompted, LoggedIn, LoginFails, SaveFails, Exchange, Call, Answered, BrokerFails,
        CommitFails, Finish, Verified, Others, Tick, Goto, Send, End
  <2> QED
    BY <2>2, <2>3, <2>4
<1> QED
  BY <1>1, AlwaysInv, PTL DEF Spec, SpentIsStored

(***************************************************************************)
(* A command replaces the stored session by one it was just issued or not  *)
(* at all: no refresh or login that fails costs the user a session.        *)
(***************************************************************************)
THEOREM NothingLostByFailure == Spec => FailureKeepsSession
<1>1. [Next]_vars => [stored' # stored /\ pc' # pc => pc = "save" /\ stored' = held]_vars
  BY DEF Next, EnsureValid, EnsureValidFails, Login, Logout, Refreshed, RefreshFails, PromptFails,
         Prompted, LoggedIn, LoginFails, Save, SaveFails, Exchange, Call, Answered, BrokerFails,
         CommitFails, Finish, Verified, Others, Tick
<1> QED
  BY <1>1, PTL DEF Spec, FailureKeepsSession

-----------------------------------------------------------------------------
(***************************************************************************)
(* A headless command's time.  By when its request was sent, and where it  *)
(* is when none is, after so many broker calls; Counted has the timeout of *)
(* the request in flight.  Of "verify" it says nothing, and nothing but    *)
(* the end comes after that.                                               *)
(***************************************************************************)
Punctual ==
  ~tty =>
    /\ pc # "login"
    /\ pc = "refresh" => began <= started
    /\ pc = "exchange" => began <= started + (2 * calls - 1) * Timeout
    /\ pc = "call" => began <= started + (2 * calls) * Timeout
    /\ pc \in {"prompt", "save", "ready"} => now <= started + (2 * calls + 1) * Timeout

(* Two requests to the call.                                               *)
LEMMA TwoRequests ==
  ASSUME NEW n \in 0..3
  PROVE  /\ (2 * n + 1) * Timeout = (2 * n) * Timeout + Timeout
         /\ (2 * (n + 1) - 1) * Timeout = (2 * n + 1) * Timeout
         /\ n # 0 => (2 * n) * Timeout = (2 * n - 1) * Timeout + Timeout
         /\ n # 0 => (2 * n - 1) * Timeout >= Timeout
         /\ (2 * n) * Timeout \in Nat /\ (2 * n + 1) * Timeout \in Nat
  BY SessionAssumption

(* Wherever a headless command is, it is there in time.                    *)
LEMMA InTime ==
  ASSUME TypeOK, Counted, Punctual
  PROVE  HeadlessInTime
<1> SUFFICES ASSUME pc \notin {"idle", "verify"}, ~tty
             PROVE  now <= started + (2 * calls + 1) * Timeout
  BY DEF HeadlessInTime
<1>1. /\ now \in Nat /\ started \in Nat /\ began \in Nat /\ Timeout \in Nat
      /\ calls \in 0..3
  BY SessionAssumption DEF TypeOK
<1>2. CASE pc \in {"prompt", "save", "ready"}
  BY <1>2 DEF Punctual
<1>3. CASE pc = "refresh"
  BY <1>1, <1>3 DEF Punctual, Counted, Requests
<1>4. CASE pc = "exchange"
  BY <1>1, <1>4, TwoRequests DEF Punctual, Counted, Requests
<1>5. CASE pc = "call"
  BY <1>1, <1>5, TwoRequests DEF Punctual, Counted, Requests
<1> QED
  BY <1>2, <1>3, <1>4, <1>5 DEF TypeOK, Steps, Punctual

LEMMA PunctualStep == FullInv /\ Punctual /\ [Next]_vars => Punctual'
<1> SUFFICES ASSUME FullInv, Punctual, [Next]_vars PROVE Punctual'
  OBVIOUS
<1>1. TypeOK /\ Counted /\ HeadlessInTime
  BY InTime DEF FullInv, Inv
<1>2. /\ now \in Nat /\ started \in Nat /\ began \in Nat /\ Timeout \in Nat
      /\ calls \in 0..3
  BY <1>1, SessionAssumption DEF TypeOK
(* Ends and beginnings.                                                    *)
<1>3. ASSUME pc' = "idle" PROVE Punctual'
  BY <1>3 DEF Punctual
<1>4. ASSUME NEW errors, End(errors) PROVE Punctual'
  BY <1>3, <1>4 DEF End
<1>5. CASE EnsureValid \/ Login
  <2>1. /\ pc' \in {"ready", "refresh", "prompt"} /\ began' = now /\ started' = now
        /\ now' = now /\ calls' = 0
    BY <1>5 DEF EnsureValid, Login, Start
  <2> QED
    BY <1>2, <2>1 DEF Punctual
<1>6. CASE EnsureValidFails \/ Logout
  BY <1>3, <1>6 DEF EnsureValidFails, Logout
(* What is not sent takes no time.                                         *)
<1>7. ASSUME pc \notin {"idle", "verify"}, pc' \in {"prompt", "save", "ready"},
             UNCHANGED <<now, tty, started, calls>>
      PROVE  Punctual'
  BY <1>1, <1>7 DEF Punctual, HeadlessInTime
<1>8. CASE Refreshed \/ RefreshFails \/ LoggedIn
  BY <1>7, <1>8 DEF Refreshed, RefreshFails, LoggedIn, Goto
<1>9. CASE Save \/ Answered
  <2>1. ASSUME pc' = "verify" PROVE Punctual'
    BY <2>1 DEF Punctual
  <2> QED
    BY <1>4, <1>7, <1>9, <2>1 DEF Save, Answered, Goto
<1>10. CASE PromptFails \/ LoginFails \/ SaveFails \/ BrokerFails \/ Finish \/ Verified
  BY <1>4, <1>10 DEF PromptFails, LoginFails, SaveFails, BrokerFails, Finish, Verified
<1>11. CASE Prompted
  BY <1>11 DEF Prompted, Send, Punctual
(* What is.                                                                *)
<1>12. CASE Exchange
  <2>1. /\ pc = "ready" /\ pc' = "exchange" /\ began' = now /\ calls' = calls + 1
        /\ UNCHANGED <<now, tty, started>>
    BY <1>12 DEF Exchange, Send
  <2> QED
    BY <1>1, <1>2, <2>1, TwoRequests DEF Punctual, HeadlessInTime
<1>13. CASE Call
  <2>1. /\ pc = "exchange" /\ pc' = "call" /\ began' = now
        /\ UNCHANGED <<now, tty, started, calls>>
    BY <1>13 DEF Call, Send
  <2>2. ~tty => now <= started + (2 * calls) * Timeout
    BY <1>1, <1>2, <2>1, TwoRequests DEF Punctual, Counted, Requests
  <2> QED
    BY <2>1, <2>2 DEF Punctual
<1>14. CASE CommitFails
  <2>1. /\ pc \in {"exchange", "call"} /\ pc' = "exchange" /\ began' = now
        /\ calls = 2 /\ calls' = 3
        /\ UNCHANGED <<now, tty, started>>
    BY <1>14 DEF CommitFails, Send
  <2> QED
    BY <1>1, <1>2, <2>1, TwoRequests DEF Punctual, HeadlessInTime
<1>15. CASE Others
  BY <1>15 DEF Others, Punctual
<1>16. CASE Tick
  <2>1. /\ pc' = pc /\ UNCHANGED <<tty, started, began, calls>>
        /\ ~tty => pc \notin {"prompt", "save", "ready"}
    BY <1>16 DEF Tick, Requests
  <2> QED
    BY <2>1 DEF Punctual
<1>17. CASE UNCHANGED vars
  BY <1>17 DEF vars, Punctual
<1> QED
  BY <1>5, <1>6, <1>8, <1>9, <1>10, <1>11, <1>12, <1>13, <1>14, <1>15, <1>16, <1>17 DEF Next

(***************************************************************************)
(* With any timeout, and whatever Whizlabs does: a command without a       *)
(* terminal that has begun n broker calls has ended, has begun another, or *)
(* is create asking AWS, within 2n + 1 timeouts of EnsureValid (its        *)
(* refresh, then an exchange and a request for each call; the client's     *)
(* defaultTimeout bounds every one).  With at most three calls, by TypeOK, *)
(* every command is done with Whizlabs within seven timeouts.  How long    *)
(* create then asks AWS is not bounded, and not claimed.                   *)
(***************************************************************************)
THEOREM HeadlessIsPunctual == Spec => []HeadlessInTime
<1>1. Init => Punctual
  BY DEF Init, Punctual
<1>2. FullInv /\ Punctual => HeadlessInTime
  BY InTime DEF FullInv, Inv
<1> QED
  BY <1>1, <1>2, AlwaysInv, PunctualStep, PTL DEF Spec
=============================================================================
