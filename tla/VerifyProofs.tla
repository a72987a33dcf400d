---------------------------- MODULE VerifyProofs ----------------------------
(***************************************************************************)
(* For every number of attempts and every pause between them: the types of *)
(* VerifyLoop, and PatienceCovers.  Paced says what a clock that is only   *)
(* looked at during pauses has come to: so many attempts, so many pauses.  *)
(***************************************************************************)
EXTENDS VerifyLoop, TLAPS

Paced ==
  /\ pc \in {"client", "call", "sent"} => now >= (attempt - 1) * RetryBackoff
  /\ pc = "pause" => wake >= attempt * RetryBackoff

Inv == TypeOK /\ Paced /\ PatienceCovers

LEMMA InvInit == Init => Inv
<1> SUFFICES ASSUME Init PROVE Inv
  OBVIOUS
<1>1. TypeOK
  BY VerifierAssumption DEF Init, TypeOK, Verdicts
<1>2. (attempt - 1) * RetryBackoff = 0
  BY VerifierAssumption DEF Init
<1> QED
  BY <1>1, <1>2 DEF Init, Inv, Paced, PatienceCovers

(* The pause after an attempt is one more than came before it.             *)
LEMMA OneMorePause ==
  ASSUME NEW n \in Nat \ {0}
  PROVE  /\ (n - 1) * RetryBackoff + RetryBackoff = n * RetryBackoff
         /\ (n + 1) - 1 = n
         /\ n * RetryBackoff \in Nat /\ (n - 1) * RetryBackoff \in Nat
  BY VerifierAssumption

LEMMA InvStep == Inv /\ [Next]_vars => Inv'
<1> SUFFICES ASSUME Inv, [Next]_vars PROVE Inv'
  OBVIOUS
<1> USE VerifierAssumption DEF Inv
<1>p. (MaxAttempts - 1) * RetryBackoff \in Nat /\ attempt \in Nat \ {0}
  BY OneMorePause DEF TypeOK
<1>r. ASSUME NEW v \in Verdicts \ {"none", "unknownKey"}, Return(v), pc # "done" PROVE Inv'
  BY <1>r DEF Return, TypeOK, Paced, PatienceCovers
<1>1. CASE NewClient
  BY <1>1, <1>r DEF NewClient, TypeOK, Paced, PatienceCovers, Verdicts
<1>2. CASE Call
  BY <1>2, <1>r DEF Call, TypeOK, Paced, PatienceCovers, Verdicts
<1>3. CASE Accepted \/ Refused \/ AbandonRequest \/ PauseCancelled
  BY <1>3, <1>r DEF Accepted, Refused, AbandonRequest, PauseCancelled, Verdicts
<1>4. CASE KeyUnknown
  <2>1. now < spreadBy /\ now >= (attempt - 1) * RetryBackoff
    BY <1>4 DEF KeyUnknown, Paced
  <2>2. CASE attempt = MaxAttempts
    BY <1>4, <1>p, <2>1, <2>2 DEF KeyUnknown, Return, TypeOK, Paced, PatienceCovers, Verdicts
  <2>3. CASE attempt # MaxAttempts
    <3>1. /\ pc = "sent" /\ pc' = "pause" /\ wake' = now + RetryBackoff
          /\ UNCHANGED <<now, attempt, cancelled, verdict, spreadBy>>
      BY <1>4, <2>3 DEF KeyUnknown
    <3>2. wake' >= attempt * RetryBackoff
      BY <1>p, <2>1, <3>1, OneMorePause DEF TypeOK
    <3>3. TypeOK'
      BY <2>3, <3>1 DEF TypeOK
    <3> QED
      BY <3>1, <3>2, <3>3 DEF Paced, PatienceCovers
  <2> QED
    BY <2>2, <2>3
<1>5. CASE PauseOver
  <2>1. /\ pc = "pause" /\ now >= wake /\ pc' = "call" /\ attempt' = attempt + 1
        /\ UNCHANGED <<now, wake, cancelled, verdict, spreadBy>>
    BY <1>5 DEF PauseOver
  <2>2. now' >= (attempt' - 1) * RetryBackoff
    <3>1. now >= attempt * RetryBackoff
      BY <1>p, <2>1, OneMorePause DEF Paced, TypeOK
    <3> QED
      BY <1>p, <2>1, <3>1, OneMorePause
  <2>3. TypeOK'
    BY <2>1 DEF TypeOK
  <2> QED
    BY <2>1, <2>2, <2>3 DEF Paced, PatienceCovers
<1>6. CASE Cancel
  BY <1>6 DEF Cancel, TypeOK, Paced, PatienceCovers
<1>7. CASE Tick
  <2>1. now' = now + 1 /\ UNCHANGED <<pc, attempt, wake, cancelled, verdict, spreadBy>>
        /\ now < MaxTime
    BY <1>7 DEF Tick
  <2>2. TypeOK'
    BY <2>1 DEF TypeOK
  <2>3. Paced'
    BY <1>p, <2>1, OneMorePause DEF TypeOK, Paced
  <2> QED
    BY <2>1, <2>2, <2>3 DEF PatienceCovers
<1>8. CASE UNCHANGED vars
  BY <1>8 DEF vars, TypeOK, Paced, PatienceCovers
<1> QED
  BY <1>1, <1>2, <1>3, <1>4, <1>5, <1>6, <1>7, <1>8 DEF Next

(***************************************************************************)
(* With any number of attempts, 15 or other, and any pause between them, a *)
(* key that AWS has made known everywhere within those pauses is never     *)
(* given up as unknown.                                                    *)
(***************************************************************************)
THEOREM PatienceSuffices == Spec => []PatienceCovers
<1>1. Inv => PatienceCovers
  BY DEF Inv
<1> QED
  BY InvInit, InvStep, <1>1, PTL DEF Spec

(***************************************************************************)
(* Attempts stay within STSVerifier.maxAttempts, a pause is only made      *)
(* before another attempt, and there is a verdict exactly at the end.      *)
(***************************************************************************)
THEOREM AttemptsBounded == Spec => []TypeOK
<1>1. Inv => TypeOK
  BY DEF Inv
<1> QED
  BY InvInit, InvStep, <1>1, PTL DEF Spec
=============================================================================
