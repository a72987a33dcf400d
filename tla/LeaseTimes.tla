----------------------------- MODULE LeaseTimes -----------------------------
(***************************************************************************)
(* How internal/adapters/whizlabs turns the lifetime a user asks for into  *)
(* the hours it requests.  One request is one step.  (What becomes of the  *)
(* times in the broker's answer is in SandboxService: Resolved.)           *)
(***************************************************************************)
EXTENDS Integers

CONSTANTS
  Hour,         \* time.Hour, in the unit of all times here
  Durations,    \* the durations users ask for
  Rejected      \* the request is refused before it is sent

ASSUME LeaseAssumption ==
  /\ Hour \in Nat \ {0}
  /\ Durations \subseteq Int
  /\ Rejected \notin Int

VARIABLES
  request,   \* the request made last: a slug and a duration
  hours      \* the hours sent for it, or Rejected

leaseVars == <<request, hours>>

Slugs == {"aws-sandbox", "gcp-sandbox", "azure-sandbox"}

ValidLabDuration(slug, d) ==
  /\ slug = "gcp-sandbox" => d = Hour
  /\ slug = "azure-sandbox" => Hour <= d /\ d <= 3 * Hour

(* Mutant of HoursUp: a whole number of hours costs another one, too.      *)
HoursAbove(d) == d \div Hour + 1

(* Integer division truncates, then a remainder costs another hour.        *)
HoursUp(d) == d \div Hour + (IF d > (d \div Hour) * Hour THEN 1 ELSE 0)

(* Mutant of DurationToHours: nine hours are refused.                      *)
DurationBelowNine(d) == IF d > 0 /\ HoursUp(d) \in 1..8 THEN HoursUp(d) ELSE Rejected

DurationToHours(d) == IF d > 0 /\ HoursUp(d) \in 1..9 THEN HoursUp(d) ELSE Rejected

HoursFor(slug, d) == IF ValidLabDuration(slug, d) THEN DurationToHours(d) ELSE Rejected

LeaseInit ==
  /\ request = [slug |-> "aws-sandbox", duration |-> Hour]
  /\ hours = 1

Ask(slug, d) ==
  /\ request' = [slug |-> slug, duration |-> d]
  /\ hours' = HoursFor(slug, d)

LeaseNext == \E slug \in Slugs, d \in Durations : Ask(slug, d)

LeaseSpec == LeaseInit /\ [][LeaseNext]_leaseVars

(***************************************************************************)
(* The hours sent are between one and nine and the fewest that cover what  *)
(* was asked for (durationToHours rounds up, and never an hour too far);   *)
(* a lab never gets more than its kind allows.                             *)
(***************************************************************************)
FewestHoursThatCover ==
  hours # Rejected =>
    /\ hours \in 1..9
    /\ request.duration <= hours * Hour
    /\ (hours - 1) * Hour < request.duration
    /\ request.slug = "gcp-sandbox" => hours = 1
    /\ request.slug = "azure-sandbox" => hours <= 3

(***************************************************************************)
(* Every lifetime that create's help and documentation offer for a lab is  *)
(* served, its two ends included; none is that is not positive, or longer  *)
(* than the longest.  (Of AWS lifetimes below an hour nothing is claimed:  *)
(* durationToHours rounds them up to one, its comment has them rejected.)  *)
(***************************************************************************)
Longest == [slug \in Slugs |->
              CASE slug = "aws-sandbox" -> 9 [] slug = "azure-sandbox" -> 3 [] OTHER -> 1]

ServesWhatItOffers ==
  LET longest == Longest[request.slug] * Hour IN
  /\ Hour <= request.duration /\ request.duration <= longest => hours # Rejected
  /\ request.duration <= 0 \/ longest < request.duration => hours = Rejected
=============================================================================
