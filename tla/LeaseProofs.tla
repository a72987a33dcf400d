---------------------------- MODULE LeaseProofs ----------------------------
(***************************************************************************)
(* For every unit of time, every duration and every answer of the broker:  *)
(* the properties of LeaseTimes.                                           *)
(***************************************************************************)
EXTENDS LeaseTimes, TLAPS

(* Arithmetic that the provers have to be told.                            *)
LEMMA OneMoreHour ==
  ASSUME NEW n \in Int
  PROVE  n * Hour \in Int /\ (n + 1) * Hour = n * Hour + Hour /\ (n - 1) * Hour = n * Hour - Hour
  BY LeaseAssumption

LEMMA MoreHoursAreLonger ==
  ASSUME NEW m \in Int, NEW n \in Int, m <= n
  PROVE  m * Hour <= n * Hour
<1> DEFINE more == n - m
<1>1. more \in Nat /\ n = m + more
  OBVIOUS
<1> HIDE DEF more
<1>2. more * Hour >= 0
  BY <1>1, LeaseAssumption
<1>3. (m + more) * Hour = m * Hour + more * Hour
  BY <1>1, LeaseAssumption
<1>4. m * Hour \in Int /\ more * Hour \in Int
  BY <1>1, LeaseAssumption
<1> QED
  BY <1>1, <1>2, <1>3, <1>4

(* Rounding up: the next whole number of hours, and no further.            *)
LEMMA RoundedUp ==
  ASSUME NEW d \in Int
  PROVE  /\ HoursUp(d) \in Int
         /\ d <= HoursUp(d) * Hour
         /\ (HoursUp(d) - 1) * Hour < d
<1> DEFINE q == d \div Hour
<1>1. q \in Int /\ q * Hour <= d /\ d < (q + 1) * Hour
  BY LeaseAssumption, Z3
<1>2. HoursUp(d) = q + (IF d > q * Hour THEN 1 ELSE 0)
  BY DEF HoursUp
<1> HIDE DEF q
<1>3. CASE d > q * Hour
  <2>1. HoursUp(d) = q + 1 /\ HoursUp(d) \in Int
    BY <1>1, <1>2, <1>3
  <2>2. HoursUp(d) - 1 = q
    BY <1>1, <2>1
  <2>3. (HoursUp(d) - 1) * Hour < d
    BY <1>1, <1>3, <2>2, LeaseAssumption
  <2>4. d <= HoursUp(d) * Hour
    BY <1>1, <2>1, LeaseAssumption
  <2> QED
    BY <2>1, <2>3, <2>4
<1>4. CASE ~(d > q * Hour)
  <2>1. HoursUp(d) = q /\ q * Hour = d
    <3>1. q * Hour \in Int
      BY <1>1, LeaseAssumption
    <3>2. q + 0 = q
      BY <1>1
    <3> QED
      BY <1>1, <1>2, <1>4, <3>1, <3>2
  <2>2. (q - 1) * Hour = q * Hour - Hour
    BY <1>1, OneMoreHour
  <2>3. q * Hour - Hour < q * Hour
    BY <1>1, OneMoreHour, LeaseAssumption
  <2> QED
    BY <1>1, <2>1, <2>2, <2>3
<1> QED
  BY <1>3, <1>4

(* Who asks for a whole number of hours gets no more.                      *)
LEMMA WholeHours ==
  ASSUME NEW n \in Nat, NEW d \in Int, d <= n * Hour
  PROVE  HoursUp(d) <= n
<1> DEFINE h == HoursUp(d)
<1>1. h \in Int /\ (h - 1) * Hour < n * Hour
  BY RoundedUp, OneMoreHour
<1> HIDE DEF h
<1> SUFFICES h <= n
  BY DEF h
<1>2. ~(n <= h - 1)
  BY <1>1, OneMoreHour, MoreHoursAreLonger
<1> QED
  BY <1>1, <1>2

(* A duration above zero takes an hour at least.                           *)
LEMMA AtLeastOne ==
  ASSUME NEW d \in Int, d > 0
  PROVE  HoursUp(d) >= 1
<1> DEFINE h == HoursUp(d)
<1>1. h \in Int /\ 0 < h * Hour
  BY RoundedUp, OneMoreHour
<1> HIDE DEF h
<1> SUFFICES h >= 1
  BY DEF h
<1>2. 0 * Hour = 0
  BY LeaseAssumption
<1>3. ~(h <= 0)
  BY <1>1, <1>2, OneMoreHour, MoreHoursAreLonger
<1> QED
  BY <1>1, <1>3

-----------------------------------------------------------------------------
(* What a request leaves.                                                  *)
Typed ==
  /\ request \in [slug : Slugs, duration : Int]
  /\ hours \in Int \cup {Rejected}

Inv == Typed /\ FewestHoursThatCover /\ ServesWhatItOffers

LEMMA HoursForFits ==
  ASSUME NEW slug \in Slugs, NEW d \in Int
  PROVE  /\ HoursFor(slug, d) # Rejected =>
              /\ HoursFor(slug, d) = HoursUp(d) /\ HoursUp(d) \in 1..9
              /\ slug = "gcp-sandbox" => HoursUp(d) = 1
              /\ slug = "azure-sandbox" => HoursUp(d) <= 3
         /\ Hour <= d /\ d <= Longest[slug] * Hour => HoursFor(slug, d) # Rejected
         /\ d <= 0 \/ Longest[slug] * Hour < d => HoursFor(slug, d) = Rejected
<1>1. HoursUp(d) \in Int /\ Rejected \notin 1..9
  BY RoundedUp, LeaseAssumption
<1>2. d <= 1 * Hour => HoursUp(d) <= 1
  BY WholeHours
<1>3. d <= 3 * Hour => HoursUp(d) <= 3
  BY WholeHours
<1>4. d <= 9 * Hour => HoursUp(d) <= 9
  BY WholeHours
<1>5. d > 0 => HoursUp(d) >= 1
  BY AtLeastOne
<1>6. 1 * Hour = Hour
  BY LeaseAssumption
<1>7. HoursUp(d) \in 1..9 => d <= 9 * Hour
  <2> DEFINE h == HoursUp(d)
  <2>1. h \in Int /\ d <= h * Hour
    BY RoundedUp
  <2> HIDE DEF h
  <2> SUFFICES ASSUME h \in 1..9 PROVE d <= 9 * Hour
    BY DEF h
  <2>2. h * Hour <= 9 * Hour
    BY MoreHoursAreLonger
  <2> QED
    BY <2>1, <2>2, OneMoreHour
<1>8. Longest[slug] = CASE slug = "aws-sandbox" -> 9 [] slug = "azure-sandbox" -> 3 [] OTHER -> 1
  BY DEF Longest
<1> QED
  BY <1>1, <1>2, <1>3, <1>4, <1>5, <1>6, <1>7, <1>8, LeaseAssumption
     DEF HoursFor, DurationToHours, ValidLabDuration, Slugs

LEMMA InvStep == Inv /\ [LeaseNext]_leaseVars => Inv'
<1> SUFFICES ASSUME Inv, [LeaseNext]_leaseVars PROVE Inv'
  OBVIOUS
<1>1. CASE UNCHANGED leaseVars
  BY <1>1 DEF leaseVars, Inv, Typed, FewestHoursThatCover, ServesWhatItOffers
<1>2. ASSUME NEW slug \in Slugs, NEW d \in Durations, Ask(slug, d) PROVE Inv'
  <2>1. /\ d \in Int /\ request' = [slug |-> slug, duration |-> d]
        /\ hours' = HoursFor(slug, d)
    BY <1>2, LeaseAssumption DEF Ask
  <2>2. /\ HoursUp(d) \in Int
        /\ d <= HoursUp(d) * Hour
        /\ (HoursUp(d) - 1) * Hour < d
    BY <2>1, RoundedUp
  <2>3. /\ hours' # Rejected =>
             /\ hours' = HoursUp(d) /\ HoursUp(d) \in 1..9
             /\ slug = "gcp-sandbox" => HoursUp(d) = 1
             /\ slug = "azure-sandbox" => HoursUp(d) <= 3
        /\ Hour <= d /\ d <= Longest[slug] * Hour => hours' # Rejected
        /\ d <= 0 \/ Longest[slug] * Hour < d => hours' = Rejected
    BY <2>1, HoursForFits
  <2>4. FewestHoursThatCover'
    BY <2>1, <2>2, <2>3 DEF FewestHoursThatCover
  <2>5. ServesWhatItOffers'
    BY <2>1, <2>3 DEF ServesWhatItOffers
  <2>6. Typed'
    BY <2>1, <2>2, <2>3 DEF Typed
  <2> QED
    BY <2>4, <2>5, <2>6 DEF Inv
<1> QED
  BY <1>1, <1>2 DEF LeaseNext

LEMMA InvInit == LeaseInit => Inv
<1> SUFFICES ASSUME LeaseInit PROVE Inv
  OBVIOUS
<1>1. Longest["aws-sandbox"] = 9
  BY DEF Longest, Slugs
<1>2. Hour \in Nat /\ Hour > 0
  BY LeaseAssumption
<1>3. ServesWhatItOffers
  BY <1>1, <1>2, LeaseAssumption DEF LeaseInit, ServesWhatItOffers
<1> QED
  BY <1>2, <1>3, LeaseAssumption DEF LeaseInit, Inv, Typed, Slugs, FewestHoursThatCover

(***************************************************************************)
(* The hours sent are the fewest that cover what was asked for, whatever   *)
(* the unit in which durations are counted.                                *)
(***************************************************************************)
THEOREM RoundsUpTightly == LeaseSpec => []FewestHoursThatCover
<1>1. Inv => FewestHoursThatCover
  BY DEF Inv
<1> QED
  BY InvInit, InvStep, <1>1, PTL DEF LeaseSpec

(***************************************************************************)
(* Every lab serves the lifetimes it offers, the longest included, and     *)
(* refuses longer ones and those that are not positive.                    *)
(***************************************************************************)
THEOREM ServesTheOffer == LeaseSpec => []ServesWhatItOffers
<1>1. Inv => ServesWhatItOffers
  BY DEF Inv
<1> QED
  BY InvInit, InvStep, <1>1, PTL DEF LeaseSpec
=============================================================================
