---------------------------- MODULE FeedSchedule ----------------------------
(***************************************************************************)
(* The rotation calendar of the oracle-feed service (expiry.ts): for each  *)
(* cadence tier the expiries the manager wants to exist, and the tier an   *)
(* already existing oracle is slotted into.  Times are milliseconds since  *)
(* the epoch; a UTC date is the quotient and remainder of a time by a day. *)
(***************************************************************************)
EXTENDS Integers, Sequences

MsMin == 60000
MsHour == 3600000
MsDay == 86400000
MsQuarter == 900000

AllTiers == {"15m", "1h", "1d", "1w"}
NoTier == "none"

\* Date.UTC of the day of t, and getUTCDay: the epoch was a Thursday, day 4.
Midnight(t) == (t \div MsDay) * MsDay
DayOfWeek(t) == ((t \div MsDay) + 4) % 7

Next15m(t) == (t \div MsQuarter) * MsQuarter + MsQuarter
Next1h(t) == (t \div MsHour) * MsHour + MsHour

\* 08:00 UTC of the day of t.
EightOClock(t) == Midnight(t) + 8 * MsHour

Next1d(t) ==
    IF EightOClock(t) > t THEN EightOClock(t) ELSE EightOClock(t) + MsDay

\* (5 - dow + 7) % 7 || 7
DaysUntilFriday(t) ==
    LET d == (12 - DayOfWeek(t)) % 7 IN IF d = 0 THEN 7 ELSE d

Next1w(t) ==
    IF DayOfWeek(t) = 5 /\ EightOClock(t) > t
    THEN EightOClock(t)
    ELSE EightOClock(t) + DaysUntilFriday(t) * MsDay

NextOf(tier, t) ==
    CASE tier = "15m" -> Next15m(t)
      [] tier = "1h" -> Next1h(t)
      [] tier = "1d" -> Next1d(t)
      [] tier = "1w" -> Next1w(t)

StepOf(tier) ==
    CASE tier = "15m" -> MsQuarter
      [] tier = "1h" -> MsHour
      [] tier = "1d" -> MsDay
      [] tier = "1w" -> 7 * MsDay

\* expectedExpiriesForTier: the next "count" expiries after now + lookahead.
ExpectedExpiriesForTier(tier, t, count, lookahead) ==
    [i \in 1 .. count |-> NextOf(tier, t + lookahead) + (i - 1) * StepOf(tier)]

\* The tests inferTier makes on the date of an expiry.
OnMinute(t) == t % MsMin = 0
AtEight(t) == t % MsDay = 8 * MsHour

\* inferTier: the coarsest enabled tier whose schedule holds the expiry.
InferTier(t, enabled) ==
    IF ~OnMinute(t) THEN NoTier
    ELSE IF "1w" \in enabled /\ DayOfWeek(t) = 5 /\ AtEight(t) THEN "1w"
    ELSE IF "1d" \in enabled /\ AtEight(t) THEN "1d"
    ELSE IF "1h" \in enabled /\ t % MsHour = 0 THEN "1h"
    ELSE IF "15m" \in enabled /\ t % MsQuarter = 0 THEN "15m"
    ELSE NoTier
=============================================================================
