-------------------------------- MODULE Days --------------------------------
(***************************************************************************)
(* The day of a timestamp, which is written with every point; the Reader   *)
(* of a chunk file computes it again, perhaps after a restart, and takes   *)
(* the file to end at the first record where it differs.                   *)
(*                                                                         *)
(* Time is counted in hours.  A zone [base, shift, at] is its offset from  *)
(* UTC and one change by shift at the hour at, whatever the hour: some     *)
(* zones change their clocks at midnight.                                  *)
(***************************************************************************)
EXTENDS Integers

Hours == 24
Margin == 10

Local(zone, t) == t + zone.base + (IF t >= zone.at THEN zone.shift ELSE 0)
\* uint16 of a day before the epoch wraps
SlowTimestampToDays(zone, t) == (Local(zone, t) \div Hours) % 65536
UTCTimestampToDays(t) == t \div Hours

\* daysTimestampStart[i], from time.Date: of a midnight that does not exist or comes twice
\* Go's library promises either of the two offsets, and takes that of the clock reading as
\* if it were UTC, or the one before or after it if the time then found is across the change.
DayStart(zone, i) ==
  LET u == Hours * i
      Off(t) == zone.base + (IF t >= zone.at THEN zone.shift ELSE 0)
      guess == u - Off(u)
  IN IF guess >= zone.at <=> u >= zone.at THEN guess ELSE u - Off(guess)
\* from the day in UTC down or up; size is len(daysTimestampStart)
StepsDown(zone, size, t) ==                  \* mutant: never steps up
  LET find[i \in 0 .. size - 1] == IF t < DayStart(zone, i) THEN find[i - 1] ELSE i
  IN find[t \div Hours]
FindLoop(zone, size, t) ==
  LET find[i \in 0 .. size - 1] == IF t < DayStart(zone, i) THEN find[i - 1]
                                   ELSE IF t >= DayStart(zone, i + 1) THEN find[i + 1]
                                   ELSE i
  IN find[t \div Hours]
PrecalcTimestampToDays(zone, size, t) ==
  IF t \div Hours < Margin \/ t \div Hours > size - Margin THEN SlowTimestampToDays(zone, t)
  ELSE FindLoop(zone, size, t) % 65536
-----------------------------------------------------------------------------
\* The hours around a midnight that the change of the clock skips or repeats.  It may mean
\* an early or a late hour, and the table takes the early one if midnight in UTC is before
\* the change, as to the west of Greenwich: a skipped day then begins too early (too late to
\* the east), and a repeated one has begun although the clock is set back (or not yet).
Misdated(zone, t) ==
  \E i \in {t \div Hours, t \div Hours + 1} :
    LET midnight == Hours * i - zone.base
        early == IF zone.shift > 0 THEN midnight - zone.shift ELSE midnight
        late  == IF zone.shift > 0 THEN midnight ELSE midnight - zone.shift
    IN /\ early < zone.at /\ zone.at <= late
       /\ IF Hours * i < zone.at <=> zone.shift > 0 THEN early <= t /\ t < zone.at
                                                    ELSE zone.at <= t /\ t < late

\* The table gives the day on the calendar of the zone for all but those hours, and is at
\* most one off the day in UTC.  A time beyond the table gets the day on the calendar, and
\* so a table that is longer after a restart changes the day of those hours only.
DaysAgree(zone, size, t) ==
  LET day == t \div Hours
  IN /\ PrecalcTimestampToDays(zone, size, t) = SlowTimestampToDays(zone, t)
          <=> day < Margin \/ day > size - Margin \/ ~Misdated(zone, t)
     /\ day >= Margin => PrecalcTimestampToDays(zone, size, t) - UTCTimestampToDays(t) \in {-1, 0, 1}
=============================================================================
