----------------------------- MODULE QuietHours -----------------------------
(***************************************************************************)
(* src/util/quietHours.js: the window of local time in which a merchant    *)
(* lets no call be placed.  Everything here is a pure function of a window  *)
(* and of the current minute of the day; the clock itself and the time zone *)
(* conversion (Intl.DateTimeFormat) stay outside and hand over `cur`.       *)
(*                                                                         *)
(* A window is [enabled, start, end]; start and end are the two numbers of  *)
(* an "HH:MM" text.  A text the regular expression rejects parses to the    *)
(* same null as an hour or a minute out of range, so a pair out of range    *)
(* stands for both.                                                         *)
(***************************************************************************)
EXTENDS Integers

CONSTANTS HoursPerDay, MinutesPerHour

ASSUME ClockAssumption == /\ HoursPerDay \in Nat \ {0}
                          /\ MinutesPerHour \in Nat \ {0}

Day == HoursPerDay * MinutesPerHour

\* The null of parseHHMM.
Malformed == -1

Window == [enabled : BOOLEAN, start : Nat \X Nat, end : Nat \X Nat]

ParseHHMM(s) ==
  IF s[1] > HoursPerDay - 1 \/ s[2] > MinutesPerHour - 1
    THEN Malformed
    ELSE s[1] * MinutesPerHour + s[2]

\* A slip: the end minute itself counts as quiet.
InWindow_EndInclusive(start, end, cur) ==
  IF start < end THEN cur >= start /\ cur <= end
                 ELSE cur >= start \/ cur <= end

\* A slip: a window that wraps midnight is read as an empty interval.
InWindow_NoWrap(start, end, cur) == cur >= start /\ cur < end

\* The two comparisons that end isQuietNow: a same-day window is an interval,
\* a window whose start is after its end wraps past midnight.
InWindow(start, end, cur) ==
  IF start < end THEN cur >= start /\ cur < end
                 ELSE cur >= start \/ cur < end

Usable(w) == /\ w.enabled
             /\ ParseHHMM(w.start) # Malformed
             /\ ParseHHMM(w.end) # Malformed
             /\ ParseHHMM(w.start) # ParseHHMM(w.end)

IsQuietNow(w, cur) ==
  Usable(w) /\ InWindow(ParseHHMM(w.start), ParseHHMM(w.end), cur)

\* A slip: the distance is taken without the wrap past midnight.
Delta_NoWrap(end, cur) == IF cur < end THEN end - cur ELSE Day - cur

\* nextWindowEnd adds this many minutes to now, for an end minute.
Delta(end, cur) == IF cur < end THEN end - cur ELSE Day - cur + end

\* 0 is the null returned outside the window.
NextWindowEnd(w, cur) ==
  IF ~IsQuietNow(w, cur) THEN 0 ELSE Delta(ParseHHMM(w.end), cur)

\* The minute of the day i minutes after cur (i is at most one day).
MinuteAfter(cur, i) == IF cur + i < Day THEN cur + i ELSE cur + i - Day
=============================================================================
