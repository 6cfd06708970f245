-------------------------------- MODULE Hours --------------------------------
(***************************************************************************)
(* Opening hours (apps/api/src/services/hours.ts): is the tenant taking    *)
(* calls at an instant?  An instant is what localParts() makes of the      *)
(* clock in the tenant's time zone: day of week, date, minute of the day.  *)
(* The length of a day is a constant, so that a check can use a short one. *)
(***************************************************************************)
EXTENDS Naturals

CONSTANTS
  Dates,      \* calendar dates
  DayLength   \* minutes of a day (1440)

ASSUME HoursAssumption == DayLength \in Nat \ {0}

Minutes == 0..(DayLength - 1)

\* A bound of a window may name midnight at the end of the day ("24:00").
Window == [dow: 0..6, from: 0..DayLength, to: 0..DayLength]

Modes == {"off", "auto", "open", "closed", "emergency"}

HoursConfig == [mode: Modes, open: SUBSET Window, holidays: SUBSET Dates]

Instant == [dow: 0..6, date: Dates, minutes: Minutes]

\* Mutant: the last minute belongs to the window.
InWindowClosed(w, now) ==
  w.dow = now.dow /\ w.from <= now.minutes /\ now.minutes <= w.to

InWindow(w, now) ==
  w.dow = now.dow /\ w.from <= now.minutes /\ now.minutes < w.to

\* What the caller is told: the closing and the emergency message differ.
OpenState(hours, now) ==
  IF hours.mode \in {"off", "open"} THEN "open"
  ELSE IF hours.mode = "emergency" THEN "emergency"
  ELSE IF hours.mode = "closed" \/ now.date \in hours.holidays THEN "closed"
  ELSE IF \E w \in hours.open : InWindow(w, now) THEN "open" ELSE "closed"

\* The minutes of a day of the week that the windows cover.
OpenMinutes(windows, dow) ==
  UNION {w.from .. (w.to - 1) : w \in {x \in windows : x.dow = dow /\ x.to > 0}}

\* On schedule, a day is open exactly as long as its windows cover it: windows that
\* touch or overlap count once and leave no gap between them, "24:00" reaches the end
\* of the day, an empty or reversed window opens nothing, and a holiday closes it all
\* (hours.ts, the half-open comparison).
ScheduleIsCover(days, windows) ==
  \A cfg \in [mode: {"auto"}, open: SUBSET windows, holidays: SUBSET Dates] :
    \A d \in days, date \in Dates :
      {m \in Minutes : OpenState(cfg, [dow |-> d, date |-> date, minutes |-> m]) = "open"}
        = IF date \in cfg.holidays THEN {} ELSE OpenMinutes(cfg.open, d)
==============================================================================
