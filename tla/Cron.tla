-------------------------------- MODULE Cron --------------------------------
(***************************************************************************)
(* The cron schedule of an activation (activations/schedule.py): the ticks *)
(* of the scheduler that start its runs, and the next run that the page    *)
(* shows, which is found by another search.                                *)
(*                                                                         *)
(* Time is in minutes; a tick happens in a minute, or several, or none.  A *)
(* zone is the sequence of the local times of the minutes: it skips local  *)
(* times in spring and repeats them in autumn.  A local time is a number   *)
(* too, days of DayLength minutes one after the other; hours and minutes   *)
(* of a cron expression are one set of times of the day.                   *)
(***************************************************************************)
EXTENDS Integers, FiniteSets, FiniteSetsExt

CONSTANTS
    DayLength,      \* minutes of a day
    MaxMinute,      \* bound on the minutes that pass
    Zones,          \* zone: minute -> local time
    Expressions     \* times, months, days, weekdays; are the last two "*"?

Minute == 1..MaxMinute

\* A clock that is put back shows again what it has shown before.
ASSUME CronAssumptions ==
    /\ {DayLength, MaxMinute} \subseteq Nat \ {0}
    /\ \A z \in Zones :
         /\ z \in [Minute -> Nat]
         /\ \A t, u \in Minute : u < t /\ z[t] < z[u] => \E v \in Minute : v < t /\ z[v] = z[t]

VARIABLES
    minute,     \* the clock
    cron,       \* the expression of the activation, and its zone
    enabled,    \* is_active
    windows,    \* scheduled_runs, and the windows of the audit rows of failures
    starts,     \* the minutes in which a tick has started a run, or said why not, and the window
    ticked,     \* the minutes with a tick since the schedule was last changed
    view        \* what the page last showed of the schedule as it is

cronVars == <<minute, cron, enabled, windows, starts, ticked, view>>

Schedules == [expression : Expressions, zone : Zones]

NoView == [at |-> 0, next |-> 0]
Never  == 0

CronInit ==
    /\ minute = 1
    /\ cron \in Schedules
    /\ enabled = TRUE
    /\ windows = {} /\ starts = {} /\ ticked = {} /\ view = NoView

-----------------------------------------------------------------------------
(* The two readings of a schedule. *)

DateOf(local) == local \div DayLength

\* Either of the two fields that say a day, if both do.
DateMatches(e, date) ==
    /\ date \in e.months
    /\ IF e.anyDay \/ e.anyWeekday
       THEN date \in e.days /\ date \in e.weekdays
       ELSE date \in e.days \/ date \in e.weekdays

Fits(e, local) == local % DayLength \in e.times /\ DateMatches(e, DateOf(local))

\* matches
Matches(c, t) == Fits(c.expression, c.zone[t])

\* The minute of a local time: the first of a repeated one, and for one that is
\* skipped a minute with another local time.
ToMinute(z, local) ==
    LET minutes == {t \in Minute : z[t] = local}
    IN  Min(IF minutes # {} THEN minutes ELSE {t \in Minute : z[t] > local})

\* Mutant: the minute is not turned back into a local time.
CandidateShifted(c, now, local) ==
    /\ Fits(c.expression, local)
    /\ ToMinute(c.zone, local) > now

Candidate(c, now, local) ==
    /\ Fits(c.expression, local)
    /\ ToMinute(c.zone, local) > now
    /\ c.zone[ToMinute(c.zone, local)] = local

\* next_run: the days from today on, and the times of each of them in order.
NextRun(c, now) ==
    LET today == DateOf(c.zone[now]) * DayLength
        found == {local \in today..Max({c.zone[t] : t \in Minute}) : Candidate(c, now, local)}
    IN  IF found = {} THEN Never ELSE ToMinute(c.zone, Min(found))

-----------------------------------------------------------------------------
(* The steps. *)

Pass ==
    /\ minute + 1 \in Minute
    /\ minute' = minute + 1
    /\ UNCHANGED <<cron, enabled, windows, starts, ticked, view>>

\* strftime: the local time.
Window(c, t) == c.zone[t]

\* tick_activations: a run is queued, or its failure is remembered; one window
\* has one of them.
Tick ==
    /\ ticked' = ticked \union {minute}
    /\ IF enabled /\ Matches(cron, minute) /\ Window(cron, minute) \notin windows
       THEN /\ windows' = windows \union {Window(cron, minute)}
            /\ starts' = starts \union {<<minute, cron.zone[minute]>>}
       ELSE UNCHANGED <<windows, starts>>
    /\ UNCHANGED <<minute, cron, enabled, view>>

\* PATCH /activations
Edit(e, z) ==
    /\ cron' = [expression |-> e, zone |-> z]
    /\ ticked' = {} /\ view' = NoView
    /\ UNCHANGED <<minute, enabled, windows, starts>>

Toggle ==
    /\ enabled' = ~enabled
    /\ ticked' = {} /\ view' = NoView
    /\ UNCHANGED <<minute, cron, windows, starts>>

\* GET /activations
View ==
    /\ enabled
    /\ view' = [at |-> minute, next |-> NextRun(cron, minute)]
    /\ UNCHANGED <<minute, cron, enabled, windows, starts, ticked>>

CronNext ==
    \/ Pass \/ Tick \/ Toggle \/ View
    \/ \E e \in Expressions, z \in Zones : Edit(e, z)

CronSpec == CronInit /\ [][CronNext]_cronVars

-----------------------------------------------------------------------------
(* What holds. *)

\* A local minute whose first pass is over.
Repeated(t) == \E u \in Minute : u < t /\ cron.zone[u] = cron.zone[t]

\* A local time starts one run, though the clock may show it twice; and ticks keep
\* what the page showed: if there is one in that minute, the window is settled, and
\* nothing starts between, but in the second pass of a minute.  A tick is needed in
\* that very minute: nothing makes up for a window no tick saw.
ShownIsKept ==
    /\ \A s, r \in starts : s[2] = r[2] => s = r
    /\ view # NoView =>
         /\ view.next \in ticked => Window(cron, view.next) \in windows
         /\ \A s \in starts :
              s[1] > view.at /\ (view.next = Never \/ s[1] < view.next) => Repeated(s[1])

=============================================================================
