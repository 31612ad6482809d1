------------------------------- MODULE Timers -------------------------------
(***************************************************************************)
(* The timers of one process (src/timers.c): pr_timer_add(),               *)
(* pr_timer_remove(), pr_timer_reset(), pr_timer_sleep(), the SIGALRM that *)
(* drives them and the dispatch of their callbacks.                        *)
(*                                                                         *)
(* Callers, the clock and SIGALRM interleave.  A call is one step unless   *)
(* process_timers() runs callbacks: then the dispatch is a sequence of     *)
(* steps, in which the callbacks may call the API again.  Times are        *)
(* relative to now and saturate at MaxInterval, beyond which they make no  *)
(* difference: an elapsed time of MaxInterval expires every timer.         *)
(***************************************************************************)
EXTENDS Naturals, Integers, SequencesExt

CONSTANTS
  Ids,            \* timer IDs chosen by callers
  Mods,           \* modules that own timers
  MaxInterval,    \* longest interval
  MaxStarts       \* bound on the calls that start or reset a timer

ASSUME TimersAssumption ==
  /\ Ids \subseteq 0..1023
  /\ MaxInterval \in Nat \ {0}
  /\ MaxStarts \in Nat

VARIABLES
  timers,         \* timers: registered timers, sorted by count
  recycled,       \* recycled: added or restarted, not yet on timers
  mode,           \* "idle", or _indispatch: "walk" or "callback"
  at,             \* the position of the walk in timers
  elapsed,        \* the argument of process_timers()
  since,          \* time since _alarmed_time, -1 if that is 0
  total,          \* _total_time
  cur,            \* _current_timeout
  alarm,          \* seconds until SIGALRM, 0 if none is scheduled
  nalarms,        \* nalarms # 0
  blocked,        \* alarms_blocked # 0 outside the functions of timers.c
  pending,        \* alarm_pending # 0
  sleeper,        \* state of pr_timer_sleep(), and its timer
  starts,         \* calls so far that started or reset a timer
  cancelled,      \* timers whose removal was reported to the caller
  slow            \* a callback took time

vars == <<timers, recycled, mode, at, elapsed, since, total, cur, alarm,
          nalarms, blocked, pending, sleeper, starts, cancelled, slow>>

AnyModule == "ANY_MODULE"
NoTimer == -1
Dynamic == -1        \* timerno < 0: choose an ID, or remove all
Intervals == 1..MaxInterval
Sat(n) == IF n > MaxInterval THEN MaxInterval ELSE n

\* A timer: due is when it should fire, seq tells the timers apart that are
\* given the same ID one after the other.
Timer == [timerno : Nat, mod : Mods \cup {"none"}, interval : Intervals,
          count : (-MaxInterval)..MaxInterval, remove : BOOLEAN,
          due : 0..MaxInterval, seq : Nat]

Matches(t, id, m) == (id < 0 \/ t.timerno = id) /\ (m = AnyModule \/ t.mod = m)
InUse(id) == \E i \in DOMAIN timers : timers[i].timerno = id
NextDynamic == 1024 + starts

\* Mutant of xaset_insert_sort: append.
InsertLast(ts, t) == Append(ts, t)

\* Before the first timer that is not less.
xaset_insert_sort(ts, t) ==
  LET i == SelectInSeq(ts, LAMBDA u : t.count <= u.count)
  IN  IF i = 0 THEN Append(ts, t) ELSE InsertAt(ts, i, t)

Restarted(t) == [t EXCEPT !.count = t.interval, !.due = t.interval]
FirstCount(ts) == IF ts = <<>> THEN 0 ELSE ts[1].count

-----------------------------------------------------------------------------
(* Dispatch.                                                               *)

\* The end of process_timers() and handle_alarm(): recycled timers go back
\* on the list, and the alarm is set for the first one.
Finish(ts, rec) ==
  LET all == FoldLeft(xaset_insert_sort, ts, rec)
  IN  /\ timers' = all
      /\ recycled' = <<>>
      /\ mode' = "idle" /\ at' = 0 /\ elapsed' = 0
      /\ since' = 0
      /\ cur' = FirstCount(all) /\ alarm' = FirstCount(all)

\* The unblocked part of handle_alarm(): process_timers() is called with the
\* time since the last alarm, unless that is 0.
Dispatch(ts, rec) ==
  LET e == Sat(total + (IF since < 0 THEN 0 ELSE since))
  IN  /\ pending' = FALSE
      /\ total' = 0
      /\ IF e = 0
           THEN Finish(ts, rec)
           ELSE /\ timers' = ts /\ recycled' = rec
                /\ mode' = "walk" /\ at' = 1 /\ elapsed' = e
                /\ alarm' = 0
                /\ UNCHANGED <<since, cur>>

Postpone(ts, rec, later) ==
  /\ pending' = later
  /\ timers' = ts /\ recycled' = rec
  /\ UNCHANGED <<mode, at, elapsed, since, total, cur, alarm>>

\* Mutant of handle_alarm: while blocked, the alarm is dropped.
DropAlarm(ts, rec, blk) ==
  /\ nalarms' = FALSE
  /\ IF blk THEN Postpone(ts, rec, pending) ELSE Dispatch(ts, rec)

\* handle_alarm(), the lists being ts and rec.  While alarms are blocked (blk)
\* it is left to pr_alarms_unblock().
handle_alarm(ts, rec, blk) ==
  /\ nalarms' = FALSE
  /\ IF blk THEN Postpone(ts, rec, TRUE) ELSE Dispatch(ts, rec)

\* Mutant of Marked: the mark is not looked at.
MarkIgnored(t) == FALSE

\* t->remove: a callback of this dispatch removed the timer.
Marked(t) == t.remove

\* Mutant of AfterRemoved: the timer after a removed one is skipped.
SkipAfterRemoved(i) == i + 1

\* Where the walk goes on after timer i was taken off the list.
AfterRemoved(i) == i

\* One iteration of the loop of process_timers(), up to the callback.
process_timers ==
  /\ mode = "walk"
  /\ IF at > Len(timers)
       THEN Finish(timers, recycled)
       ELSE LET t == [timers[at] EXCEPT !.count = @ - elapsed]
            IN  /\ \/ /\ Marked(t)
                      /\ timers' = RemoveAt(timers, at)
                      /\ at' = AfterRemoved(at)
                      /\ UNCHANGED mode
                   \/ /\ ~Marked(t)
                      /\ timers' = [timers EXCEPT ![at] = t]
                      /\ at' = IF t.count <= 0 THEN at ELSE at + 1
                      /\ mode' = IF t.count <= 0 THEN "callback" ELSE "walk"
                /\ UNCHANGED <<recycled, elapsed, since, cur, alarm>>
  /\ UNCHANGED <<total, nalarms, blocked, pending, sleeper, starts, cancelled, slow>>

\* The callback returns: 0 ends the timer, anything else restarts it.
\* sleep_cb() always returns 0.
CallbackReturn(restart) ==
  /\ mode = "callback"
  /\ restart => sleeper.timerno # timers[at].timerno
  /\ mode' = "walk"
  /\ timers' = RemoveAt(timers, at)
  /\ recycled' = IF restart THEN <<Restarted(timers[at])>> \o recycled
                            ELSE recycled
  /\ sleeper' = IF sleeper.timerno = timers[at].timerno
                  THEN [pc |-> "awake", timerno |-> NoTimer] ELSE sleeper
  /\ UNCHANGED <<at, elapsed, since, total, cur, alarm, nalarms, blocked,
                 pending, starts, cancelled, slow>>

-----------------------------------------------------------------------------
(* The API.  Callers run outside of a dispatch, or are callbacks.  The one *)
(* call that is made while alarms are blocked, other than by a callback,   *)
(* is a pr_timer_remove() by ctrls_restart_ev() (modules/mod_ctrls.c).     *)

Running == mode = "callback" \/ (mode = "idle" /\ sleeper.pc = "awake")

NewTimer(sec, id, m) ==
  [timerno |-> IF id < 0 THEN NextDynamic ELSE id, mod |-> m,
   interval |-> sec, count |-> sec, remove |-> FALSE, due |-> sec,
   seq |-> starts]

\* Put a new timer on the right list; outside of a dispatch, adjust the alarm.
Insert(t) ==
  /\ starts' = starts + 1
  /\ IF mode = "callback"
       THEN /\ recycled' = <<t>> \o recycled
            /\ UNCHANGED <<timers, mode, at, elapsed, since, total, cur, alarm,
                           nalarms, pending>>
       ELSE handle_alarm(xaset_insert_sort(timers, t), recycled, blocked)

pr_timer_add(sec, id, m) ==
  /\ Running /\ ~blocked /\ starts < MaxStarts
  /\ id >= 0 => ~InUse(id)                        \* else EPERM
  /\ Insert(NewTimer(sec, id, m))
  /\ UNCHANGED <<blocked, sleeper, cancelled, slow>>

\* The timers that pr_timer_remove(id, m) reaches: the first match, or all.
Removed(id, m) ==
  LET match == {i \in DOMAIN timers : Matches(timers[i], id, m)}
  IN  {i \in match : id < 0 \/ \A j \in match : i <= j}

\* In a dispatch timers are only marked, for process_timers() to remove them.
pr_timer_remove(id, m) ==
  /\ Running
  /\ Removed(id, m) # {}                          \* else ENOENT
  /\ cancelled' = cancelled \cup {timers[i].seq : i \in Removed(id, m)}
  /\ IF mode = "callback"
       THEN /\ timers' = [i \in DOMAIN timers |->
                 [timers[i] EXCEPT !.remove = @ \/ i \in Removed(id, m)]]
            /\ UNCHANGED <<recycled, mode, at, elapsed, since, total, cur,
                           alarm, nalarms, pending>>
       ELSE handle_alarm(SelectSeq(timers,
              LAMBDA t : \A i \in Removed(id, m) : timers[i] # t),
              recycled, blocked)
  /\ UNCHANGED <<blocked, sleeper, starts, slow>>

\* Back to the full interval.  EINTR in a dispatch.
pr_timer_reset(id, m) ==
  /\ Running /\ mode = "idle" /\ ~blocked /\ starts < MaxStarts
  /\ starts' = starts + 1
  /\ LET i == SelectInSeq(timers, LAMBDA t : Matches(t, id, m))
     IN  /\ i # 0
         /\ handle_alarm(RemoveAt(timers, i), <<Restarted(timers[i])>> \o recycled,
                         blocked)
  /\ UNCHANGED <<blocked, sleeper, cancelled, slow>>

pr_alarms_block ==
  /\ Running /\ mode = "idle" /\ ~blocked
  /\ blocked' = TRUE
  /\ UNCHANGED <<timers, recycled, mode, at, elapsed, since, total, cur, alarm,
                 nalarms, pending, sleeper, starts, cancelled, slow>>

pr_alarms_unblock ==
  /\ Running /\ mode = "idle" /\ blocked
  /\ blocked' = FALSE
  /\ IF pending
       THEN handle_alarm(timers, recycled, FALSE)
       ELSE UNCHANGED <<timers, recycled, mode, at, elapsed, since, total, cur,
                        alarm, nalarms, pending>>
  /\ UNCHANGED <<sleeper, starts, cancelled, slow>>

\* pr_signals_handle() finds RECEIVED_SIG_ALRM set.
HandleSignal ==
  /\ mode = "idle" /\ sleeper.pc = "awake" /\ nalarms
  /\ handle_alarm(timers, recycled, blocked)
  /\ UNCHANGED <<blocked, sleeper, starts, cancelled, slow>>

\* pr_timer_sleep(): EPERM in a callback or while alarms are blocked.
pr_timer_sleep(sec) ==
  /\ Running /\ mode = "idle" /\ ~blocked /\ starts < MaxStarts
  /\ sleeper' = [pc |-> "loop", timerno |-> NextDynamic]
  /\ Insert(NewTimer(sec, Dynamic, "none"))
  /\ UNCHANGED <<blocked, cancelled, slow>>

\* sigsuspend(): an alarm that went off before it does not wake it.
SleepSuspend ==
  /\ mode = "idle" /\ sleeper.pc = "loop"
  /\ sleeper' = [sleeper EXCEPT !.pc = "suspended"]
  /\ UNCHANGED <<timers, recycled, mode, at, elapsed, since, total, cur, alarm,
                 nalarms, blocked, pending, starts, cancelled, slow>>

SleepHandle ==
  /\ mode = "idle" /\ sleeper.pc = "woken"
  /\ sleeper' = [sleeper EXCEPT !.pc = "loop"]
  /\ handle_alarm(timers, recycled, blocked)
  /\ UNCHANGED <<blocked, starts, cancelled, slow>>

\* The child of a fork() starts with no timers, and with no alarm.
timers_init ==
  /\ Running /\ mode = "idle" /\ ~blocked
  /\ timers' = <<>> /\ recycled' = <<>>
  /\ cur' = 0 /\ total' = 0 /\ nalarms' = FALSE /\ since' = -1 /\ alarm' = 0
  /\ UNCHANGED <<mode, at, elapsed, blocked, pending, sleeper, starts, cancelled, slow>>

-----------------------------------------------------------------------------
(* Time.                                                                   *)

\* Mutant of sig_alarm: the alarm is not set again.
SigAlarmOnce ==
  /\ nalarms' = TRUE
  /\ total' = Sat(total + cur)
  /\ since' = 0
  /\ alarm' = 0

\* The handler of SIGALRM.
sig_alarm ==
  /\ nalarms' = TRUE
  /\ total' = Sat(total + cur)
  /\ since' = 0
  /\ alarm' = cur

Aged(ts) == [i \in DOMAIN ts |->
  [ts[i] EXCEPT !.due = IF @ > 0 THEN @ - 1 ELSE 0]]

\* A second passes.
Tick ==
  /\ mode \in {"idle", "callback"}
  /\ slow' = (slow \/ mode = "callback")
  /\ timers' = Aged(timers) /\ recycled' = Aged(recycled)
  /\ IF alarm = 1
       THEN sig_alarm
       ELSE /\ alarm' = IF alarm = 0 THEN 0 ELSE alarm - 1
            /\ since' = IF since < 0 THEN since ELSE Sat(since + 1)
            /\ UNCHANGED <<nalarms, total>>
  /\ sleeper' = IF alarm = 1 /\ sleeper.pc = "suspended"
                  THEN [sleeper EXCEPT !.pc = "woken"] ELSE sleeper
  /\ UNCHANGED <<mode, at, elapsed, cur, blocked, pending, starts, cancelled>>

-----------------------------------------------------------------------------
Init ==
  /\ timers = <<>> /\ recycled = <<>>
  /\ mode = "idle" /\ at = 0 /\ elapsed = 0
  /\ since = -1 /\ total = 0 /\ cur = 0 /\ alarm = 0
  /\ nalarms = FALSE /\ blocked = FALSE /\ pending = FALSE
  /\ sleeper = [pc |-> "awake", timerno |-> NoTimer]
  /\ starts = 0 /\ cancelled = {} /\ slow = FALSE

Engine == \/ process_timers
          \/ \E restart \in BOOLEAN : CallbackReturn(restart)
          \/ HandleSignal \/ SleepSuspend \/ SleepHandle

Calls ==
  \/ \E sec \in Intervals, id \in Ids \cup {Dynamic}, m \in Mods :
       pr_timer_add(sec, id, m)
  \/ \E id \in Ids, m \in Mods \cup {AnyModule} :
       pr_timer_remove(id, m) \/ pr_timer_reset(id, m)
  \/ \E m \in Mods : pr_timer_remove(Dynamic, m)
  \/ \E sec \in Intervals : pr_timer_sleep(sec)
  \/ pr_alarms_block \/ pr_alarms_unblock \/ timers_init

Next == Engine \/ Calls \/ Tick
Spec == Init /\ [][Next]_vars

\* Time passes, signals are handled at the next pr_signals_handle(), callbacks
\* return, and a section with alarms blocked comes to an end.
Fairness == WF_vars(Tick) /\ WF_vars(Engine) /\ WF_vars(pr_alarms_unblock)
FairSpec == Spec /\ Fairness

-----------------------------------------------------------------------------
(* Properties.                                                             *)

\* Type invariant: the walk of process_timers() stays on the list, whatever
\* the callbacks add and remove; counts and times stay within an interval.
TypeOK ==
  /\ timers \in Seq(Timer) /\ recycled \in Seq(Timer)
  /\ mode \in {"idle", "walk", "callback"}
  /\ at \in 0..(Len(timers) + 1) /\ elapsed \in 0..MaxInterval
  /\ since \in -1..MaxInterval /\ total \in 0..MaxInterval
  /\ cur \in 0..MaxInterval /\ alarm \in 0..MaxInterval
  /\ nalarms \in BOOLEAN /\ blocked \in BOOLEAN /\ pending \in BOOLEAN
  /\ sleeper \in [pc : {"awake", "loop", "suspended", "woken"},
                  timerno : Nat \cup {NoTimer}]
  /\ starts \in 0..MaxStarts /\ cancelled \subseteq 0..(MaxStarts - 1)
  /\ slow \in BOOLEAN

Settled == mode = "idle" /\ ~nalarms /\ ~blocked /\ ~pending

\* No lost wakeup: the walk of process_timers() stays on the list and, unless a
\* signal is still to be handled, the alarm is set exactly for the first timer,
\* which is the one with the least time left.
ArmedForNext ==
  /\ TypeOK
  /\ Settled /\ timers # <<>> =>
       /\ alarm = timers[1].count - since /\ alarm > 0
       /\ \A i \in DOMAIN timers : timers[1].count <= timers[i].count
       /\ recycled = <<>>

\* A timer whose removal pr_timer_remove() reported is not called any more,
\* also when it was removed by the callback of another one in the same
\* dispatch, or was about to be restarted.
RemovedNeverFires ==
  [][mode' = "callback" /\ mode = "walk" =>
       timers[at].seq \notin cancelled]_vars

\* Unless a callback took time, no timer is overdue once signals are handled.
NeverLate ==
  ~slow /\ Settled => \A i \in DOMAIN timers : timers[i].due > 0

\* "ALL timers associated with the given module will be removed."
\* (include/timers.h)
RemoveAllRemoves ==
  [][\A m \in Mods : pr_timer_remove(Dynamic, m) =>
       \A i \in DOMAIN recycled' : recycled'[i].mod # m]_vars

Listed(n) == \E i \in DOMAIN (timers \o recycled) : (timers \o recycled)[i].seq = n

\* Every timer that pr_timer_add() accepted is called or removed in the end:
\* no SIGALRM is lost to a dispatch, to blocked alarms or to a busy process.
TimersFire ==
  \A n \in 0..(MaxStarts - 1) :
    Listed(n) ~> ~Listed(n) \/ (mode = "callback" /\ timers[at].seq = n)

\* pr_timer_sleep() returns, also if the SIGALRM it waits for arrives just
\* before sigsuspend(): sig_alarm() sets the alarm again.
SleepEnds == sleeper.pc # "awake" ~> sleeper.pc = "awake"
=============================================================================
