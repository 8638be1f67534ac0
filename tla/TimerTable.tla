----------------------------- MODULE TimerTable -----------------------------
(***************************************************************************)
(* What lib/timer.h promises of the timers, without the list, its pointers *)
(* and its pass: at most one timer per callback, each with an interval and *)
(* a start time; a callback runs only when its interval has elapsed since  *)
(* its start, and its start then moves on by exactly one interval.         *)
(***************************************************************************)
EXTENDS Integers

CONSTANTS Callbacks,  \* the callback functions
          Intervals,  \* the intervals they are set with, in seconds
          NULL        \* no timer, no callback

VARIABLES now,      \* true time in seconds
          timers,   \* the timer of each callback, or NULL
          running   \* the callback that is running, or NULL

vars == <<now, timers, running>>
----------------------------------------------------------------------------
Active == {c \in Callbacks : timers[c] # NULL}

Init ==
    /\ now = 0
    /\ timers = [c \in Callbacks |-> NULL]
    /\ running = NULL

Tick ==
    /\ now' = now + 1
    /\ UNCHANGED <<timers, running>>

Set(c, i) ==
    /\ c # running
    /\ timers' = [timers EXCEPT ![c] = [start |-> now, interval |-> i]]
    /\ UNCHANGED <<now, running>>

Clear(c) ==
    /\ c \in Active \ {running}
    /\ timers' = [timers EXCEPT ![c] = NULL]
    /\ UNCHANGED <<now, running>>

Restart(c) ==
    /\ c \in Active \ {running}
    /\ timers' = [timers EXCEPT ![c].start = now]
    /\ UNCHANGED <<now, running>>

Fire(c) ==
    /\ running = NULL
    /\ c \in Active
    /\ now - timers[c].start >= timers[c].interval
    /\ running' = c
    /\ UNCHANGED <<now, timers>>

\* The callback returns: whether it wants to be run again.
Return(again) ==
    /\ running # NULL
    /\ timers' = [timers EXCEPT ![running] =
                    IF again THEN [start    |-> timers[running].start + timers[running].interval,
                                   interval |-> timers[running].interval]
                    ELSE NULL]
    /\ running' = NULL
    /\ UNCHANGED now

Next ==
    \/ Tick
    \/ \E c \in Callbacks, i \in Intervals : Set(c, i)
    \/ \E c \in Callbacks : Clear(c) \/ Restart(c) \/ Fire(c)
    \/ \E again \in BOOLEAN : Return(again)

Spec == Init /\ [][Next]_vars
----------------------------------------------------------------------------
\* No timer starts in the future: elapsed time is never negative, so the
\* unsigned difference of the implementation means what it says.
StartNotInFuture ==
    \A c \in Active : timers[c].start <= now
=============================================================================
