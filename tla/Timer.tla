------------------------------- MODULE Timer -------------------------------
(***************************************************************************)
(* The software timers (lib/timer.c): a doubly linked list of heap nodes,  *)
(* walked by timer_periodic, which keeps two pointers into the list across *)
(* the callbacks it runs.  A callback may call every timer function; the   *)
(* operations of the main program happen between two passes.               *)
(*                                                                         *)
(* free makes a node available for any later calloc.  What is left in it   *)
(* is not modelled: after an access through a pointer to a node that is    *)
(* free, pc is "undefined" and the program takes no step.                  *)
(***************************************************************************)
EXTENDS Integers, FiniteSetsExt

CONSTANTS Callbacks, Intervals, NULL,
          Addr,          \* heap addresses of timer nodes
          TIME_MOD,      \* 2^32, the width of clock_timestamp_t
          MainOps,       \* operations the main program uses, and
          CallbackOps,   \* those that callbacks use
          CarefulOps,    \* those they keep off the nodes of the running pass
          TornGaps,      \* {} when clock_time is atomic; else byte weights
          MaxNow,        \* bound: seconds explored
          MaxCalls       \* bound: timer calls by one callback

ASSUME TimerAssumption ==
    /\ NULL \notin Callbacks \cup Addr
    /\ IsFiniteSet(Addr)
    /\ TIME_MOD \in Nat
    /\ Intervals \subseteq 1 .. TIME_MOD - 1
    /\ TornGaps \subseteq Nat \ {0}
    /\ MainOps \cup CallbackOps \subseteq {"set", "clear", "reset", "restart"}
    /\ CarefulOps \subseteq CallbackOps
    /\ MaxNow \in Nat /\ MaxNow < TIME_MOD

VARIABLES heap, timer_table,
          pc,          \* "main", "loop" (in a pass), "callback", "undefined"
          timer,       \* the two local variables of timer_periodic
          timer_next,
          now,         \* the time in seconds since boot
          carry,       \* the last step was a tick: a read may straddle it
          calls,       \* timer calls made by the running callback
          fires,       \* history: firings of a timer since it was last set or
          since        \* restarted, up to MaxNow + 1, and when that was

vars == <<heap, timer_table, pc, timer, timer_next, now, carry, calls, fires, since>>

Node == [live : BOOLEAN, start : 0 .. TIME_MOD - 1, interval : Intervals \cup {0},
         callback : Callbacks \cup {NULL}, prev : Addr \cup {NULL}, next : Addr \cup {NULL}]

FreeNode == [live |-> FALSE, start |-> 0, interval |-> 0, callback |-> NULL,
              prev |-> NULL, next |-> NULL]
----------------------------------------------------------------------------
\* What clock_time may return: the time, or, when the read straddles a tick
\* that carries into byte j, a time ahead by the weight of that byte less one.
ClockReads ==
    {now % TIME_MOD}
      \cup {(now + gap - 1) % TIME_MOD : gap \in {g \in TornGaps : carry /\ now % g = 0}}

\* The n-th node of the list, following the next pointers from the head.
NodeAt(h, head) ==
    LET at[n \in 0 .. Cardinality(Addr)] ==
            IF n = 0 THEN head
            ELSE IF at[n - 1] = NULL THEN NULL ELSE h[at[n - 1]].next
    IN  at

\* Nodes of the list, for as many steps as there are addresses.
Listed(h, head) == {NodeAt(h, head)[n] : n \in 0 .. Cardinality(Addr)} \ {NULL}

TimerGet(h, head, c) ==
    LET at   == NodeAt(h, head)
        hits == {n \in DOMAIN at : at[n] # NULL /\ h[at[n]].callback = c}
    IN  IF hits = {} THEN NULL ELSE at[Min(hits)]

\* Fault: the back pointer of the following node is left alone.
UnlinkForward(h, a) ==
    [[x \in Addr |-> [h[x] EXCEPT !.next = IF x = h[a].prev THEN h[a].next ELSE @]]
        EXCEPT ![a] = FreeNode]

\* The neighbours of a are linked to each other, and a is freed.
Unlink(h, a) ==
    [[x \in Addr |-> [h[x] EXCEPT !.next = IF x = h[a].prev THEN h[a].next ELSE @,
                                  !.prev = IF x = h[a].next THEN h[a].prev ELSE @]]
        EXCEPT ![a] = FreeNode]

HeadWithout(h, head, a) == IF a = head THEN h[a].next ELSE head

\* The list after timer_clear(c).
Cleared(c) ==
    LET a == TimerGet(heap, timer_table, c)
    IN  IF a = NULL THEN [heap |-> heap, head |-> timer_table]
        ELSE [heap |-> Unlink(heap, a), head |-> HeadWithout(heap, timer_table, a)]

\* A node for c in front of the list.
Inserted(list, b, c, i, start) ==
    [x \in Addr |->
        IF x = b THEN [live |-> TRUE, start |-> start, interval |-> i, callback |-> c,
                       prev |-> NULL, next |-> list.head]
        ELSE IF x = list.head THEN [list.heap[x] EXCEPT !.prev = b]
        ELSE list.heap[x]]

\* Fault: the old timer of the callback is left in the list.
TimerSetAgain(c, i) ==
    \E b \in {x \in Addr : ~ heap[x].live}, start \in ClockReads :
        /\ heap' = Inserted([heap |-> heap, head |-> timer_table], b, c, i, start)
        /\ timer_table' = b
        /\ fires' = [fires EXCEPT ![c] = 0]
        /\ since' = [since EXCEPT ![c] = now]

TimerSet(c, i) ==
    LET list == Cleared(c)
    IN  \E b \in {x \in Addr : ~ list.heap[x].live}, start \in ClockReads :
            /\ heap' = Inserted(list, b, c, i, start)
            /\ timer_table' = b
            /\ fires' = [fires EXCEPT ![c] = 0]
            /\ since' = [since EXCEPT ![c] = now]

TimerClear(c) ==
    /\ heap' = Cleared(c).heap
    /\ timer_table' = Cleared(c).head
    /\ fires' = [fires EXCEPT ![c] = 0]
    /\ since' = [since EXCEPT ![c] = 0]

TimerReset(c) ==
    LET a == TimerGet(heap, timer_table, c)
    IN  /\ heap' = IF a = NULL THEN heap
                   ELSE [heap EXCEPT ![a].start = (@ + heap[a].interval) % TIME_MOD]
        /\ UNCHANGED <<timer_table, fires, since>>

TimerRestart(c) ==
    LET a == TimerGet(heap, timer_table, c)
    IN  /\ IF a = NULL THEN UNCHANGED <<heap, fires, since>>
           ELSE \E start \in ClockReads :
                    /\ heap' = [heap EXCEPT ![a].start = start]
                    /\ fires' = [fires EXCEPT ![c] = 0]
                    /\ since' = [since EXCEPT ![c] = now]
        /\ UNCHANGED timer_table

\* One call of a timer function for callback c.
Call(ops, c) ==
    \/ "set" \in ops /\ \E i \in Intervals : TimerSet(c, i)
    \/ "clear" \in ops /\ TimerClear(c)
    \/ "reset" \in ops /\ TimerReset(c)
    \/ "restart" \in ops /\ TimerRestart(c)
----------------------------------------------------------------------------
Init ==
    /\ heap = [a \in Addr |-> FreeNode]
    /\ timer_table = NULL
    /\ pc = "main" /\ timer = NULL /\ timer_next = NULL
    /\ now = 0 /\ carry = FALSE /\ calls = 0
    /\ fires = [c \in Callbacks |-> 0]
    /\ since = [c \in Callbacks |-> 0]

\* The interrupt of the clock counts a second, whatever the program is doing.
Tick ==
    /\ pc # "undefined"
    /\ now < MaxNow
    /\ now' = now + 1
    /\ carry' = (TornGaps # {})
    /\ UNCHANGED <<heap, timer_table, pc, timer, timer_next, calls, fires, since>>

MainCall(c) ==
    /\ pc = "main"
    /\ Call(MainOps, c)
    /\ carry' = FALSE
    /\ UNCHANGED <<pc, timer, timer_next, now, calls>>

\* timer_periodic: timer = timer_table.
PeriodicStart ==
    /\ pc = "main"
    /\ timer' = timer_table /\ timer_next' = NULL
    /\ pc' = "loop"
    /\ carry' = FALSE
    /\ UNCHANGED <<heap, timer_table, now, calls, fires, since>>

PeriodicEnd ==
    /\ pc = "loop" /\ timer = NULL
    /\ pc' = "main"
    /\ timer' = NULL /\ timer_next' = NULL
    /\ carry' = FALSE
    /\ UNCHANGED <<heap, timer_table, now, calls, fires, since>>

\* Fault: a timer fires a second early.
IsDueEarly(a, time) == ((time - heap[a].start) % TIME_MOD) + 1 >= heap[a].interval

\* The difference is unsigned: a start in the future is long ago.
IsDue(a, time) == (time - heap[a].start) % TIME_MOD >= heap[a].interval

\* The loop body up to the callback: timer_next is read before it is called.
\* (Outside of a callback timer_next is never read again, and kept NULL.)
PeriodicVisit ==
    /\ pc = "loop" /\ timer # NULL
    /\ IF ~ heap[timer].live
       THEN pc' = "undefined" /\ UNCHANGED <<timer, timer_next, fires>>
       ELSE \E time \in ClockReads :
                IF IsDue(timer, time)
                THEN /\ pc' = "callback"
                     /\ timer_next' = heap[timer].next
                     /\ fires' = [fires EXCEPT ![heap[timer].callback] =
                                      IF @ > MaxNow THEN @ ELSE @ + 1]
                     /\ UNCHANGED timer
                ELSE /\ timer' = heap[timer].next
                     /\ UNCHANGED <<pc, timer_next, fires>>
    /\ carry' = FALSE
    /\ UNCHANGED <<heap, timer_table, now, calls, since>>

\* What a careful callback may call for c.  The running pass accesses two nodes
\* again: timer, whose start it writes, and timer_next, which it visits; careful
\* calls move or free neither the first nor, by freeing, the second.
AllowedOps(c) ==
    LET a == TimerGet(heap, timer_table, c)
    IN  IF a = NULL THEN CallbackOps
        ELSE IF a = timer THEN CallbackOps \ CarefulOps
        ELSE IF a = timer_next THEN CallbackOps \ (CarefulOps \cap {"set", "clear"})
        ELSE CallbackOps

\* A timer call made by the callback that is running.
CallbackCall(c) ==
    /\ pc = "callback"
    /\ calls < MaxCalls
    /\ Call(AllowedOps(c), c)
    /\ calls' = calls + 1
    /\ carry' = FALSE
    /\ UNCHANGED <<pc, timer, timer_next, now>>

\* Going on after an access to node a.
AfterAccess(a) == IF heap[a].live THEN "loop" ELSE "undefined"

\* Fault: the next period starts when the callback has returned.
NextStartDrifting(a) == now % TIME_MOD

NextStart(a) == (heap[a].start + heap[a].interval) % TIME_MOD

\* The callback returns TRUE: timer->start += timer->interval.
CallbackAgain ==
    /\ pc = "callback"
    /\ heap' = [heap EXCEPT ![timer].start = NextStart(timer)]
    /\ timer' = timer_next /\ timer_next' = NULL
    /\ pc' = AfterAccess(timer) /\ calls' = 0
    /\ carry' = FALSE
    /\ UNCHANGED <<timer_table, now, fires, since>>

\* The callback returns FALSE: the timer is unlinked and freed.
CallbackDone ==
    /\ pc = "callback"
    /\ heap' = Unlink(heap, timer)
    /\ timer_table' = HeadWithout(heap, timer_table, timer)
    /\ timer' = timer_next /\ timer_next' = NULL
    /\ pc' = AfterAccess(timer) /\ calls' = 0
    /\ carry' = FALSE
    /\ fires' = [c \in Callbacks |-> IF c = heap[timer].callback THEN 0 ELSE fires[c]]
    /\ since' = [c \in Callbacks |-> IF c = heap[timer].callback THEN 0 ELSE since[c]]
    /\ UNCHANGED now

TimerPeriodic == PeriodicStart \/ PeriodicEnd \/ PeriodicVisit \/ CallbackAgain \/ CallbackDone

Next ==
    \/ Tick
    \/ \E c \in Callbacks : MainCall(c)
    \/ \E c \in Callbacks : CallbackCall(c)
    \/ TimerPeriodic

Spec == Init /\ [][Next]_vars
----------------------------------------------------------------------------
List == Listed(heap, timer_table)

Active == {c \in Callbacks : TimerGet(heap, timer_table, c) # NULL}

TimerOf(c) == heap[TimerGet(heap, timer_table, c)]

Running == IF pc = "callback" THEN heap[timer].callback ELSE NULL

\* The list nodes, the locals of timer_periodic and the clock have their types.
TypeOK ==
    /\ heap \in [Addr -> Node]
    /\ timer_table \in Addr \cup {NULL}
    /\ pc \in {"main", "loop", "callback", "undefined"}
    /\ {timer, timer_next} \subseteq Addr \cup {NULL}
    /\ now \in 0 .. MaxNow
    /\ fires \in [Callbacks -> 0 .. MaxNow + 1] /\ since \in [Callbacks -> 0 .. MaxNow]

\* The list is what a doubly linked list must be, in every state of every pass:
\* the nodes keep their types, it ends, its back pointers mirror its forward pointers, it holds all nodes
\* that are allocated (none has leaked) and no callback twice.
ListWellFormed ==
    /\ TypeOK
    /\ NodeAt(heap, timer_table)[Cardinality(Addr)] = NULL
    /\ List = {a \in Addr : heap[a].live}
    /\ timer_table # NULL => heap[timer_table].prev = NULL
    /\ \A a \in List : heap[a].next # NULL => heap[heap[a].next].prev = a
    /\ \A a, b \in List : heap[a].callback = heap[b].callback => a = b

\* No pass and no callback return goes through a pointer to a freed node.
NoStaleAccess == pc # "undefined"

\* "to execute the callback functions of the expired timers" (timer.h:97): a
\* timer has fired at most once for every interval since it was set, and the
\* schedule does not drift: however late a pass is and however long the
\* callbacks take, the start of a timer is its first start plus one interval
\* for each completed firing (timer.c:162, timer.c:180).
OnSchedule ==
    \A c \in Active :
        LET done == IF Running = c THEN fires[c] - 1 ELSE fires[c]
        IN  /\ fires[c] * TimerOf(c).interval <= now - since[c]
            /\ TimerOf(c).start = (since[c] + done * TimerOf(c).interval) % TIME_MOD

\* The timers that the list holds.
Timers ==
    [c \in Callbacks |->
        IF c \in Active
        THEN [start |-> TimerOf(c).start, interval |-> TimerOf(c).interval]
        ELSE NULL]

\* The list and its passes implement the abstract table of timers.
Table == INSTANCE TimerTable WITH timers <- Timers, running <- Running

Refinement == Table!Spec
============================================================================
