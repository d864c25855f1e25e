-------------------------------- MODULE Event --------------------------------
(***************************************************************************)
(* The events and event sets of kernel/event.c.                            *)
(*                                                                         *)
(* Tasks give up the processor only by blocking, so what a task does       *)
(* between two blocking points is one action.  check_event_timeouts and    *)
(* cleanup_task_events are run by the handlers that kernel/ipc_init.c      *)
(* registers; the two register_ functions are not in the tree.  The timer  *)
(* handler may come between the mutex_unlock of a wait and its block_task  *)
(* (pc "enq", see WaitQueue); that it may also come while a task is inside *)
(* an event's mutex is not modelled.  How long a timeout is is left open:  *)
(* any timed wait may have expired.  The reference counts of events are    *)
(* written and never read, and are left out.                               *)
(***************************************************************************)
EXTENDS WaitQueue, SequencesExt

CONSTANTS Events,     \* MAX_EVENTS slots of event_pool, 1 .. n
          Sets,       \* MAX_EVENT_SETS slots of event_set_pool, 1 .. n
          SetSize     \* MAX_EVENTS_PER_SET

ASSUME EventAssumption ==
  /\ Events \subseteq Nat \ {0}
  /\ 1 \in Events
  /\ Sets \subseteq Nat \ {0}
  /\ SetSize \in Nat \ {0}

VARIABLES live,         \* header.type of an event slot is IPC_TYPE_EVENT
          manual,       \* EVENT_FLAG_MANUAL_RESET
          signaled,     \* state is EVENT_STATE_SIGNALED
          waiters,      \* the list, from its head
          set_live,     \* header.type of a set slot is IPC_TYPE_EVENT_SET
          events,       \* of a set: its first event_count events
          set_waiters,
          pc,           \* as in WaitQueue, or "dead" (terminated), or "gone"
                        \* (terminated and cleaned up after)
          on,           \* the event or set a task in a call waits for
          timed,        \* has the wait of a task a timeout?
          fresh,        \* signaled since it last let a wait through? (history)
          told,         \* was the task woken by a signal? (history)
          unlisted      \* tasks whose wait has no waiter any more, or never
                        \* had one, though nothing unblocks them (history)

eventVars == <<live, manual, signaled, waiters, fresh>>

setVars == <<set_live, events, set_waiters>>

taskVars == <<pc, on, timed, told, unlisted>>

vars == <<eventVars, setVars, taskVars>>

NoObject == [kind |-> "none", slot |-> 0]

\* init_event_system: one event, with manual reset.
Init ==
  /\ live = [e \in Events |-> e = 1]
  /\ manual = [e \in Events |-> e = 1]
  /\ signaled = [e \in Events |-> FALSE]
  /\ waiters = [e \in Events |-> <<>>]
  /\ set_live = [s \in Sets |-> FALSE]
  /\ events = [s \in Sets |-> <<>>]
  /\ set_waiters = [s \in Sets |-> <<>>]
  /\ pc = [t \in Tasks |-> "idle"]
  /\ on = [t \in Tasks |-> NoObject]
  /\ fresh = [e \in Events |-> FALSE]
  /\ told = [t \in Tasks |-> FALSE]
  /\ timed = [t \in Tasks |-> FALSE]
  /\ unlisted = {}

Calls(t) == pc[t] = "idle" /\ MayRun(pc, t)

-----------------------------------------------------------------------------
(* Events. *)

FreeEvents == {e \in Events : ~live[e]}

find_free_event == CHOOSE e \in FreeEvents : \A f \in FreeEvents : e <= f

\* Not signaled, automatic reset, nobody waiting.
Clear(e) ==
  /\ manual' = [manual EXCEPT ![e] = FALSE]
  /\ signaled' = [signaled EXCEPT ![e] = FALSE]
  /\ waiters' = [waiters EXCEPT ![e] = <<>>]
  /\ fresh' = [fresh EXCEPT ![e] = FALSE]

\* Without a slot or a mutex the call changes nothing.
create_event(t) ==
  /\ Calls(t)
  /\ FreeEvents # {}
  /\ live' = [live EXCEPT ![find_free_event] = TRUE]
  /\ Clear(find_free_event)
  /\ UNCHANGED <<setVars, taskVars>>

\* The sets that hold the event keep it.
destroy_event(t, e) ==
  /\ Calls(t)
  /\ live[e]
  /\ live' = [live EXCEPT ![e] = FALSE]
  /\ Clear(e)
  /\ pc' = Unblock(pc, WokenAll(waiters[e]))
  /\ UNCHANGED <<setVars, on, timed, told, unlisted>>

add_event_waiter(q, t) == {Cons(t, q)} \cup IF MallocMayFail THEN {q} ELSE {}

\* t waits for object, with or without a timeout, queued or not.
StartWait(t, object, queued) ==
  /\ pc' = [pc EXCEPT ![t] = "enq"]
  /\ on' = [on EXCEPT ![t] = object]
  /\ \E b \in BOOLEAN : timed' = [timed EXCEPT ![t] = b]
  /\ unlisted' = IF queued THEN unlisted ELSE unlisted \cup {t}

\* The wait of t is over, and t is at after.
EndWait(t, after) ==
  /\ pc' = [pc EXCEPT ![t] = after]
  /\ on' = [on EXCEPT ![t] = NoObject]
  /\ timed' = [timed EXCEPT ![t] = FALSE]
  /\ told' = [told EXCEPT ![t] = FALSE]
  /\ unlisted' = unlisted \ {t}

\* Mutant: an automatic event that let a task through stays signaled.
LetThroughAndStay(e) ==
  /\ signaled' = signaled
  /\ fresh' = [fresh EXCEPT ![e] = FALSE]

\* A wait finds e signaled.
LetThrough(e) ==
  /\ signaled' = [signaled EXCEPT ![e] = manual[e]]
  /\ fresh' = [fresh EXCEPT ![e] = FALSE]

event_timedwait(t, e) ==
  /\ Calls(t)
  /\ live[e]
  /\ \/ /\ signaled[e]
        /\ LetThrough(e)
        /\ UNCHANGED <<waiters, taskVars>>
     \/ /\ ~signaled[e]
        /\ \E q \in add_event_waiter(waiters[e], t) :
             /\ waiters' = [waiters EXCEPT ![e] = q]
             /\ StartWait(t, [kind |-> "event", slot |-> e], q # waiters[e])
        /\ UNCHANGED <<signaled, fresh, told>>
  /\ UNCHANGED <<live, manual, setVars>>

block_task(t) ==
  /\ pc[t] = "enq"
  /\ pc' = [pc EXCEPT ![t] = "blocked"]
  /\ UNCHANGED <<eventVars, setVars, on, timed, told, unlisted>>

\* event_timedwait after block_task: the state decides the result, whatever
\* woke the task and whatever the slot holds by now.
EventWaitReturns(t) ==
  LET e == on[t].slot
  IN  /\ pc[t] = "woken"
      /\ MayRun(pc, t)
      /\ on[t].kind = "event"
      /\ \/ /\ signaled[e]
            /\ LetThrough(e)
            /\ UNCHANGED waiters
         \/ /\ ~signaled[e]
            /\ waiters' = [waiters EXCEPT ![e] = RemoveFirst(@, t)]
            /\ UNCHANGED <<signaled, fresh>>
      /\ EndWait(t, "idle")
      /\ UNCHANGED <<live, manual, setVars>>

\* The waiters W are unblocked by a signal.
Tell(W) ==
  /\ pc' = Unblock(pc, W)
  /\ told' = [t \in Tasks |-> told[t] \/ (t \in W /\ pc[t] = "blocked")]

\* Mutant: an automatic event is reset though nobody waited for the signal.
SignalResetsAlways(t, e) ==
  /\ Calls(t)
  /\ live[e]
  /\ fresh' = [fresh EXCEPT ![e] = TRUE]
  /\ signaled' = [signaled EXCEPT ![e] = manual[e]]
  /\ waiters' = [waiters EXCEPT ![e] = IF manual[e] THEN <<>> ELSE AfterWakeFirst(@)]
  /\ Tell(IF manual[e] THEN WokenAll(waiters[e]) ELSE WokenFirst(waiters[e]))
  /\ UNCHANGED <<live, manual, setVars, on, timed, unlisted>>

event_signal(t, e) ==
  /\ Calls(t)
  /\ live[e]
  /\ fresh' = [fresh EXCEPT ![e] = TRUE]
  /\ signaled' = [signaled EXCEPT ![e] = manual[e] \/ waiters[e] = <<>>]
  /\ waiters' = [waiters EXCEPT ![e] = IF manual[e] THEN <<>> ELSE AfterWakeFirst(@)]
  /\ Tell(IF manual[e] THEN WokenAll(waiters[e]) ELSE WokenFirst(waiters[e]))
  /\ UNCHANGED <<live, manual, setVars, on, timed, unlisted>>

event_broadcast(t, e) ==
  /\ Calls(t)
  /\ live[e]
  /\ fresh' = [fresh EXCEPT ![e] = TRUE]
  /\ signaled' = [signaled EXCEPT ![e] = TRUE]
  /\ waiters' = [waiters EXCEPT ![e] = <<>>]
  /\ Tell(WokenAll(waiters[e]))
  /\ UNCHANGED <<live, manual, setVars, on, timed, unlisted>>

event_reset(t, e) ==
  /\ Calls(t)
  /\ live[e]
  /\ signaled' = [signaled EXCEPT ![e] = FALSE]
  /\ UNCHANGED <<live, manual, waiters, fresh, setVars, taskVars>>

-----------------------------------------------------------------------------
(* Event sets. *)

FreeSets == {s \in Sets : ~set_live[s]}

find_free_event_set == CHOOSE s \in FreeSets : \A r \in FreeSets : s <= r

\* Its size, at most MAX_EVENTS_PER_SET, is checked and not kept.
create_event_set(t) ==
  /\ Calls(t)
  /\ FreeSets # {}
  /\ set_live' = [set_live EXCEPT ![find_free_event_set] = TRUE]
  /\ events' = [events EXCEPT ![find_free_event_set] = <<>>]
  /\ set_waiters' = [set_waiters EXCEPT ![find_free_event_set] = <<>>]
  /\ UNCHANGED <<eventVars, taskVars>>

destroy_event_set(t, s) ==
  /\ Calls(t)
  /\ set_live[s]
  /\ set_live' = [set_live EXCEPT ![s] = FALSE]
  /\ events' = [events EXCEPT ![s] = <<>>]
  /\ set_waiters' = [set_waiters EXCEPT ![s] = <<>>]
  /\ pc' = Unblock(pc, WokenAll(set_waiters[s]))
  /\ UNCHANGED <<eventVars, on, timed, told, unlisted>>

\* Mutant: the test for a full set is off by one.
AddBeyondSize(t, s, e) ==
  /\ Calls(t)
  /\ set_live[s] /\ live[e]
  /\ ~Contains(events[s], e)
  /\ Len(events[s]) <= SetSize
  /\ events' = [events EXCEPT ![s] = Append(@, e)]
  /\ UNCHANGED <<eventVars, set_live, set_waiters, taskVars>>

event_set_add(t, s, e) ==
  /\ Calls(t)
  /\ set_live[s] /\ live[e]
  /\ ~Contains(events[s], e)
  /\ Len(events[s]) < SetSize
  /\ events' = [events EXCEPT ![s] = Append(@, e)]
  /\ UNCHANGED <<eventVars, set_live, set_waiters, taskVars>>

event_set_remove(t, s, e) ==
  /\ Calls(t)
  /\ set_live[s] /\ live[e]
  /\ Contains(events[s], e)
  /\ events' = [events EXCEPT ![s] = RemoveFirst(@, e)]
  /\ UNCHANGED <<eventVars, set_live, set_waiters, taskVars>>

\* The events of set s that are signaled, as positions in it.
Ready(s) == {i \in 1 .. Len(events[s]) : signaled[events[s][i]]}

\* The loop over the set stops at the first one.
TakeFirst(s) ==
  LetThrough(events[s][CHOOSE i \in Ready(s) : \A j \in Ready(s) : i <= j])

event_set_timedwait(t, s) ==
  /\ Calls(t)
  /\ set_live[s]
  /\ \/ /\ Ready(s) # {}
        /\ TakeFirst(s)
        /\ UNCHANGED <<set_waiters, taskVars>>
     \/ /\ Ready(s) = {}
        /\ \E q \in add_event_waiter(set_waiters[s], t) :
             /\ set_waiters' = [set_waiters EXCEPT ![s] = q]
             /\ StartWait(t, [kind |-> "set", slot |-> s], q # set_waiters[s])
        /\ UNCHANGED <<signaled, fresh, told>>
  /\ UNCHANGED <<live, manual, waiters, set_live, events>>

\* event_set_timedwait after block_task.
SetWaitReturns(t) ==
  LET s == on[t].slot
  IN  /\ pc[t] = "woken"
      /\ MayRun(pc, t)
      /\ on[t].kind = "set"
      /\ \/ Ready(s) # {} /\ TakeFirst(s)
         \/ Ready(s) = {} /\ UNCHANGED <<signaled, fresh>>
      /\ set_waiters' = [set_waiters EXCEPT ![s] = RemoveFirst(@, t)]
      /\ EndWait(t, "idle")
      /\ UNCHANGED <<live, manual, waiters, set_live, events>>

-----------------------------------------------------------------------------
(* Timeouts and the end of tasks. *)

\* The list without the waiters of the tasks X, from its first i waiters on.
Without(q, X) ==
  LET kept[i \in 0 .. Len(q)] ==
        IF i = 0 THEN <<>>
        ELSE IF q[i] \in X THEN kept[i - 1] ELSE Append(kept[i - 1], q[i])
  IN  kept[Len(q)]

\* The timed waiters X of any event or set have expired.
ExpireAll(X) ==
  /\ waiters' = [e \in Events |-> Without(waiters[e], X)]
  /\ set_waiters' = [s \in Sets |-> Without(set_waiters[s], X)]

Listed == (UNION {ToSet(waiters[e]) : e \in Events})
            \cup (UNION {ToSet(set_waiters[s]) : s \in Sets})

\* Mutant: the expired waiters stay listed.
TimeoutKeepsWaiter(X) ==
  /\ X \subseteq {t \in Listed : timed[t]}
  /\ pc' = Unblock(pc, X)
  /\ unlisted' = unlisted \cup {t \in X : pc[t] = "enq"}
  /\ UNCHANGED <<eventVars, setVars, on, timed, told>>

check_event_timeouts(X) ==
  /\ X # {}
  /\ X \subseteq {t \in Listed : timed[t]}
  /\ ExpireAll(X)
  /\ pc' = Unblock(pc, X)
  /\ unlisted' = unlisted \cup {t \in X : pc[t] = "enq"}
  /\ UNCHANGED <<live, manual, signaled, fresh, set_live, events, on,
                 timed, told>>

\* terminate_task (see Scheduler) for a task inside a wait; its waiter stays.
terminate_task(t, u) ==
  /\ Calls(t)
  /\ pc[u] \in {"blocked", "woken"}
  /\ pc' = [pc EXCEPT ![u] = "dead"]
  /\ UNCHANGED <<eventVars, setVars, on, timed, told, unlisted>>

cleanup_task_events(u) ==
  /\ pc[u] = "dead"
  /\ waiters' = [e \in Events |-> RemoveFirst(waiters[e], u)]
  /\ set_waiters' = [s \in Sets |-> RemoveFirst(set_waiters[s], u)]
  /\ EndWait(u, "gone")
  /\ UNCHANGED <<live, manual, signaled, fresh, set_live, events>>

-----------------------------------------------------------------------------
Next ==
  \/ \E t \in Tasks :
       \/ create_event(t) \/ create_event_set(t)
       \/ block_task(t) \/ EventWaitReturns(t) \/ SetWaitReturns(t)
       \/ cleanup_task_events(t)
       \/ \E u \in Tasks : terminate_task(t, u)
       \/ \E e \in Events :
            \/ destroy_event(t, e) \/ event_timedwait(t, e) \/ event_signal(t, e)
            \/ event_broadcast(t, e) \/ event_reset(t, e)
       \/ \E s \in Sets :
            \/ destroy_event_set(t, s) \/ event_set_timedwait(t, s)
            \/ \E e \in Events : event_set_add(t, s, e) \/ event_set_remove(t, s, e)
  \/ \E X \in SUBSET Tasks : check_event_timeouts(X)

Spec == Init /\ [][Next]_vars

-----------------------------------------------------------------------------
(* Properties. *)

Once(q) == \A i, j \in 1 .. Len(q) : q[i] = q[j] => i = j

\* The type invariant; a set holds an event once and at most SetSize events.
TypeOK ==
  /\ live \in [Events -> BOOLEAN] /\ manual \in [Events -> BOOLEAN]
  /\ signaled \in [Events -> BOOLEAN] /\ set_live \in [Sets -> BOOLEAN]
  /\ \A e \in Events : waiters[e] \in Seq(Tasks) /\ Once(waiters[e])
  /\ \A s \in Sets : set_waiters[s] \in Seq(Tasks) /\ Once(set_waiters[s])
  /\ \A s \in Sets : /\ events[s] \in Seq(Events) /\ Once(events[s])
                     /\ Len(events[s]) <= SetSize
  /\ pc \in [Tasks -> PCs \cup {"dead", "gone"}]
  /\ timed \in [Tasks -> BOOLEAN] /\ told \in [Tasks -> BOOLEAN]
  /\ fresh \in [Events -> BOOLEAN] /\ unlisted \subseteq Tasks

\* An automatic event that is signaled has been signaled since it last let a
\* wait through, waits on sets that hold it included: one signal never lets
\* two tasks through (event_timedwait, "only let one task through").
AutoResetOnce == \A e \in Events : signaled[e] /\ ~manual[e] => fresh[e]

\* A step that signals e leaves e signaled or wakes a task that waits for e;
\* or a terminated task, not yet cleaned up after, is in its list.
SignalArrives(e) ==
  (\E t \in Tasks : event_signal(t, e) \/ event_broadcast(t, e)) =>
    \/ signaled'[e]
    \/ \E u \in ToSet(waiters[e]) : pc[u] = "blocked" /\ pc'[u] = "woken"
    \/ \E u \in ToSet(waiters[e]) : pc[u] = "dead"

\* A wait that t begins has no signal to wait for already.
NothingToWaitFor(t) ==
  pc[t] = "idle" /\ pc'[t] = "enq" =>
    IF on'[t].kind = "event" THEN ~signaled[on'[t].slot] ELSE Ready(on'[t].slot) = {}

\* No signal is lost: it wakes a task or is kept, and never spent on a wait
\* that timed out, was destroyed or has returned (event_signal,
\* event_broadcast); and whoever comes to wait after it, on the event or on a
\* set that holds it, finds it (event.h, event_wait: "If the event is already in
\* the signaled state, the function returns immediately").
SignalsAreNotLost ==
  [][(\A e \in Events : SignalArrives(e)) /\ (\A t \in Tasks : NothingToWaitFor(t))]_vars

\* Whoever is in the list of an event or a set is waiting for that object, or
\* has been terminated and not been cleaned up after: no signal is spent on a
\* task that timed out, was woken or has left.  Conversely a task that waits
\* can be found from the object it waits for, so destroying the object or a
\* timeout ends the wait.  The exceptions are a waiter that could not be
\* allocated, and one that expired before its task came to block_task.
ListsMatchWaits ==
  /\ \A e \in Events : \A t \in ToSet(waiters[e]) :
       live[e] /\ on[t] = [kind |-> "event", slot |-> e]
         /\ pc[t] \in {"enq", "blocked", "dead"}
  /\ \A s \in Sets : \A t \in ToSet(set_waiters[s]) :
       set_live[s] /\ on[t] = [kind |-> "set", slot |-> s]
         /\ pc[t] \in {"enq", "blocked", "dead"}
  /\ \A t \in Tasks \ unlisted :
       pc[t] \in {"enq", "blocked"} =>
         IF on[t].kind = "event" THEN Contains(waiters[on[t].slot], t)
                                 ELSE Contains(set_waiters[on[t].slot], t)

\* A task that a signal or a broadcast woke finds the event signaled: its wait
\* returns 0 (event.h, event_wait).
SignalEndsWait ==
  [][\A t \in Tasks : told[t] /\ EventWaitReturns(t) => signaled[on[t].slot]]_vars

=============================================================================
