------------------------------ MODULE VvpSchedule ------------------------------
(***************************************************************************)
(* vvp/schedule.cc: the list of time steps with relative delays, the six   *)
(* event lists of a step, and the loop of schedule_simulate.  Whatever an  *)
(* event, a callback or the stop prompt does is the environment: while its *)
(* code has control (busy) it may call any of the schedule_ functions.     *)
(* A circular list that is held by its last cell is a sequence here: the   *)
(* cell behind the last is the head.                                       *)
(***************************************************************************)
EXTENDS Naturals, Sequences, SequencesExt

CONSTANTS
    MaxEvents,    \* events scheduled in a run
    MaxTime,      \* the latest time an event is scheduled for
    MaxStops,     \* $stop calls and SIGINTs in a run
    Queues,       \* the lists the environment uses
    MaxStarts     \* events for the start list in a run

Lists == {"start", "active", "nbassign", "rwsync", "rosync", "del_thr"}

ASSUME QueuesAssumption == Queues \subseteq Lists
ASSUME BoundsAssumption ==
    MaxEvents \in Nat /\ MaxTime \in Nat /\ MaxStops \in Nat /\ MaxStarts \in Nat

VARIABLES
    sched_list,             \* the time steps, earliest first
    schedule_init_list,
    schedule_time,
    schedule_runnable, schedule_stopped_flag,
    pc,                     \* where schedule_simulate is
    busy,                   \* code called from there has control
    current,                \* the event that has control, or NoEvent
    created, stops          \* how many events and stops there have been

vars == <<sched_list, schedule_init_list, schedule_time, schedule_runnable,
          schedule_stopped_flag, pc, busy, current, created, stops>>

Ids == 1..MaxEvents

\* list: where schedule_event_ was told to put it; pushed: ahead of the list;
\* due: the absolute time asked for, which the scheduler does not store.
Event == [id: Ids, list: Lists, pushed: BOOLEAN, due: 0..MaxTime]

NoEvent == [id |-> 0, list |-> "none", pushed |-> FALSE, due |-> 0]

TimeStep(d) == [delay |-> d, start |-> <<>>, active |-> <<>>, nbassign |-> <<>>,
                rwsync |-> <<>>, rosync |-> <<>>, del_thr |-> <<>>]

Ctim == Head(sched_list)

-----------------------------------------------------------------------------
(* schedule_event_.                                                        *)

\* sum[k]: the delay of step k relative to the current time.
DelaySums(l) ==
    LET sum[k \in 0..Len(l)] == IF k = 0 THEN 0 ELSE sum[k - 1] + l[k].delay
    IN  sum

\* The first step that is not before delay; one past the end if there is none.
\* Slip: a step at exactly delay passed over.
Position_after(l, delay) ==
    CHOOSE i \in 1..(Len(l) + 1) :
        /\ i <= Len(l) => DelaySums(l)[i] > delay
        /\ \A j \in 1..(i - 1) : DelaySums(l)[j] <= delay

Position(l, delay) ==
    CHOOSE i \in 1..(Len(l) + 1) :
        /\ i <= Len(l) => DelaySums(l)[i] >= delay
        /\ \A j \in 1..(i - 1) : DelaySums(l)[j] < delay

\* A step delay units from now: the one there is, or a new one ahead of the
\* first later step, whose delay then counts from the new one.
EnsureStep(l, delay) ==
    LET k == Position(l, delay)
        at == DelaySums(l)
        new == TimeStep(delay - at[k - 1])
    IN  IF k > Len(l) THEN Append(l, new)
        ELSE IF at[k] = delay THEN l
        ELSE InsertAt([l EXCEPT ![k].delay = at[k] - delay], k, new)

StepAt(l, delay) ==
    CHOOSE k \in 1..Len(l) : /\ DelaySums(l)[k] = delay
                             /\ k > 1 => DelaySums(l)[k - 1] < delay

\* Where the switch links the cell in.  A second start event is linked into
\* the active list; with no active event that reads through a null pointer.
Slot(step, list) == IF list = "start" /\ step.start # <<>> THEN "active" ELSE list

Crashes(step, list) == list = "start" /\ step.start # <<>> /\ step.active = <<>>

\* Slip: linked in at the head.
LinkIn_head(step, list, e) == [step EXCEPT ![Slot(step, list)] = <<e>> \o @]

LinkIn(step, list, e) == [step EXCEPT ![Slot(step, list)] = Append(@, e)]

schedule_event_(e, delay, list) ==
    LET l == EnsureStep(sched_list, delay)
        k == StepAt(l, delay)
    IN  IF Crashes(l[k], list)
        THEN pc' = "crashed" /\ UNCHANGED sched_list
        ELSE sched_list' = [l EXCEPT ![k] = LinkIn(@, list, e)] /\ UNCHANGED pc

\* The front of the active list of the current step.
schedule_event_push_(e) ==
    IF sched_list = <<>> \/ Ctim.delay > 0
    THEN schedule_event_(e, 0, "active")
    ELSE /\ sched_list' = [sched_list EXCEPT ![1].active = <<e>> \o @]
         /\ UNCHANGED pc

-----------------------------------------------------------------------------
(* What code that has control may call.                                    *)

\* The calls that put an event into a list; the lists the environment uses
\* depend on who has control: read-only callbacks create read-only events of
\* the current step only ("It is *not* legal for them to create any other
\* kinds of events"); a start event is asked for a later time: the loop
\* never reads the start list of a step that is current already.
Legal(list, due) ==
    /\ list \in Queues
    /\ pc = "rosync" => list = "rosync" \/ due > schedule_time
    /\ list = "start" => due > schedule_time
    /\ list = "del_thr" => due = schedule_time

StartsPosted ==
    {e \in UNION {Range(sched_list[k].start \o sched_list[k].active) :
                    k \in DOMAIN sched_list} : e.list = "start"}

Schedule ==
    /\ busy
    /\ pc # "crashed"
    /\ created < MaxEvents
    /\ created' = created + 1
    /\ \E list \in Queues, due \in schedule_time..MaxTime :
         /\ Legal(list, due)
         /\ list = "start" =>
              \A e \in StartsPosted : e.due = due => MaxStarts > 1
         /\ schedule_event_([id |-> created + 1, list |-> list, pushed |-> FALSE,
                             due |-> due],
                            due - schedule_time, list)
    /\ UNCHANGED <<schedule_init_list, schedule_time, schedule_runnable,
                   schedule_stopped_flag, busy, current, stops>>

\* schedule_vthread with push_flag, as %fork and a join use it.
SchedulePushed ==
    /\ busy
    /\ pc \notin {"crashed", "rosync"}
    /\ created < MaxEvents
    /\ created' = created + 1
    /\ schedule_event_push_([id |-> created + 1, list |-> "active",
                             pushed |-> TRUE, due |-> schedule_time])
    /\ UNCHANGED <<schedule_init_list, schedule_time, schedule_runnable,
                   schedule_stopped_flag, busy, current, stops>>

\* schedule_init_vector, while the design is being linked.
ScheduleInit ==
    /\ busy
    /\ pc = "compile"
    /\ created < MaxEvents
    /\ created' = created + 1
    /\ schedule_init_list' =
         <<[id |-> created + 1, list |-> "active", pushed |-> FALSE, due |-> 0]>>
           \o schedule_init_list
    /\ UNCHANGED <<sched_list, schedule_time, schedule_runnable,
                   schedule_stopped_flag, pc, busy, current, stops>>

schedule_finish ==
    /\ busy
    /\ schedule_runnable
    /\ schedule_runnable' = FALSE
    /\ UNCHANGED <<sched_list, schedule_init_list, schedule_time,
                   schedule_stopped_flag, pc, busy, current, created, stops>>

\* $stop by code that has control, or SIGINT at any point of the loop.
schedule_stop ==
    /\ stops < MaxStops
    /\ busy \/ pc \in {"top", "start", "queues", "rosync"}
    /\ stops' = stops + 1
    /\ schedule_stopped_flag' = TRUE
    /\ UNCHANGED <<sched_list, schedule_init_list, schedule_time,
                   schedule_runnable, pc, busy, current, created>>

\* run_run or the callback returns.
Return ==
    /\ busy
    /\ pc # "crashed"
    /\ busy' = FALSE
    /\ current' = NoEvent
    /\ UNCHANGED <<sched_list, schedule_init_list, schedule_time,
                   schedule_runnable, schedule_stopped_flag, pc, created, stops>>

-----------------------------------------------------------------------------
(* schedule_simulate.                                                      *)

\* Linking and vpiEndOfCompile have control first.
Init ==
    /\ sched_list = <<>>
    /\ schedule_init_list = <<>>
    /\ schedule_time = 0
    /\ schedule_runnable = TRUE
    /\ schedule_stopped_flag = FALSE
    /\ pc = "compile"
    /\ busy = TRUE
    /\ current = NoEvent
    /\ created = 0
    /\ stops = 0

RunInitEvent ==
    /\ pc = "compile" /\ ~busy
    /\ schedule_init_list # <<>>
    /\ schedule_init_list' = Tail(schedule_init_list)
    /\ current' = Head(schedule_init_list)
    /\ busy' = TRUE
    /\ UNCHANGED <<sched_list, schedule_time, schedule_runnable,
                   schedule_stopped_flag, pc, created, stops>>

\* vpiStartOfSim, once the initializations are done.
StartOfSim ==
    /\ pc = "compile" /\ ~busy
    /\ schedule_init_list = <<>>
    /\ pc' = "start_of_sim"
    /\ busy' = TRUE
    /\ UNCHANGED <<sched_list, schedule_init_list, schedule_time,
                   schedule_runnable, schedule_stopped_flag, current, created,
                   stops>>

EnterLoop ==
    /\ pc = "start_of_sim" /\ ~busy
    /\ pc' = IF schedule_runnable THEN "top" ELSE "done"
    /\ UNCHANGED <<sched_list, schedule_init_list, schedule_time,
                   schedule_runnable, schedule_stopped_flag, busy, current,
                   created, stops>>

AtTop == pc = "top" /\ ~busy

LoopEnds ==
    /\ AtTop
    /\ sched_list = <<>>
    /\ pc' = "done"
    /\ UNCHANGED <<sched_list, schedule_init_list, schedule_time,
                   schedule_runnable, schedule_stopped_flag, busy, current,
                   created, stops>>

stop_handler ==
    /\ AtTop
    /\ sched_list # <<>>
    /\ schedule_stopped_flag
    /\ schedule_stopped_flag' = FALSE
    /\ pc' = "stopped"
    /\ busy' = TRUE
    /\ UNCHANGED <<sched_list, schedule_init_list, schedule_time,
                   schedule_runnable, current, created, stops>>

Resume ==
    /\ pc = "stopped" /\ ~busy
    /\ pc' = IF schedule_runnable THEN "top" ELSE "done"
    /\ UNCHANGED <<sched_list, schedule_init_list, schedule_time,
                   schedule_runnable, schedule_stopped_flag, busy, current,
                   created, stops>>

TimeAdvances ==
    /\ AtTop
    /\ ~schedule_stopped_flag
    /\ sched_list # <<>>
    /\ Ctim.delay > 0

FinishBeforeAdvance ==
    /\ TimeAdvances
    /\ ~schedule_runnable
    /\ pc' = "done"
    /\ UNCHANGED <<sched_list, schedule_init_list, schedule_time,
                   schedule_runnable, schedule_stopped_flag, busy, current,
                   created, stops>>

\* vpiNextSimTime gets control with the new time.
AdvanceTime ==
    /\ TimeAdvances
    /\ schedule_runnable
    /\ schedule_time' = schedule_time + Ctim.delay
    /\ sched_list' = [sched_list EXCEPT ![1].delay = 0]
    /\ pc' = "start"
    /\ busy' = TRUE
    /\ UNCHANGED <<schedule_init_list, schedule_runnable, schedule_stopped_flag,
                   current, created, stops>>

\* The head of the list is unlinked and its event gets control.
Run(list) ==
    /\ sched_list' = [sched_list EXCEPT ![1][list] = Tail(@)]
    /\ current' = Head(Ctim[list])
    /\ busy' = TRUE

RunStart ==
    /\ pc = "start" /\ ~busy
    /\ Ctim.start # <<>>
    /\ Run("start")
    /\ UNCHANGED <<schedule_init_list, schedule_time, schedule_runnable,
                   schedule_stopped_flag, pc, created, stops>>

StartOver ==
    /\ pc = "start" /\ ~busy
    /\ Ctim.start = <<>>
    /\ pc' = "queues"
    /\ UNCHANGED <<sched_list, schedule_init_list, schedule_time,
                   schedule_runnable, schedule_stopped_flag, busy, current,
                   created, stops>>

AtQueues ==
    /\ ~busy
    /\ \/ pc = "queues"
       \/ pc = "top" /\ ~schedule_stopped_flag /\ sched_list # <<>> /\ Ctim.delay = 0

RunActive ==
    /\ AtQueues
    /\ Ctim.active # <<>>
    /\ Run("active")
    /\ pc' = "top"
    /\ UNCHANGED <<schedule_init_list, schedule_time, schedule_runnable,
                   schedule_stopped_flag, created, stops>>

\* The next list becomes the active one and its first event runs at once.
\* Slip: read-write sync events before the non-blocking assignments.
NextList_syncFirst(step) ==
    IF step.rwsync # <<>> THEN "rwsync"
    ELSE IF step.nbassign # <<>> THEN "nbassign" ELSE "none"

NextList(step) ==
    IF step.nbassign # <<>> THEN "nbassign"
    ELSE IF step.rwsync # <<>> THEN "rwsync" ELSE "none"

AdvanceQueue ==
    /\ AtQueues
    /\ Ctim.active = <<>>
    /\ LET list == NextList(Ctim) IN
         /\ list # "none"
         /\ sched_list' = [sched_list EXCEPT ![1][list] = <<>>,
                                             ![1].active = Tail(Ctim[list])]
         /\ current' = Head(Ctim[list])
    /\ busy' = TRUE
    /\ pc' = "top"
    /\ UNCHANGED <<schedule_init_list, schedule_time, schedule_runnable,
                   schedule_stopped_flag, created, stops>>

-----------------------------------------------------------------------------
(* run_rosync, then the step is deleted.                                   *)

EnterRosync ==
    /\ AtQueues
    /\ Ctim.active = <<>>
    /\ NextList(Ctim) = "none"
    /\ pc' = "rosync"
    /\ UNCHANGED <<sched_list, schedule_init_list, schedule_time,
                   schedule_runnable, schedule_stopped_flag, busy, current,
                   created, stops>>

RunReadOnly ==
    /\ pc = "rosync" /\ ~busy
    /\ Ctim.rosync # <<>>
    /\ Run("rosync")
    /\ UNCHANGED <<schedule_init_list, schedule_time, schedule_runnable,
                   schedule_stopped_flag, pc, created, stops>>

\* Deleting a thread gives nobody control.
DeleteThread ==
    /\ pc = "rosync" /\ ~busy
    /\ Ctim.rosync = <<>>
    /\ Ctim.del_thr # <<>>
    /\ sched_list' = [sched_list EXCEPT ![1].del_thr = Tail(@)]
    /\ UNCHANGED <<schedule_init_list, schedule_time, schedule_runnable,
                   schedule_stopped_flag, pc, busy, current, created, stops>>

\* Slip: the step stays at the head of the list.
DeleteStep_keep ==
    /\ pc = "rosync" /\ ~busy
    /\ Ctim.rosync = <<>> /\ Ctim.del_thr = <<>>
    /\ pc' = "top"
    /\ UNCHANGED <<sched_list, schedule_init_list, schedule_time,
                   schedule_runnable, schedule_stopped_flag, busy, current,
                   created, stops>>

DeleteStep ==
    /\ pc = "rosync" /\ ~busy
    /\ Ctim.rosync = <<>> /\ Ctim.del_thr = <<>>
    /\ sched_list' = Tail(sched_list)
    /\ pc' = "top"
    /\ UNCHANGED <<schedule_init_list, schedule_time, schedule_runnable,
                   schedule_stopped_flag, busy, current, created, stops>>

\* The program has ended.
Ended == pc \in {"done", "crashed"} /\ UNCHANGED vars

Environment ==
    Schedule \/ SchedulePushed \/ ScheduleInit \/ schedule_finish \/ schedule_stop

Loop ==
    \/ Return \/ RunInitEvent \/ StartOfSim \/ EnterLoop \/ LoopEnds
    \/ stop_handler \/ Resume \/ FinishBeforeAdvance \/ AdvanceTime
    \/ RunStart \/ StartOver \/ RunActive \/ AdvanceQueue
    \/ EnterRosync \/ RunReadOnly \/ DeleteThread \/ DeleteStep

Next == Environment \/ Loop \/ Ended

Spec == Init /\ [][Next]_vars

\* The loop is the only thread, and what it calls returns.
FairSpec == Spec /\ WF_vars(Loop)

-----------------------------------------------------------------------------
(* Properties.                                                             *)

TypeOK ==
    /\ sched_list \in Seq([delay: 0..MaxTime, start: Seq(Event),
                           active: Seq(Event), nbassign: Seq(Event),
                           rwsync: Seq(Event), rosync: Seq(Event),
                           del_thr: Seq(Event)])
    /\ schedule_init_list \in Seq(Event)
    /\ schedule_time \in 0..MaxTime
    /\ schedule_runnable \in BOOLEAN /\ schedule_stopped_flag \in BOOLEAN
    /\ pc \in {"compile", "start_of_sim", "top", "start", "queues", "rosync",
               "stopped", "done", "crashed"}
    /\ busy \in BOOLEAN
    /\ current \in Event \cup {NoEvent}
    /\ created \in 0..MaxEvents
    /\ stops \in 0..MaxStops

\* The absolute time a step stands for: only relative delays are stored.
TimeOf(k) == schedule_time + DelaySums(sched_list)[k]

EventsIn(k, list) == Range(sched_list[k][list])

\* There is one step per time, and none for a later time without an event:
\* time never stops where nothing happens.
OneStepPerTime ==
    \A k \in DOMAIN sched_list :
        /\ k > 1 => sched_list[k].delay > 0
        /\ TimeOf(k) > schedule_time => \E list \in Lists : sched_list[k][list] # <<>>

Pending(list) ==
    {e \in UNION {UNION {EventsIn(k, l) : l \in Lists} : k \in DOMAIN sched_list} :
        e.list = list /\ e.due = schedule_time}

\* Events asked for the same list and time get control in the order they were
\* scheduled, except that a pushed one overtakes all the active events, the
\* last pushed first.
OrderKept ==
    [][\A e \in {current'} \ {current, NoEvent} : pc # "compile" =>
         /\ ~e.pushed => \A f \in Pending(e.list) : ~f.pushed => f.id >= e.id
         /\ \A f \in Pending("active") : e.list = "active" /\ f.pushed =>
               e.pushed /\ f.id <= e.id]_vars

\* The events in the lists of the steps, with the absolute times these stand for.
Waiting(l, now) ==
    UNION {{[id |-> e.id, due |-> now + DelaySums(l)[k], region |-> list] :
              e \in Range(l[k][list])} :
           k \in DOMAIN l, list \in Lists}

\* The list of steps implements the event queue of absolute times and regions.
EQ == INSTANCE EventQueue WITH
        now <- schedule_time,
        pending <- Waiting(sched_list, schedule_time),
        starting <- pc = "start"

ImplementsEventQueue == EQ!EventQueueSpec

\* The loop drains the queue or leaves it after $finish; no stop wedges it.
Ends == <>(pc = "done")
=============================================================================
