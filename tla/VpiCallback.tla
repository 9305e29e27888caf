----------------------------- MODULE VpiCallback -----------------------------
(***************************************************************************)
(* vvp/vpi_callback.cc: the callbacks that VPI code registers and removes, *)
(* the walks over the lists of callbacks of an object whose value changes  *)
(* (also array_word_change of array.cc and vpip_run_named_event_callbacks  *)
(* of vpi_event.cc), the callbacks for a time and those for the phases of  *)
(* a simulation.  A routine that is called has control until it returns    *)
(* and may register and remove callbacks and change values, which starts   *)
(* another walk inside the one that called it: stack is the C++ stack.     *)
(***************************************************************************)
EXTENDS Naturals, Sequences, FiniteSets, SequencesExt, FiniteSetsExt

CONSTANTS
    Objects,      \* signals, named events and arrays
    Words,        \* Words[o]: the words of object o (one, but for an array)
    Reasons,      \* what callbacks are registered for
    MaxCallbacks, MaxChanges, MaxRemovals, MaxTime  \* bounds

Phases == {"EndOfCompile", "StartOfSimulation", "NextSimTime", "EndOfSimulation"}
Syncs == {"StartOfSimTime", "AfterDelay", "ReadWriteSynch", "ReadOnlySynch"}

ASSUME ReasonsAssumption == Reasons \subseteq Phases \cup Syncs \cup {"ValueChange"}
ASSUME ObjectsAssumption ==
    /\ Objects \cap (Phases \cup Syncs) = {}
    /\ \A o \in Objects : "all" \notin Words[o]

ASSUME BoundsAssumption == MaxCallbacks \in Nat /\ MaxTime \in Nat

Callbacks == 1..MaxCallbacks

VARIABLES
    callback,       \* the __vpiCallback cells; a handle is the number of one
    first,          \* the head of each list, of an object or a phase; 0: empty
    agenda,         \* the sync_cb events in the scheduler
    now, pc,        \* schedule_simtime(), and where schedule_simulate is
    stack,          \* the calls in progress, the innermost first
    vpi_mode_flag,
    version,        \* version[o][w]: how often the word has changed
    removals,       \* how many callbacks were removed
    dangling        \* has a walk lost what an outer one goes on with, see Reap

vars == <<callback, first, agenda, now, pc, stack, vpi_mode_flag, version, removals, dangling>>

\* rtn: the routine is there; list: the object, or the reason; word: the word
\* watched, or "all"; due: the time of a one-time callback; seen: the versions
\* its routine was given.  Freed memory is not handed out again.
NoCallback == [state |-> "unused", rtn |-> FALSE, next |-> 0, list |-> "none",
               word |-> "all", due |-> 0, seen |-> <<>>]
Freed == [NoCallback EXCEPT !.state = "freed"]

Live(c) == callback[c].state = "live"

Watches(c, w) == callback[c].word \in {w, "all"}

\* A walk over the callbacks of an object, with its local variables; cur is the
\* callback whose routine has control (0: none), mode the flag it had before.
Walk(o, w) == [list |-> o, word |-> w, cur |-> 0, next |-> first[o], prev |-> 0,
               mode |-> "NONE"]

\* A routine called for a phase or for a time.
Call(c) == [list |-> callback[c].list, word |-> "all", cur |-> c, next |-> 0,
            prev |-> 0, mode |-> "NONE"]

Top == Head(stack)

\* User code has control: a routine, or the design and the system tasks it calls,
\* or the start up code of a module.  (The modes that vvp sets while it calls a
\* system task are not told apart from "NONE".)
InRoutine == stack # <<>> /\ Top.cur # 0
UserCode == InRoutine \/ (stack = <<>> /\ pc \in {"startup", "init", "loop"})

\* In this mode no value may change, and only read-only events may be added to
\* the present time.
ReadOnly == vpi_mode_flag = "ROSYNC"

-----------------------------------------------------------------------------
(* vpi_register_cb: make_value_change, make_prepost, make_sync,            *)
(* make_afterdelay.                                                        *)

Unused == {c \in Callbacks : callback[c].state = "unused"}

\* Slip: the cell does not point to the old head.
Insert_slip(list, word, seen) ==
    LET c == Min(Unused)
    IN  /\ Unused # {}
        /\ callback' = [callback EXCEPT ![c] =
               [NoCallback EXCEPT !.state = "live", !.rtn = TRUE,
                                  !.list = list, !.word = word, !.seen = seen]]
        /\ first' = [first EXCEPT ![list] = c]
        /\ UNCHANGED <<agenda, now, pc, stack, vpi_mode_flag, version, removals, dangling>>

\* A new cell is put at the head of its list.
Insert(list, word, seen) ==
    LET c == Min(Unused)
    IN  /\ Unused # {}
        /\ callback' = [callback EXCEPT ![c] =
               [NoCallback EXCEPT !.state = "live", !.rtn = TRUE, !.next = first[list],
                                  !.list = list, !.word = word, !.seen = seen]]
        /\ first' = [first EXCEPT ![list] = c]
        /\ UNCHANGED <<agenda, now, pc, stack, vpi_mode_flag, version, removals, dangling>>

RegisterValueChange ==
    /\ UserCode /\ "ValueChange" \in Reasons
    /\ \E o \in Objects : \E w \in Words[o] \cup (IF Cardinality(Words[o]) > 1 THEN {"all"} ELSE {}) :
          Insert(o, w, version[o])

Passed(phase) == CASE phase = "EndOfCompile" -> pc \notin {"startup", "EndOfCompile"}
                   [] phase = "StartOfSimulation" ->
                          pc \notin {"startup", "EndOfCompile", "init", "StartOfSimulation"}
                   [] phase = "NextSimTime" -> pc \in {"NextSimTime", "EndOfSimulation"}
                   [] phase = "EndOfSimulation" -> FALSE

\* vpiNextSimTime would call a callback for the next time that is registered
\* while it runs, again and again if that registers itself: left out (Passed).
RegisterPhase ==
    /\ UserCode
    /\ \E phase \in Phases \cap Reasons : ~Passed(phase) /\ Insert(phase, "all", <<>>)

\* A time that has passed stands for now; but the start of now has passed, too.
RegisterSync ==
    /\ UserCode /\ pc # "EndOfSimulation" /\ Unused # {}
    /\ \E reason \in Syncs \cap Reasons, time \in 0..MaxTime :
          LET c == Min(Unused)
              due == IF time < now THEN now ELSE time
          IN  /\ reason = "StartOfSimTime" => time > now
              /\ reason = "AfterDelay" => time >= now
              /\ ReadOnly /\ due = now => reason = "ReadOnlySynch"
              /\ callback' = [callback EXCEPT ![c] =
                     [NoCallback EXCEPT !.state = "live", !.rtn = TRUE,
                                        !.list = reason, !.due = due]]
              /\ agenda' = Append(agenda, c)
    /\ UNCHANGED <<first, now, pc, stack, vpi_mode_flag, version, removals, dangling>>

-----------------------------------------------------------------------------
(* vpi_remove_cb, and a change of a value.                                 *)

\* Only the routine is forgotten: whoever meets the cell next frees it.
\* A handle is valid until its callback has run (a one-time callback) or was
\* removed.  A phase calls its callbacks without looking at the routine, so one
\* that was removed is a call through a null pointer: such removals are left out.
vpi_remove_cb(c) ==
    /\ UserCode /\ removals < MaxRemovals
    /\ Live(c) /\ callback[c].rtn
    /\ callback[c].list \notin Phases
    /\ callback[c].list \in Syncs => \A i \in 1..Len(stack) : stack[i].cur # c
    /\ callback' = [callback EXCEPT ![c].rtn = FALSE]
    /\ removals' = removals + 1
    /\ UNCHANGED <<first, agenda, now, pc, stack, vpi_mode_flag, version, dangling>>

Changes == FoldSet(LAMBDA p, n : n + version[p[1]][p[2]], 0,
                   UNION {{<<o, w>> : w \in Words[o]} : o \in Objects})

\* A signal gets a new value, an array word is written, an event triggered.
Change(o, w) ==
    /\ UserCode /\ pc # "startup" /\ ~ReadOnly /\ Changes < MaxChanges
    /\ version' = [version EXCEPT ![o][w] = @ + 1]
    /\ stack' = <<Walk(o, w)>> \o stack
    /\ UNCHANGED <<callback, first, agenda, now, pc, vpi_mode_flag, removals, dangling>>

-----------------------------------------------------------------------------
(* run_vpi_callbacks, array_word_change, vpip_run_named_event_callbacks.   *)

Walking == stack # <<>> /\ Top.cur = 0

WalkEnd ==
    /\ Walking /\ Top.next = 0
    /\ stack' = Tail(stack)
    /\ UNCHANGED <<callback, first, agenda, now, pc, vpi_mode_flag, version, removals, dangling>>

\* The walk goes on with callback c, which is in memory.
WalkTo(c) == Walking /\ Top.next = c /\ Live(c)

\* Slip: the walk ends there.
WalkPast_slip(c) ==
    /\ WalkTo(c) /\ ~Watches(c, Top.word)
    /\ stack' = <<[Top EXCEPT !.prev = c, !.next = 0]>> \o Tail(stack)
    /\ UNCHANGED <<callback, first, agenda, now, pc, vpi_mode_flag, version, removals, dangling>>

\* A callback for another word stays, removed or not.
WalkPast(c) ==
    /\ WalkTo(c) /\ ~Watches(c, Top.word)
    /\ stack' = <<[Top EXCEPT !.prev = c, !.next = callback[c].next]>> \o Tail(stack)
    /\ UNCHANGED <<callback, first, agenda, now, pc, vpi_mode_flag, version, removals, dangling>>

\* callback_execute; the value is fetched just before.
callback_execute(c) ==
    /\ WalkTo(c) /\ Watches(c, Top.word) /\ callback[c].rtn
    /\ callback' = [callback EXCEPT ![c].seen[Top.word] = version[Top.list][Top.word]]
    /\ stack' = <<[Top EXCEPT !.cur = c, !.next = callback[c].next,
                              !.mode = vpi_mode_flag]>> \o Tail(stack)
    /\ vpi_mode_flag' = "RWSYNC"
    /\ UNCHANGED <<first, agenda, now, pc, version, removals, dangling>>

\* A walk that routines of outer walks wait for frees the callback such a routine
\* belongs to, or the one its walk has saved as the next: what the outer walk does
\* then is undefined.  Here it ends at freed memory, and nothing is claimed of it.
Loses(c) == \E i \in 2..Len(stack) : c \in {stack[i].cur, stack[i].next}

\* A removed callback is unlinked and freed.  Not in the code: dangling.
Reap(c) ==
    /\ WalkTo(c) /\ Watches(c, Top.word) /\ ~callback[c].rtn
    /\ IF Top.prev = 0
       THEN /\ first' = [first EXCEPT ![Top.list] = callback[c].next]
            /\ callback' = [callback EXCEPT ![c] = Freed]
       ELSE /\ callback' = [callback EXCEPT ![Top.prev].next = callback[c].next,
                                            ![c] = Freed]
            /\ UNCHANGED first
    /\ stack' = <<[Top EXCEPT !.next = callback[c].next]>> \o Tail(stack)
    /\ dangling' = (dangling \/ Loses(c))
    /\ UNCHANGED <<agenda, now, pc, vpi_mode_flag, version, removals>>

\* A routine returns: the walk that called it goes on; a callback for a phase or
\* a time has done its duty.
\* Slip: the mode stays that of the routine.
Return_slip ==
    /\ InRoutine
    /\ IF Top.list \in Objects
       THEN /\ stack' = <<[Top EXCEPT !.cur = 0, !.prev = Top.cur]>> \o Tail(stack)
            /\ UNCHANGED <<callback, vpi_mode_flag>>
       ELSE /\ callback' = [callback EXCEPT ![Top.cur] = Freed]
            /\ vpi_mode_flag' = IF Top.list \in Syncs THEN "NONE" ELSE vpi_mode_flag
            /\ stack' = Tail(stack)
    /\ UNCHANGED <<first, agenda, now, pc, version, removals, dangling>>

Return ==
    /\ InRoutine
    /\ IF Top.list \in Objects
       THEN /\ stack' = <<[Top EXCEPT !.cur = 0, !.prev = Top.cur]>> \o Tail(stack)
            /\ vpi_mode_flag' = Top.mode
            /\ UNCHANGED callback
       ELSE /\ callback' = [callback EXCEPT ![Top.cur] = Freed]
            /\ vpi_mode_flag' = IF Top.list \in Syncs THEN "NONE" ELSE vpi_mode_flag
            /\ stack' = Tail(stack)
    /\ UNCHANGED <<first, agenda, now, pc, version, removals, dangling>>

-----------------------------------------------------------------------------
(* vpiEndOfCompile, vpiStartOfSim, vpiNextSimTime, vpiPostsim.             *)

InPhase == stack = <<>> /\ pc \in Phases

\* The first callback is taken off the list and called.
PhaseCall ==
    /\ InPhase /\ first[pc] # 0
    /\ first' = [first EXCEPT ![pc] = callback[first[pc]].next]
    /\ stack' = <<Call(first[pc])>>
    /\ UNCHANGED <<callback, agenda, now, pc, vpi_mode_flag, version, removals, dangling>>

PhaseEnd ==
    /\ InPhase /\ first[pc] = 0
    /\ CASE pc = "EndOfCompile" -> pc' = "init" /\ vpi_mode_flag' = "NONE"
         [] pc = "StartOfSimulation" -> pc' = "loop" /\ vpi_mode_flag' = "NONE"
         [] pc = "NextSimTime" -> pc' = "start" /\ UNCHANGED vpi_mode_flag
         [] pc = "EndOfSimulation" -> pc' = "done" /\ vpi_mode_flag' = "NONE"
    /\ UNCHANGED <<callback, first, agenda, now, stack, version, removals, dangling>>

-----------------------------------------------------------------------------
(* schedule_simulate and sync_cb::run_run.                                 *)

Idle == stack = <<>>

Begin ==
    /\ Idle /\ pc = "startup"
    /\ pc' = "EndOfCompile" /\ vpi_mode_flag' = "RWSYNC"
    /\ UNCHANGED <<callback, first, agenda, now, stack, version, removals, dangling>>

\* The events of schedule_init_list have run.
InitDone ==
    /\ Idle /\ pc = "init"
    /\ pc' = "StartOfSimulation" /\ vpi_mode_flag' = "RWSYNC"
    /\ UNCHANGED <<callback, first, agenda, now, stack, version, removals, dangling>>

DueNow == {i \in 1..Len(agenda) : callback[agenda[i]].due = now}

\* The region of an event; between those that may write no order is assumed.
Turn(c) ==
    CASE callback[c].list = "StartOfSimTime" -> pc = "start"
      [] callback[c].list \in {"AfterDelay", "ReadWriteSynch"} -> pc = "loop"
      [] callback[c].list = "ReadOnlySynch" ->
             /\ pc = "loop"
             /\ \A i \in DueNow : callback[agenda[i]].list = "ReadOnlySynch"

\* Slip: a removed callback is not freed.
run_run_slip ==
    /\ Idle
    /\ \E i \in DueNow :
          LET c == agenda[i]
          IN  /\ Turn(c)
              /\ agenda' = RemoveAt(agenda, i)
              /\ IF callback[c].rtn
                 THEN /\ stack' = <<Call(c)>>
                      /\ vpi_mode_flag' = IF callback[c].list = "ReadOnlySynch"
                                          THEN "ROSYNC" ELSE "RWSYNC"
                 ELSE UNCHANGED <<stack, vpi_mode_flag>>
    /\ UNCHANGED <<callback, first, now, pc, version, removals, dangling>>

\* sync_cb::run_run: a removed callback is only freed.
run_run ==
    /\ Idle
    /\ \E i \in DueNow :
          LET c == agenda[i]
          IN  /\ Turn(c)
              /\ agenda' = RemoveAt(agenda, i)
              /\ IF callback[c].rtn
                 THEN /\ stack' = <<Call(c)>>
                      /\ vpi_mode_flag' = IF callback[c].list = "ReadOnlySynch"
                                          THEN "ROSYNC" ELSE "RWSYNC"
                      /\ UNCHANGED callback
                 ELSE /\ callback' = [callback EXCEPT ![c] = Freed]
                      /\ UNCHANGED <<stack, vpi_mode_flag>>
    /\ UNCHANGED <<first, now, pc, version, removals, dangling>>

StartOver ==
    /\ Idle /\ pc = "start" /\ \A i \in DueNow : ~Turn(agenda[i])
    /\ pc' = "loop"
    /\ UNCHANGED <<callback, first, agenda, now, stack, vpi_mode_flag, version, removals, dangling>>

\* The design has its own events: time may pass at any pace.
Advance ==
    /\ Idle /\ pc = "loop" /\ DueNow = {} /\ now < MaxTime
    /\ now' = now + 1 /\ pc' = "NextSimTime"
    /\ UNCHANGED <<callback, first, agenda, stack, vpi_mode_flag, version, removals, dangling>>

\* Nothing is left to do, or $finish was called.
Finish ==
    /\ Idle /\ pc = "loop" /\ DueNow = {}
    /\ pc' = "EndOfSimulation" /\ vpi_mode_flag' = "ROSYNC"
    /\ UNCHANGED <<callback, first, agenda, now, stack, version, removals, dangling>>

Init ==
    /\ callback = [c \in Callbacks |-> NoCallback]
    /\ first = [l \in Objects \cup Phases |-> 0]
    /\ agenda = <<>> /\ now = 0 /\ pc = "startup" /\ stack = <<>>
    /\ vpi_mode_flag = "NONE"
    /\ version = [o \in Objects |-> [w \in Words[o] |-> 0]]
    /\ removals = 0 /\ dangling = FALSE

User ==
    \/ RegisterValueChange \/ RegisterPhase \/ RegisterSync
    \/ \E c \in Callbacks : vpi_remove_cb(c)
    \/ \E o \in Objects : \E w \in Words[o] : Change(o, w)

Vvp ==
    \/ WalkEnd
    \/ \E c \in Callbacks : WalkPast(c) \/ callback_execute(c) \/ Reap(c)
    \/ PhaseCall \/ PhaseEnd \/ Begin \/ InitDone \/ run_run \/ StartOver
    \/ Advance \/ Finish

Next == User \/ Return \/ Vvp

Spec == Init /\ [][Next]_vars

\* vvp goes on, and the routines it calls return.
FairSpec == Spec /\ WF_vars(Return \/ Vvp)

-----------------------------------------------------------------------------
(* Properties.  They speak of executions in which no inner walk has freed a *)
(* removed callback that an outer walk of the list is at or goes on with:  *)
(* vpi_callback.cc:561 does not look for one.                              *)

\* No walk follows a pointer to a callback that was freed or finds the list
\* linked otherwise than it left it (assertion prev->next == cur), although
\* routines add and remove callbacks of the list they are called from and start
\* walks of it, which free them: only what an outer walk is at or goes on with
\* must not be freed.  And however calls are nested, the mode they ran in is gone
\* when the outermost one has returned (the phases and sync_cb::run_run assert it).
AssertsHold ==
    ~dangling =>
        /\ Walking /\ Top.next # 0 =>
            /\ Live(Top.next)
            /\ Top.prev # 0 /\ ~callback[Top.next].rtn /\ Watches(Top.next, Top.word) =>
                  Live(Top.prev) /\ callback[Top.prev].next = Top.next
        /\ stack = <<>> /\ pc \notin Phases => vpi_mode_flag = "NONE"

\* The cells reached from the head of a list.
Chain(l) ==
    LET at[n \in 0..MaxCallbacks] ==
          IF n = 0 THEN first[l]
          ELSE IF at[n - 1] = 0 THEN 0 ELSE callback[at[n - 1]].next
    IN  at

\* Every callback that is alive is held once and only once: in the list of its
\* object or phase, in the scheduler, or, when its one routine call is running,
\* by that call; and nothing holds a callback that is not alive.  Otherwise one
\* would never be called or freed, or be called after it was.
HeldOnce ==
    ~dangling =>
        /\ \A l \in Objects \cup Phases :
              /\ Chain(l)[MaxCallbacks] = 0
              /\ {Chain(l)[n] : n \in 0..MaxCallbacks} \ {0} =
                    {c \in Callbacks : Live(c) /\ callback[c].list = l
                                       /\ ~(l \in Phases /\ stack # <<>> /\ Last(stack).cur = c)}
        /\ \A c \in Callbacks :
              Cardinality({i \in 1..Len(agenda) : agenda[i] = c}) =
                IF /\ Live(c) /\ callback[c].list \in Syncs
                   /\ ~(stack # <<>> /\ Last(stack).cur = c)
                THEN 1 ELSE 0

\* When all calls have returned, every callback that is left on an object has
\* been given the latest value of each word it watches, although routines add
\* and remove callbacks and change the values again while a walk is under way.
ChangesSeen ==
    ~dangling /\ stack = <<>> =>
        \A c \in Callbacks : Live(c) /\ callback[c].rtn /\ callback[c].list \in Objects =>
            \A w \in Words[callback[c].list] :
                Watches(c, w) => callback[c].seen[w] = version[callback[c].list][w]

\* A callback for a time, removed or not, is gone once this time has been run.
Served ==
    \A c \in Callbacks :
        (Live(c) /\ callback[c].list \in Syncs /\ callback[c].due = now /\ pc = "loop")
            ~> ~Live(c) \/ dangling

=============================================================================
