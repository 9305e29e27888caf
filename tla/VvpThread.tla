------------------------------- MODULE VvpThread -------------------------------
(***************************************************************************)
(* The threads of vvp (vthread.cc): %fork, %join, %end, %disable, %wait,   *)
(* %delay and what reaps and deletes a thread.  The other opcodes change   *)
(* no thread: which of these a running thread executes next is up to the   *)
(* program, within what the code generator emits (Children, Calling).      *)
(* Memory is never handed out twice: a deleted thread stays freed.  A null *)
(* pointer has no record, so TLC stops where one is followed.              *)
(***************************************************************************)
EXTENDS Naturals, Sequences, SequencesExt, FiniteSets

CONSTANTS
    Programs,     \* the programs to run, by name
    MaxThreads,   \* threads created in a run, at most
    Roots,        \* how many of them are .thread statements of the module
    Module,       \* the scope of those; it cannot be disabled
    FORK_COUNTS   \* the values of the bit field fork_count: 2^8

\* A program has scopes of tasks and named blocks, scopes of functions, blocks
\* some %disable names, events to %wait for, and threads that call tasks with
\* sync callbacks.
ASSUME ProgramsAssumption ==
    /\ MaxThreads \in Nat /\ Roots \in 1..MaxThreads
    /\ FORK_COUNTS \in Nat \ {0}
    /\ \A p \in Range(Programs) :
         /\ p.threads \in Roots..MaxThreads
         /\ p.disabled \subseteq p.blocks
         /\ Module \notin p.blocks \cup p.functions

VARIABLES
    program,                 \* which one runs
    thread,                  \* the vthread_s objects
    scope_next, scope_prev,  \* the circular list of each scope
    active, delayed,         \* the chains scheduled for now; threads for later
    del_thr,                 \* threads to delete when the time step is over
    waiting_list,            \* per event, the threads waiting for it
    running, rest,           \* vthread_run: the thread, the rest of its chain
    target,                  \* of_DISABLE: the scope it empties, or NoScope
    disabling,               \* the calls of do_disable, innermost first
    myself,                  \* of_DISABLE has met the running thread
    fault,                   \* an assert failed or freed memory was used
    reentered                \* not in the code: see Reenters

queues == <<active, delayed, del_thr, waiting_list>>
links == <<scope_next, scope_prev>>
disable == <<target, disabling, myself>>
vars == <<program, thread, links, queues, running, rest, disable, fault, reentered>>

Threads == 1..MaxThreads
P == Programs[program]
Scopes == {Module} \cup P.blocks \cup P.functions
NoScope == "none"
None == 0

\* The header cell of a scope is not a thread.
ASSUME ScopesAssumption ==
    \A p \in Range(Programs) : \A s \in {Module} \cup p.blocks \cup p.functions :
        s # NoScope /\ s \notin Threads

\* off: pc is codespace_null.  wait_next is the order of the chains in active,
\* rest and waiting_list.  Not in the code: forker, the thread that forked this
\* one; line, this thread and those it descends from.
Vthread ==
    [life: {"unborn", "live", "freed"}, off: BOOLEAN,
     i_have_ended: BOOLEAN, schedule_parent_on_end: BOOLEAN,
     waiting_for_event: BOOLEAN, is_scheduled: BOOLEAN, delay_delete: BOOLEAN,
     fork_count: 0..(FORK_COUNTS - 1),
     child: Threads \cup {None}, parent: Threads \cup {None},
     scope: Scopes, forker: Threads \cup {None}, line: SUBSET Threads]

Live(t) == thread[t].life = "live"
Freed(n) == n \in Threads /\ thread[n].life = "freed"

\* What a step did wrong: it used the freed among these, or broke an assert.
Checked(used, asserted) ==
    fault' = IF \E n \in used : Freed(n) THEN "freed"
             ELSE IF ~asserted THEN "assert" ELSE fault

-----------------------------------------------------------------------------
(* Creating, reaping and deleting.                                         *)

NewThread(s, forker, line) ==
    [life |-> "live", off |-> FALSE, i_have_ended |-> FALSE,
     schedule_parent_on_end |-> FALSE, waiting_for_event |-> FALSE,
     is_scheduled |-> FALSE, delay_delete |-> FALSE, fork_count |-> 0,
     child |-> None, parent |-> None, scope |-> s, forker |-> forker,
     line |-> line]

Unborn == [NewThread(Module, None, {}) EXCEPT !.life = "unborn"]

Deleted == [NewThread(Module, None, {}) EXCEPT !.life = "freed"]

\* A new thread goes behind the header cell of its scope.
\* Slip: it is made the whole list.
LinkScope_only(t, s) ==
    /\ scope_next' = [scope_next EXCEPT ![t] = s, ![s] = t]
    /\ scope_prev' = [scope_prev EXCEPT ![t] = s, ![s] = t]

LinkScope(t, s) ==
    /\ scope_next' = [scope_next EXCEPT ![t] = scope_next[s], ![s] = t]
    /\ scope_prev' = [scope_prev EXCEPT ![t] = s, ![scope_next[s]] = t]

\* The cell's own pointers keep their values.
UnlinkScope(t) ==
    /\ scope_next' = [scope_next EXCEPT ![scope_prev[t]] = scope_next[t]]
    /\ scope_prev' = [scope_prev EXCEPT ![scope_next[t]] = scope_prev[t]]

Neighbours(t) == {scope_next[t], scope_prev[t]}

\* Slip: whoever waits for it or schedules it.
Idle_always(m, t) == TRUE

Idle(m, t) == ~m[t].is_scheduled /\ ~m[t].waiting_for_event

\* vthread_reap without the scope list: t leaves the stack of threads, its
\* child goes to its parent.  If nothing else holds it, it is deleted.
Reaped(m, t) ==
    [u \in Threads |->
        CASE u = t -> IF Idle(m, t) /\ ~m[t].delay_delete THEN Deleted
                      ELSE [m[t] EXCEPT !.child = None, !.parent = None, !.off = TRUE]
          [] u = m[t].child -> [m[u] EXCEPT !.parent = m[t].parent]
          [] u = m[t].parent -> [m[u] EXCEPT !.child = m[t].child]
          [] OTHER -> m[u]]

\* The asserts of vthread_reap.
Reapable(m, t) ==
    /\ m[t].child # None => m[m[t].child].parent = t
    /\ m[t].parent # None => m[m[t].parent].child = t
    /\ Idle(m, t) => m[t].fork_count = 0

DeleteLater(m, t) ==
    del_thr' = IF Idle(m, t) /\ m[t].delay_delete THEN del_thr \cup {t} ELSE del_thr

vthread_reap(m, t) ==
    /\ thread' = Reaped(m, t)
    /\ UnlinkScope(t)
    /\ DeleteLater(m, t)

-----------------------------------------------------------------------------
(* vthread_run.                                                            *)

Quiet == target = NoScope /\ fault = "none"
Executes(t) == Quiet /\ running = t

\* The bit field wraps.
Plus(n) == (n + 1) % FORK_COUNTS
Minus(n) == (n + FORK_COUNTS - 1) % FORK_COUNTS

\* schedule_vthread with push_flag.
\* Slip: the event is created and not linked in.
Push_lost(t) == UNCHANGED active

Push(t) == active' = <<<<t>>>> \o active

Start(t) ==
    /\ running' = t
    /\ thread' = [thread EXCEPT ![t].is_scheduled = FALSE]
    /\ Checked({t}, thread[t].is_scheduled)

RunChain ==
    /\ Executes(None) /\ rest = <<>>
    /\ active # <<>>
    /\ active' = Tail(active)
    /\ Start(Head(active)[1])
    /\ rest' = Tail(Head(active))
    /\ UNCHANGED <<program, links, delayed, del_thr, waiting_list, disable, reentered>>

RunNext ==
    /\ Executes(None) /\ rest # <<>>
    /\ Start(Head(rest))
    /\ rest' = Tail(rest)
    /\ UNCHANGED <<program, links, queues, disable, reentered>>

\* The time step is over when nothing is scheduled for now.
TimeStepOver == Executes(None) /\ rest = <<>> /\ active = <<>>

DeleteThreads ==
    /\ TimeStepOver
    /\ del_thr # {}
    /\ del_thr' = {}
    /\ thread' = [u \in Threads |-> IF u \in del_thr THEN Deleted ELSE thread[u]]
    /\ Checked(del_thr, TRUE)
    /\ UNCHANGED <<program, links, active, delayed, waiting_list, running, rest, disable, reentered>>

AdvanceTime ==
    /\ TimeStepOver
    /\ del_thr = {}
    /\ \E due \in SUBSET delayed \ {{}} : \E order \in SetToSeqs(due) :
         /\ active' = [i \in DOMAIN order |-> <<order[i]>>]
         /\ delayed' = delayed \ due
    /\ UNCHANGED <<program, thread, links, del_thr, waiting_list, running, rest, disable, fault, reentered>>

-----------------------------------------------------------------------------
(* The opcodes; t is the running thread.                                   *)

Program(t) == t # None /\ Executes(t) /\ ~thread[t].off

\* The threads t has forked and not joined.  The code generator emits one %join
\* for each, before the %end.
Children(t) == {u \in Threads : Live(u) /\ thread[u].forker = t
                                        /\ thread[u].parent # None}

\* After a %fork into another scope, a call or a named block, only more %forks
\* into it and the %joins follow.
Calling(t) ==
    /\ Children(t) # {}
    /\ thread[thread[t].child].scope # thread[t].scope

Unreaped(u) == Live(u) /\ (thread[u].parent # None \/ ~thread[u].i_have_ended)


\* The new thread goes on top of the stack of t's children.
\* Slip: the child under it still takes t for its parent.
Forked_keepParent(t, c, s) ==
    [u \in Threads |->
        CASE u = c -> [NewThread(s, t, {c} \cup thread[t].line) EXCEPT
                        !.child = thread[t].child, !.parent = t, !.is_scheduled = TRUE]
          [] u = t -> [thread[t] EXCEPT !.child = c, !.fork_count = Plus(@)]
          [] OTHER -> thread[u]]

Forked(t, c, s) ==
    [u \in Threads |->
        CASE u = c -> [NewThread(s, t, {c} \cup thread[t].line) EXCEPT
                        !.child = thread[t].child, !.parent = t, !.is_scheduled = TRUE]
          [] u = t -> [thread[t] EXCEPT !.child = c, !.fork_count = Plus(@)]
          [] u = thread[t].child -> [thread[u] EXCEPT !.parent = c]
          [] OTHER -> thread[u]]

\* The thread runs in a disabled block, or in what one has called.
WithinDisabled(t) == \E u \in thread[t].line : thread[u].scope \in P.disabled

\* The scopes it is in, up to the outermost disabled block.
Enclosing(t) == {thread[u].scope : u \in {v \in thread[t].line : WithinDisabled(v)}}

NewId == CHOOSE c \in Threads : thread[c].life = "unborn"
                              /\ \A u \in 1..(c - 1) : thread[u].life # "unborn"

CanFork(t, s) ==
    /\ \E c \in 1..P.threads : thread[c].life = "unborn"
    /\ Calling(t) => s = thread[thread[t].child].scope

\* History: t enters the disabled block s while another thread is in it, or one
\* that a %disable has ended is not joined; or it enters a scope again from inside
\* a disabled block, by an unnamed fork or a recursive call.
Reenters(t, s) ==
    \/ s \in Enclosing(t)
    \/ /\ s \in P.disabled /\ s # thread[t].scope
       /\ \E u \in Threads : /\ Unreaped(u) /\ thread[u].scope = s
                             /\ thread[u].forker = t => thread[u].off

ForkChecked(t, s) ==
    Checked({scope_next[s], thread[t].child},
            thread[t].child # None => thread[thread[t].child].parent = t)

of_FORK(t) ==
    /\ Program(t)
    /\ \E s \in P.blocks \cup {thread[t].scope} :
         /\ CanFork(t, s)
         /\ thread' = Forked(t, NewId, s)
         /\ LinkScope(NewId, s)
         /\ Push(NewId)
         /\ ForkChecked(t, s)
         /\ reentered' = (reentered \/ Reenters(t, s))
    /\ UNCHANGED <<program, delayed, del_thr, waiting_list, running, rest, disable>>

\* A function runs to its %end at once ("may not contain any blocking
\* statements") and is left as a zombie for the %join.
of_FORK_function(t) ==
    /\ Program(t)
    /\ \E s \in P.functions :
         /\ CanFork(t, s)
         /\ ~Calling(t)
         /\ thread' = [Forked(t, NewId, s) EXCEPT
                         ![NewId].is_scheduled = FALSE, ![NewId].off = TRUE,
                         ![NewId].i_have_ended = TRUE]
         /\ LinkScope(NewId, s)
         /\ ForkChecked(t, s)
         /\ reentered' = (reentered \/ Reenters(t, s))
    /\ UNCHANGED <<program, queues, running, rest, disable>>

\* A child that has ended is reaped and t goes on; else t sleeps until the
\* child schedules it.
of_JOIN(t) ==
    /\ Program(t)
    /\ Children(t) # {}
    /\ LET c == thread[t].child
           m == [thread EXCEPT ![t].fork_count = Minus(@)]
       IN  IF thread[c].i_have_ended
           THEN /\ vthread_reap(m, c)
                /\ Checked({c, thread[c].child} \cup Neighbours(c),
                           /\ thread[c].parent = t /\ thread[t].fork_count > 0
                           /\ Reapable(m, c))
                /\ UNCHANGED running
           ELSE /\ thread' = [thread EXCEPT ![c].schedule_parent_on_end = TRUE]
                /\ running' = None
                /\ Checked({c}, thread[c].parent = t /\ thread[t].fork_count > 0)
                /\ UNCHANGED <<links, del_thr>>
    /\ UNCHANGED <<program, active, delayed, waiting_list, rest, disable, reentered>>

\* t ends and its parent waits: the parent's %join is completed for it, it is
\* scheduled ahead of everything, and t reaps itself.
WakeParent(t) ==
    LET p == thread[t].parent
        m == [thread EXCEPT ![t].i_have_ended = TRUE, ![t].off = TRUE,
                            ![p].fork_count = Minus(@), ![p].is_scheduled = TRUE]
    IN  IF p = None
        THEN Checked({}, FALSE) /\ UNCHANGED <<thread, links, active, del_thr>>
        ELSE /\ vthread_reap(m, t)
             /\ Push(p)
             /\ Checked({p, thread[t].child} \cup Neighbours(t),
                        /\ thread[p].fork_count > 0 /\ ~thread[p].is_scheduled
                        /\ Reapable(m, t))

EndWithoutParent(t) ==
    LET m == [thread EXCEPT ![t].i_have_ended = TRUE, ![t].off = TRUE] IN
      /\ vthread_reap(m, t)
      /\ Checked(Neighbours(t) \cup {thread[t].child}, Reapable(m, t))
      /\ UNCHANGED active

StayZombie(t) ==
    /\ thread' = [thread EXCEPT ![t].i_have_ended = TRUE, ![t].off = TRUE]
    /\ Checked({}, TRUE)
    /\ UNCHANGED <<links, active, del_thr>>

EndAllowed(t) ==
    /\ ~thread[t].waiting_for_event /\ thread[t].fork_count = 0
    /\ thread[t].parent = None => thread[t].child = None

of_END(t) ==
    /\ Program(t)
    /\ Children(t) = {}
    /\ IF ~EndAllowed(t)
       THEN Checked({}, FALSE) /\ UNCHANGED <<thread, links, active, del_thr>>
       ELSE IF thread[t].schedule_parent_on_end THEN WakeParent(t)
       ELSE IF thread[t].parent = None THEN EndWithoutParent(t)
       ELSE StayZombie(t)
    /\ running' = None
    /\ UNCHANGED <<program, delayed, waiting_list, rest, disable, reentered>>

\* Slip: a thread that has ended is taken to be deleted by its %end.
Orphan_notEnded(t) ==
    ~thread[t].i_have_ended /\ thread[t].parent = None /\ thread[t].child = None

Orphan(t) == thread[t].parent = None /\ thread[t].child = None

\* What is left to run of a thread that was turned off.
of_ZOMBIE(t) ==
    /\ t # None /\ Executes(t) /\ thread[t].off
    /\ del_thr' = IF Orphan(t) /\ thread[t].delay_delete
                  THEN del_thr \cup {t} ELSE del_thr
    /\ thread' = IF Orphan(t) /\ ~thread[t].delay_delete
                 THEN [thread EXCEPT ![t] = Deleted] ELSE thread
    /\ running' = None
    /\ UNCHANGED <<program, links, active, delayed, waiting_list, rest, disable, fault, reentered>>

of_DELAY(t) ==
    /\ Program(t) /\ ~Calling(t)
    /\ thread' = [thread EXCEPT ![t].is_scheduled = TRUE]
    /\ \/ delayed' = delayed \cup {t} /\ UNCHANGED active
       \/ active' = Append(active, <<t>>) /\ UNCHANGED delayed
    /\ Checked({}, ~thread[t].is_scheduled)
    /\ running' = None
    /\ UNCHANGED <<program, links, del_thr, waiting_list, rest, disable, reentered>>

of_WAIT(t) ==
    /\ Program(t) /\ ~Calling(t)
    /\ \E e \in P.events : waiting_list' = [waiting_list EXCEPT ![e] = <<t>> \o @]
    /\ thread' = [thread EXCEPT ![t].waiting_for_event = TRUE]
    /\ Checked({}, ~thread[t].waiting_for_event)
    /\ running' = None
    /\ UNCHANGED <<program, links, active, delayed, del_thr, rest, disable, reentered>>

\* A sync callback of a task t calls: t is kept until the step is over.
vthread_delay_delete(t) ==
    /\ Program(t) /\ ~Calling(t)
    /\ t \in P.sync
    /\ thread' = [thread EXCEPT ![t].delay_delete = TRUE]
    /\ UNCHANGED <<program, links, queues, running, rest, disable, fault, reentered>>

\* run_waiting_threads_: a thread or a net changes the event, and everything on
\* its list is scheduled as one chain.
Trigger ==
    /\ Quiet
    /\ IF running = None THEN rest = <<>> ELSE Program(running) /\ ~Calling(running)
    /\ \E e \in P.events :
         LET woken == Range(waiting_list[e]) IN
           /\ woken # {}
           /\ thread' = [u \in Threads |->
                IF u \in woken THEN [thread[u] EXCEPT !.waiting_for_event = FALSE,
                                                      !.is_scheduled = TRUE]
                ELSE thread[u]]
           /\ active' = Append(active, waiting_list[e])
           /\ waiting_list' = [waiting_list EXCEPT ![e] = <<>>]
           /\ Checked(woken, \A u \in woken : /\ thread[u].waiting_for_event
                                              /\ ~thread[u].is_scheduled)
    /\ UNCHANGED <<program, links, delayed, del_thr, running, rest, disable, reentered>>

-----------------------------------------------------------------------------
(* of_DISABLE; each call of do_disable enters and leaves in steps.         *)

of_DISABLE(t) ==
    /\ Program(t) /\ ~Calling(t)
    /\ \E s \in P.disabled : target' = s
    /\ myself' = FALSE
    /\ UNCHANGED <<program, thread, links, queues, running, rest, disabling, fault, reentered>>

Disabling == target # NoScope /\ fault = "none"

\* do_disable up to its loop: out of the scope list, and off.
\* Slip: it stays in the list.
Enter_listed(m, t) ==
    /\ UNCHANGED links
    /\ thread' = [m EXCEPT ![t].off = TRUE, ![t].i_have_ended = TRUE]
    /\ disabling' = <<t>> \o disabling
    /\ myself' = (myself \/ t = running)

Enter(m, t) ==
    /\ UnlinkScope(t)
    /\ thread' = [m EXCEPT ![t].off = TRUE, ![t].i_have_ended = TRUE]
    /\ disabling' = <<t>> \o disabling
    /\ myself' = (myself \/ t = running)

DisableFirst ==
    /\ Disabling /\ disabling = <<>>
    /\ LET t == scope_next[target] IN
         /\ t # target
         /\ Enter(thread, t)
         /\ Checked({t} \cup Neighbours(t), TRUE)
    /\ UNCHANGED <<program, queues, running, rest, target, reentered>>

DisableChild ==
    /\ Disabling /\ disabling # <<>>
    /\ LET t == Head(disabling)
           c == thread[t].child
       IN  /\ thread[t].fork_count > 0
           /\ IF c = None
              THEN Checked({t}, FALSE) /\ UNCHANGED <<thread, links, disabling, myself>>
              ELSE /\ Enter([thread EXCEPT ![c].schedule_parent_on_end = FALSE], c)
                   /\ Checked({t, c} \cup Neighbours(c), thread[c].parent = t)
    /\ UNCHANGED <<program, queues, running, rest, target, reentered>>

\* A child, which has a parent and is not to wake it, returns to the do_disable
\* of the parent, which reaps it.
ReturnToParent ==
    /\ Disabling /\ Len(disabling) > 1
    /\ LET t == Head(disabling)
           p == disabling[2]
           m == [thread EXCEPT ![p].fork_count = Minus(@)]
       IN  /\ thread[t].fork_count = 0
           /\ vthread_reap(m, t)
           /\ Checked({t, p} \cup Neighbours(t), Reapable(m, t))
    /\ disabling' = Tail(disabling)
    /\ UNCHANGED <<program, active, delayed, waiting_list, running, rest, target, myself, reentered>>

\* A thread the scope listed: its waiting parent is woken, or its parent's
\* %join will reap it, or nobody will.
Leave(t) ==
    IF thread[t].schedule_parent_on_end THEN WakeParent(t)
    ELSE IF thread[t].parent = None THEN EndWithoutParent(t)
    ELSE UNCHANGED <<thread, links, active, del_thr, fault>>

ReturnToScope ==
    /\ Disabling /\ Len(disabling) = 1
    /\ thread[Head(disabling)].fork_count = 0
    /\ Leave(Head(disabling))
    /\ disabling' = <<>>
    /\ UNCHANGED <<program, delayed, waiting_list, running, rest, target, myself, reentered>>

\* The list is empty; a thread that disabled itself is paused.
ScopeEmpty ==
    /\ Disabling /\ disabling = <<>>
    /\ scope_next[target] = target
    /\ target' = NoScope
    /\ running' = IF myself THEN None ELSE running
    /\ myself' = FALSE
    /\ UNCHANGED <<program, thread, links, queues, rest, disabling, fault, reentered>>

-----------------------------------------------------------------------------
\* The .thread statements have been compiled, in order.
Init ==
    /\ program \in DOMAIN Programs
    /\ thread = [t \in Threads |->
                   IF t <= Roots
                   THEN [NewThread(Module, None, {t}) EXCEPT !.is_scheduled = TRUE]
                   ELSE Unborn]
    /\ scope_next = [n \in Threads \cup Scopes |->
                       CASE n = Module -> Roots
                         [] n \in 2..Roots -> n - 1
                         [] n = 1 -> Module
                         [] OTHER -> n]
    /\ scope_prev = [n \in Threads \cup Scopes |->
                       CASE n = Module -> 1
                         [] n \in 1..(Roots - 1) -> n + 1
                         [] n = Roots -> Module
                         [] OTHER -> n]
    /\ active = [t \in 1..Roots |-> <<t>>]
    /\ delayed = {}
    /\ del_thr = {}
    /\ waiting_list = [e \in P.events |-> <<>>]
    /\ running = None
    /\ rest = <<>>
    /\ target = NoScope
    /\ disabling = <<>>
    /\ myself = FALSE
    /\ fault = "none"
    /\ reentered = FALSE

Opcode(t) ==
    \/ of_FORK(t) \/ of_FORK_function(t) \/ of_JOIN(t) \/ of_END(t)
    \/ of_ZOMBIE(t) \/ of_DELAY(t) \/ of_WAIT(t) \/ vthread_delay_delete(t)
    \/ of_DISABLE(t)

do_disable ==
    DisableFirst \/ DisableChild \/ ReturnToParent \/ ReturnToScope \/ ScopeEmpty

Next ==
    \/ RunChain \/ RunNext \/ DeleteThreads \/ AdvanceTime \/ Trigger
    \/ Opcode(running)
    \/ do_disable

Spec == Init /\ [][Next]_vars

\* The steps of a %disable are those of one opcode.
FairSpec == Spec /\ WF_vars(do_disable)

-----------------------------------------------------------------------------
(* Properties.                                                             *)

\* The asserts of vthread.cc hold and no step uses a thread that was deleted,
\* whatever the program forks, joins, waits for and disables, until it enters a
\* disabled block again with a thread of an earlier entry still there.  Then they
\* do not (NothingFails).
AssertsHold == reentered \/ fault = "none"

\* The asserts of vthread.cc, among them do_disable's assert(thr->parent), and
\* every pointer it follows.
NothingFails == fault = "none"

Places(t) ==
    Cardinality({i \in DOMAIN active : t \in Range(active[i])})
    + Cardinality({e \in P.events : t \in Range(waiting_list[e])})
    + (IF t \in delayed THEN 1 ELSE 0) + (IF t \in Range(rest) THEN 1 ELSE 0)

\* vthread_reap: "If this thread is not scheduled, then is it safe to delete it
\* now".  Until a fault, in a block that was entered again too, no queue, event,
\* thread or deletion event holds a deleted thread.
DeletedIsUnused ==
    fault = "none" =>
    \A t \in Threads : Freed(t) =>
        /\ Places(t) = 0 /\ t \notin del_thr
        /\ target = NoScope => running # t
        /\ \A u \in Threads : Live(u) => thread[u].child # t /\ thread[u].parent # t

\* Until a fault the stack of threads is linked both ways; fork_count is the
\* number of a thread's children not joined yet, and while there are some the last
\* one is on top: a %join never takes another thread's child.
StackInOrder ==
    fault = "none" =>
    \A t \in Threads : Live(t) =>
        /\ thread[t].child # None => thread[thread[t].child].parent = t
        /\ thread[t].parent # None => thread[thread[t].parent].child = t
        /\ thread[t].fork_count = Cardinality(Children(t))
        /\ Children(t) # {} =>
             /\ thread[t].child \in Children(t)
             /\ \A u \in Children(t) : u <= thread[t].child

WaitsInJoin(t) ==
    /\ thread[t].child # None
    /\ thread[thread[t].child].schedule_parent_on_end
    /\ ~thread[thread[t].child].i_have_ended

\* Until a fault a thread that has not ended is running, or is held by one queue,
\* or by one event, or by the %join of a child that has not ended: none is ever
\* lost and none is scheduled twice.
NoThreadLost ==
    fault = "none" =>
    \A t \in Threads : Live(t) =>
        /\ Places(t) <= 1
        /\ Places(t) = 1 <=> thread[t].is_scheduled \/ thread[t].waiting_for_event
        /\ ~(thread[t].is_scheduled /\ thread[t].waiting_for_event)
        /\ target = NoScope /\ ~thread[t].i_have_ended /\ running # t =>
             (Places(t) = 0 <=> WaitsInJoin(t))

\* Until a fault a thread that nobody will join is deleted, or something is left
\* that will delete it.
NothingLeaks ==
    fault = "none" =>
    \A t \in Threads :
        Live(t) /\ thread[t].i_have_ended /\ thread[t].parent = None =>
            \/ Places(t) = 1
            \/ t \in del_thr
            \/ t = running
            \/ t \in Range(disabling)

\* "The behavior of the disable is to cause all threads executing in the scope
\* to end" (README.txt): so it is until the program enters a disabled block again
\* with a thread of an earlier entry still there.
DisableEndsScope ==
    [][target # NoScope /\ target' = NoScope =>
         \/ reentered
         \/ \A t \in Threads : Live(t) /\ thread[t].scope = target =>
               thread[t].i_have_ended]_vars

\* of_DISABLE and the recursion of do_disable come to an end, or to a fault.
DisableReturns == target # NoScope ~> target = NoScope \/ fault # "none"
=============================================================================
