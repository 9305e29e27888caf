------------------------------- MODULE VvpDelay -------------------------------
(***************************************************************************)
(* vvp/delay.cc: a delay functor (vvp_fun_delay) that drives the output of *)
(* a module path (vvp_fun_modpath with its vvp_fun_modpath_src), as the    *)
(* code generator connects them for "assign #d y = a" in a module with a   *)
(* specify block for y.  Whatever drives the input, the delays, the path   *)
(* inputs and the path conditions is the environment.  Both functors get   *)
(* their runs from the scheduler: the first one scheduled for a time is    *)
(* run first, and time passes only when nothing is left at the present.    *)
(***************************************************************************)
EXTENDS Integers, Sequences, FiniteSets, FiniteSetsExt, SequencesExt

CONSTANTS
    Width,        \* bits of the vector
    Inputs,       \* the vectors the environment drives
    Delays,       \* the initial rise, fall and decay delays
    Settings,     \* what a variable delay may be set to
    Types,        \* the kinds of values in use: "vec4", "real"
    Paths,        \* the module paths, last declared first
    MaxTime, MaxInputs, MaxSettings   \* bounds: time, input changes, others

Bit4 == {"0", "1", "z", "x"}
Vec4 == [1..Width -> Bit4]
Edges == {e \in Bit4 \X Bit4 : e[1] # e[2]}

DelaySet == [rise: Nat, fall: Nat, decay: Nat]

\* A path from an edge on its input, or from any change ("any"); an ifnone
\* path is used when no other applies.
ModPath == [edge: {"any", "pos", "neg"}, ifnone: BOOLEAN, delay: [Edges -> Nat]]

ASSUME WidthAssumption == Width \in Nat \ {0}
ASSUME InputsAssumption == Inputs \subseteq Vec4
ASSUME DelaysAssumption == Delays \subseteq DelaySet /\ Settings \subseteq Nat

\* The bits of a vector must agree on the delay, or an assertion fails.
ASSUME PathsAssumption ==
    /\ Paths \in Seq(ModPath)
    /\ Width > 1 => \A p \in 1..Len(Paths) : \A e, f \in Edges :
                       Paths[p].delay[e] = Paths[p].delay[f]

VARIABLES
    now,                                 \* schedule_simtime()
    queue,                               \* runs scheduled for the two functors
    type_, delay_, initial_, list_,      \* vvp_fun_delay
    cur,                                 \* its cur_vec4_ or cur_real_
    path_cur, path_out,                  \* vvp_fun_modpath: cur_vec4_, last sent
    wake_time, condition_flag, old_value,  \* vvp_fun_modpath_src and _edge
    held,                                \* the last values driven and since when
    overtaken,                           \* has an input overtaken a value, see Drive
    inputs, settings                     \* inputs and settings so far

delayVars == <<type_, delay_, initial_, list_, cur>>
pathVars == <<path_cur, path_out>>
srcVars == <<wake_time, condition_flag, old_value>>
history == <<held, overtaken>>
vars == <<now, queue, delayVars, pathVars, srcVars, history, inputs, settings>>

\* All bits x; for a real, its initial value.
X == [i \in 1..Width |-> "x"]

Run(who, t) == [who |-> who, time |-> t]

\* list_ is circular and held by its newest cell, so that list_->next is the
\* oldest: a sequence here, the oldest first.
Event(t, v) == [sim_time |-> t, value |-> v]

input == held[1].value

-----------------------------------------------------------------------------
(* vvp_delay_t.                                                            *)

MinDelay(d) == Min({d.rise, d.fall, d.decay})

\* The time a bit takes.
get_delay(d, from, to) ==
    CASE from = to -> 0
      [] from # to /\ to = "0" -> d.fall
      [] from # to /\ to = "1" -> d.rise
      [] from # to /\ to = "z" -> d.decay
      [] from # to /\ to = "x" -> MinDelay(d)

\* The slowest bit decides; a real takes the shortest delay.
ChangeDelay(d, from, to) ==
    IF type_ = "real" THEN MinDelay(d)
    ELSE Max({get_delay(d, from[i], to[i]) : i \in 1..Width})

-----------------------------------------------------------------------------
(* vvp_fun_modpath.                                                        *)

\* The entry of a path's delays that is used for a change from a to b.  The
\* table has its rows and columns in the order 0, 1, x, z; vvp_bit4_t,
\* by which it is indexed, has z before x.
delay_from_edge(a, b) ==
    LET entry == [v \in Bit4 |-> CASE v = "z" -> "x" [] v = "x" -> "z" [] OTHER -> v]
    IN  IF a = b THEN <<entry[a], IF a = "0" THEN "1" ELSE "0">>
        ELSE <<entry[a], entry[b]>>

Latest(ps) == {p \in ps : \A q \in ps : wake_time[q] <= wake_time[p]}

\* The paths whose input changed last: those that are enabled, or the ifnone
\* paths if there are none or an ifnone path woke later.  The first ifnone path
\* starts an empty list; at time 0 the others do not join it.
Candidates ==
    LET plain == Latest({p \in 1..Len(Paths) : ~Paths[p].ifnone /\ condition_flag[p]})
        none  == Latest({p \in 1..Len(Paths) : Paths[p].ifnone})
        Woke(ps) == wake_time[CHOOSE p \in ps : TRUE]
    IN  CASE none = {} -> plain
          [] none # {} /\ plain = {} -> IF Woke(none) = 0 THEN {Min(none)} ELSE none
          [] none # {} /\ plain # {} -> IF Woke(none) > Woke(plain) THEN none ELSE plain

\* How long it takes from now until a candidate allows edge e.
OutAt(e) ==
    LET At(p) == wake_time[p] + Paths[p].delay[e]
    IN  Min({IF At(p) <= now THEN 0 ELSE At(p) - now : p \in Candidates})

\* The lowest bit decides (FIXME in the code); without a candidate at once.
PathDelay(from, to) ==
    LET bit == IF from = <<>> THEN "x" ELSE from[1]
    IN  IF Candidates = {} THEN 0 ELSE OutAt(delay_from_edge(bit, to[1]))

\* vvp_fun_modpath::recv_vec4, with q the queue so far.
\* Slip: the new value is compared with the one that was sent last.
path_recv_slip(bit, q) ==
    IF type_ = "real" \/ path_out = bit
    THEN queue' = q /\ UNCHANGED path_cur
    ELSE /\ queue' = Append(q, Run("path", now + PathDelay(path_cur, bit)))
         /\ path_cur' = bit

path_recv(bit, q) ==
    IF type_ = "real" \/ path_cur = bit
    THEN queue' = q /\ UNCHANGED path_cur
    ELSE /\ queue' = Append(q, Run("path", now + PathDelay(path_cur, bit)))
         /\ path_cur' = bit

-----------------------------------------------------------------------------
(* vvp_fun_delay.                                                          *)

\* vvp_send_vec4 or vvp_send_real: the module path has the value at once.
send(bit, q) == cur' = bit /\ initial_' = FALSE /\ path_recv(bit, q)

\* The value a change is measured from: that of an event due now counts as put
\* out already, except for the first values.
\* Slip: always the output.
Reference_slip == cur

Reference ==
    IF ~initial_ /\ list_ # <<>> /\ Head(list_).sim_time = now
    THEN Head(list_).value ELSE cur

\* The loop of clean_pulse_events_: from the oldest on, delete what is not yet
\* due, up to the first that is.
\* Slip: pending events stay.
clean_pulse_events_slip == list_

clean_pulse_events_ ==
    LET due == SelectInSeq(list_, LAMBDA e : e.sim_time <= now)
    IN  IF due = 0 THEN <<>> ELSE SubSeq(list_, due, Len(list_))

\* The value is that of the oldest event: the new one is skipped.
Skips(bit) == list_ # <<>> /\ Head(list_).value = bit

\* recv_vec4 (recv_vec8 is the same) and recv_real on port 0.
recv(bit) ==
    LET wait == ChangeDelay(delay_, Reference, bit)
        kept == clean_pulse_events_
    IN  CASE Skips(bit) -> UNCHANGED <<list_, cur, initial_, queue, path_cur>>
          [] ~Skips(bit) /\ type_ = "real" /\ cur = bit ->
               list_' = kept /\ UNCHANGED <<cur, initial_, queue, path_cur>>
          [] ~Skips(bit) /\ ~(type_ = "real" /\ cur = bit) /\ wait = 0 /\ kept = <<>> ->
               list_' = kept /\ send(bit, queue)
          [] OTHER ->
               /\ list_' = Append(kept, Event(now + wait, bit))
               /\ queue' = Append(queue, Run("delay", now + wait))
               /\ UNCHANGED <<cur, initial_, path_cur>>

\* A value is due from the moment its time has come until its run.  An input
\* that comes in between is measured against it and appended after it, while
\* another value may be pending behind it; a real is measured against the
\* output, which is no longer what it will follow.
Overtakes ==
    /\ list_ # <<>> /\ Head(list_).sim_time = now
    /\ type_ = "real" \/ Len(list_) > 1

\* A new value comes when nothing is pending.
Afresh(bit) == list_ = <<>> /\ bit # input

\* The input net is driven, with a new value or the same once more.  Not in the
\* code: held, and overtaken, which is on from an input that overtakes to the
\* next that finds nothing pending.
Drive(bit) ==
    /\ inputs < MaxInputs /\ now < MaxTime
    /\ recv(bit)
    /\ held' = IF bit = input THEN held
               ELSE <<[value |-> bit, time |-> now, delay |-> delay_,
                       first |-> initial_], Head(held)>>
    /\ overtaken' = (Overtakes \/ (overtaken /\ ~Afresh(bit)))
    /\ inputs' = inputs + 1
    /\ UNCHANGED <<now, type_, delay_, path_out, srcVars, settings>>

\* recv_vec4 or recv_real on ports 1 to 3: set_rise, set_fall, set_decay.
SetDelay(which, val) ==
    /\ settings < MaxSettings /\ now < MaxTime
    /\ delay_' = [delay_ EXCEPT ![which] = val]
    /\ settings' = settings + 1
    /\ UNCHANGED <<now, queue, type_, initial_, list_, cur, pathVars, srcVars, history, inputs>>

-----------------------------------------------------------------------------
(* vvp_fun_modpath_src.                                                    *)

posedge(a, b) == (a = "0" /\ b # "0") \/ (a # "1" /\ b = "1")
negedge(a, b) == (a = "1" /\ b # "1") \/ (a # "0" /\ b = "0")

test_vec4(p, b) ==
    CASE Paths[p].edge = "any" -> TRUE
      [] Paths[p].edge = "pos" -> posedge(old_value[p], b)
      [] Paths[p].edge = "neg" -> negedge(old_value[p], b) /\ ~posedge(old_value[p], b)

\* The input of path p is driven.
PathInput(p, b) ==
    /\ settings < MaxSettings /\ now < MaxTime
    /\ wake_time' = [wake_time EXCEPT ![p] = IF test_vec4(p, b) THEN now ELSE @]
    /\ old_value' = [old_value EXCEPT ![p] = IF Paths[p].edge = "any" THEN @ ELSE b]
    /\ settings' = settings + 1
    /\ UNCHANGED <<now, queue, delayVars, pathVars, condition_flag, history, inputs>>

\* The condition of path p is driven.
PathCondition(p, b) ==
    /\ settings < MaxSettings /\ now < MaxTime /\ ~Paths[p].ifnone
    /\ condition_flag' = [condition_flag EXCEPT ![p] = (b = "1")]
    /\ settings' = settings + 1
    /\ UNCHANGED <<now, queue, delayVars, pathVars, wake_time, old_value, history, inputs>>

-----------------------------------------------------------------------------
(* The scheduler.                                                          *)

Due == SelectInSeq(queue, LAMBDA r : r.time = now)

\* vvp_fun_delay::run_run; a run whose event was deleted finds another or none.
RunDelay ==
    /\ Due # 0 /\ queue[Due].who = "delay"
    /\ IF list_ = <<>> \/ Head(list_).sim_time > now
       THEN queue' = RemoveAt(queue, Due) /\ UNCHANGED <<list_, cur, initial_, path_cur>>
       ELSE list_' = Tail(list_) /\ send(Head(list_).value, RemoveAt(queue, Due))
    /\ UNCHANGED <<now, type_, delay_, path_out, srcVars, history, inputs, settings>>

\* vvp_fun_modpath::run_run.
RunPath ==
    /\ Due # 0 /\ queue[Due].who = "path"
    /\ queue' = RemoveAt(queue, Due)
    /\ path_out' = path_cur
    /\ UNCHANGED <<now, delayVars, path_cur, srcVars, history, inputs, settings>>

Advance ==
    /\ Due = 0 /\ (now < MaxTime \/ queue # <<>>)
    /\ now' = now + 1
    /\ UNCHANGED <<queue, delayVars, pathVars, srcVars, history, inputs, settings>>

Init ==
    /\ now = 0 /\ queue = <<>>
    /\ type_ \in Types /\ delay_ \in Delays /\ initial_ = TRUE
    /\ list_ = <<>> /\ cur = X
    /\ path_cur = <<>> /\ path_out = <<>>   \* no bits, which read as x
    /\ wake_time = [p \in 1..Len(Paths) |-> 0]
    /\ condition_flag = [p \in 1..Len(Paths) |-> TRUE]
    /\ old_value = [p \in 1..Len(Paths) |-> "x"]
    /\ held = <<[value |-> X, time |-> 0, delay |-> delay_, first |-> TRUE]>>
    /\ overtaken = FALSE
    /\ inputs = 0 /\ settings = 0

Environment ==
    \/ \E v \in Inputs : Drive(v)
    \/ \E which \in {"rise", "fall", "decay"}, val \in Settings : SetDelay(which, val)
    \/ \E p \in 1..Len(Paths), b \in {"0", "1"} : PathInput(p, b) \/ PathCondition(p, b)

Scheduler == RunDelay \/ RunPath \/ Advance

Next == Environment \/ Scheduler

Spec == Init /\ [][Next]_vars

\* The simulation goes on; nothing need ever drive the inputs.
FairSpec == Spec /\ WF_vars(Scheduler)

-----------------------------------------------------------------------------
(* Properties.                                                             *)

\* What the output will be when all pending events have run is what the input
\* is: no change of the input was skipped for a value that another pending event
\* replaces, and no event outlives the input it stands for.  recv skips a value
\* equal to list_->next, which its comment calls "the most recent event" and is
\* the oldest.  That loses an input only if the oldest value is due and not sent
\* yet (delay.cc:167-171), so the property speaks of inputs that overtake none.
NewestIsInput ==
    ~overtaken => input = IF list_ = <<>> THEN cur ELSE Last(list_).value

\* The output changes exactly one delay after the input took the value, and only
\* if the input has kept it up to this moment: shorter pulses are not seen.  The
\* delay is that of the change the output makes, with the delays in force when
\* the input changed.  As above, of inputs that overtake no value that is due: a
\* value pending behind one is not cleaned when its pulse ends.
PulsesRejected ==
    [][cur' # cur /\ ~overtaken' =>
         \E i \in 1..Len(held') :
             /\ held'[i].value = cur'
             /\ i = 2 => held'[1].time = now
             /\ now = held'[i].time
                       + ChangeDelay(held'[i].delay, IF held'[i].first THEN X ELSE cur, cur')
      ]_vars

\* Every input that overtook none gets through: in the end the output is the
\* last input.  That of the module path is the output of the delay in any case.
Settles ==
    <>[](/\ ~overtaken => cur = input
         /\ type_ = "vec4" /\ inputs > 0 => path_out = cur)
=============================================================================
