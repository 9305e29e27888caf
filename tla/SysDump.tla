------------------------------- MODULE SysDump -------------------------------
(***************************************************************************)
(* The waveform dumpers (vpi/sys_vcd.c and its copies sys_fst.c,           *)
(* sys_lxt.c, sys_lxt2.c; vcd_priv.c): $dumpvars declares signals and puts *)
(* a value change callback on each, the callbacks collect what changed,    *)
(* and a callback at the end of the step writes it with the time.  The     *)
(* file is what a reader finds in it: for each time, the values written.   *)
(***************************************************************************)
EXTENDS Integers, Sequences, FiniteSets, SequencesExt

CONSTANTS
    Formats,    \* of "vcd", "fst", "lxt", "lxt2": chosen when vvp is started
    Roots,      \* the root modules, a sequence
    Contents,   \* of a scope: the signals and then the scopes in it, a sequence
    Net,        \* of a signal: the net it names
    Scalar,     \* the nets of one bit: only these have a nexus id
    Automatic,  \* the signals of automatic scopes
    Arguments,  \* of $dumpvars: a depth, 0 when none, and a sequence of items
    Files,      \* the names $dumpfile gives
    Default,    \* the name of the file when none was given
    TimeWrap,   \* lxt2_wr_set_time takes its time modulo this: 2^32
    MaxTime,    \* bound on the time
    MaxChanges, \* bound on the changes of nets
    MaxCalls    \* bound on the calls of the $dump tasks

VARIABLES
    format,
    now, phase, value, finishing,   \* vvp: the time, where in the step it is, the nets
    rosync,                         \* callbacks for the end of the step
    dump_path, dump_file, file,     \* dump_file: the name it was opened by; file: its contents
    dumpvars_status, vcd_cur_time, dump_is_off, dump_is_full, dump_limit, finish_status,
    vcd_list, vcd_dmp_list,         \* the infos, and which of them are scheduled
    vcd_tab, vcd_var, vcd_ids,      \* names of scopes and of signals, idents of nexus
    asked, hist, late,              \* history: what was asked for, what the file should tell
    changes, calls                  \* what is left of the bounds

sim == <<now, phase, value, finishing>>
flags == <<dumpvars_status, vcd_cur_time, dump_is_off, dump_is_full, dump_limit>>
tables == <<vcd_list, vcd_tab, vcd_var, vcd_ids>>
history == <<asked, hist, late>>
vars == <<format, sim, rosync, dump_path, dump_file, file, flags, finish_status, tables,
          vcd_dmp_list, history, changes, calls>>

Scopes == DOMAIN Contents
Signals == DOMAIN Net
Nets == {Net[s] : s \in Signals}
Values == {"0", "1"}
Times == 0..MaxTime
Idents == 1..Cardinality(Signals)
NoTime == -1
None == "none"
NoIdent == 0

\* Every scope but a root, and every signal, is in one scope, one level further down.
ASSUME DesignAssumption ==
    /\ IsFiniteSet(Signals) /\ IsFiniteSet(Scopes) /\ Scopes \cap Signals = {}
    /\ \A c \in Scopes : Contents[c] \in Seq(Scopes \cup Signals)
    /\ \A c, d \in Scopes : \A j \in DOMAIN Contents[c], k \in DOMAIN Contents[d] :
          Contents[c][j] = Contents[d][k] => c = d /\ j = k
    /\ \E level \in [Scopes \cup Signals -> 0..Cardinality(Scopes)] :
          \A c \in Scopes : \A k \in DOMAIN Contents[c] : level[Contents[c][k]] = level[c] + 1

ASSUME CallsAssumption ==
    /\ Roots \in Seq(Scopes)
    /\ \A arg \in Arguments : arg.depth \in Nat /\ arg.items \in Seq(Scopes \cup Signals)
    /\ None \notin Files \cup {Default}

ASSUME BoundsAssumption ==
    /\ MaxTime \in Nat /\ MaxChanges \in Nat /\ MaxCalls \in Nat
    /\ TimeWrap \in Nat \ {0}

\* _vpiNexusId: the node, of a signal of one bit.
Nexus(s) == IF Net[s] \in Scalar THEN {Net[s]} ELSE {}

\* Does the dumper keep the names of the signals it was given (vcd_var)?
KeepsNames == format \in {"vcd", "fst"}

\* dump_header_pending
Pending == dumpvars_status # 2

-----------------------------------------------------------------------------
(* The two conversions of sys_vcd.c.  MCSysDump compares them with what a  *)
(* reader of the file makes of them.                                       *)

\* Where the first run of equal bits ends.
FirstRun(s) ==
    CHOOSE k \in DOMAIN s : /\ \A i \in 1..k : s[i] = s[1]
                            /\ k = Len(s) \/ s[k + 1] # s[1]

\* truncate_bitvec: the leading bits that a reader extends to are left out.
truncate_bitvec(s) ==
    IF s[1] = "1" THEN s
    ELSE LET run == FirstRun(s)
             keep == IF run < Len(s) /\ s[1] = "0" /\ s[run + 1] = "1" THEN run + 1 ELSE run
         IN SubSeq(s, keep, Len(s))

\* gen_new_vcd_id: the digits of the count, the lowest first.
gen_new_vcd_id(count, base) ==
    LET digits[v \in 0..count] ==
          IF v < base THEN <<v>> ELSE <<v % base>> \o digits[v \div base]
    IN digits[count]

-----------------------------------------------------------------------------
(* The file.                                                               *)

\* given: the value of each ident that was given last, lxt2 keeps it.  mixed is history.
NewFile == [declared |-> <<>>, first |-> NoTime, time |-> NoTime, blackout |-> FALSE,
            wave |-> [t \in Times |-> [i \in Idents |-> None]],
            given |-> [i \in Idents |-> "x"], mixed |-> {}]

\* The writers of lxt and lxt2 drop a time that does not advance; lxt2 compares with
\* the first time of the file only.
DroppedByLxt(f, t) == format = "lxt" /\ t <= f.time
DroppedByLxt2(f, t) == format = "lxt2" /\ t <= f.first

\* A time mark.
MarkTime(f, t) ==
    IF f.first = NoTime THEN [f EXCEPT !.first = t, !.time = t]
    ELSE IF DroppedByLxt(f, t) \/ DroppedByLxt2(f, t) THEN f
    ELSE [f EXCEPT !.time = t]

\* What a reader finds for an ident at a time: x before the first value.
Told(f, i, t) ==
    LET written == {u \in 0..t : f.wave[u][i] # None}
    IN IF written = {} THEN "x"
       ELSE f.wave[CHOOSE u \in written : \A w \in written : w <= u][i]

\* The idents that get a code.  lxt2 leaves out a value that was given before, but at
\* the first time of the file.
Coded(f, given) ==
    {i \in Idents : /\ i \in DOMAIN given
                    /\ format # "lxt2" \/ f.time = f.first \/ given[i] # f.given[i]}

\* Those whose code is that all bits are turned: lxt2 looks at the value given last, a
\* reader at what it found at the time before.
Turned(f, given) ==
    {i \in Coded(f, given) : /\ format = "lxt2" /\ f.time # f.first
                             /\ {given[i], f.given[i]} = Values}

Opposite(v) == CASE v = "0" -> "1" [] v = "1" -> "0" [] OTHER -> v

\* What a reader makes of the code of an ident.
Read(f, given, i) ==
    IF i \in Turned(f, given) THEN Opposite(Told(f, i, f.time - 1)) ELSE given[i]

\* Values written at the present time of the file.  There is one code of a time: the last
\* one.  History: an ident is mixed when a code of a time was replaced by one that
\* turns, until one that does not.
Write(f, given) ==
    IF f.blackout \/ f.time = NoTime THEN f
    ELSE [f EXCEPT
            !.wave[f.time] = [i \in Idents |-> IF i \in Coded(f, given) THEN Read(f, given, i) ELSE @[i]],
            !.given = [i \in Idents |-> IF i \in DOMAIN given THEN given[i] ELSE @[i]],
            !.mixed = (@ \ (Coded(f, given) \ Turned(f, given)))
                        \cup {i \in Turned(f, given) : f.wave[f.time][i] # None}]

IdentsOf(infos) == {vcd_list[k].ident : k \in infos} \ {NoIdent}
ItemOf(i) == (CHOOSE info \in Range(vcd_list) : info.ident = i).item

\* show_this_item and show_this_item_x, for some of vcd_list.
show_items(f, infos) == Write(f, [i \in IdentsOf(infos) |-> value[Net[ItemOf(i)]]])
show_items_x(f, infos) == Write(f, [i \in IdentsOf(infos) |-> "x"])

vcd_checkpoint(f) == show_items(f, DOMAIN vcd_list)
vcd_checkpoint_x(f) == show_items_x(f, DOMAIN vcd_list)

-----------------------------------------------------------------------------
(* $dumpvars.                                                              *)

ScopeOf(item) == {c \in Scopes : item \in Range(Contents[c])}

\* vcd_names_search looks at what vcd_names_sort has put in order.
vcd_names_add(tab, name) == [tab EXCEPT !.listed = @ \cup {name}]
vcd_names_sort(tab) == [listed |-> {}, sorted |-> tab.sorted \cup tab.listed]

\* A new name in the file: none is declared twice by the writers of lxt and lxt2,
\* which give no symbol for it.
Declare(s, item, ident) ==
    IF ~KeepsNames /\ \E d \in Range(s.declared) : d.name = item THEN s
    ELSE [s EXCEPT !.declared = Append(@, [name |-> item, ident |-> ident])]

\* Makes an info of a signal, with a callback for its value changes.
AddInfo(s, item) ==
    LET known == \E d \in Range(s.declared) : d.name = item
        ident == IF ~KeepsNames /\ known THEN NoIdent
                 ELSE 1 + Cardinality({d.ident : d \in Range(s.declared)})
    IN [Declare(s, item, ident) EXCEPT
          !.vcd_list = Append(@, [item |-> item, ident |-> ident]),
          !.vcd_ids = @ \cup (Nexus(item) \X {ident})]

\* Slip: a signal that was given by itself before is declared again.
scan_signal_again(s, item, skip) ==
    LET found == {p[2] : p \in {q \in s.vcd_ids : q[1] \in Nexus(item)}}
    IN IF skip \/ item \in Automatic THEN s
       ELSE IF found = {} THEN AddInfo(s, item)
       ELSE Declare(s, item, CHOOSE i \in found : TRUE)

scan_signal(s, item, skip) ==
    IF skip \/ item \in Automatic THEN s
    ELSE IF KeepsNames /\ item \in s.vcd_var THEN s
    ELSE LET found == {p[2] : p \in {q \in s.vcd_ids : q[1] \in Nexus(item)}}
         IN IF found = {} THEN AddInfo(s, item)
            ELSE Declare(s, item, CHOOSE i \in found : TRUE)

\* What scan_item comes to in a scope, in its order: the scope, the signals in it, which
\* are skipped if the scope was included, and the scopes in it.
scan_scope(scope, nskip, below) ==
    <<[item |-> scope, skip |-> nskip]>>
      \o FlattenSeq([k \in DOMAIN Contents[scope] |->
                       LET item == Contents[scope][k]
                       IN IF item \in Signals THEN <<[item |-> item, skip |-> nskip]>>
                          ELSE below[item]])

\* That of every scope, no more than so many levels down.
Visits(depth, included) ==
    LET visits[d \in 0..depth] ==
          IF d = 0 THEN [scope \in Scopes |-> <<>>]
          ELSE [scope \in Scopes |-> scan_scope(scope, scope \in included, visits[d - 1])]
    IN visits

scan_visit(s, visit) ==
    IF visit.item \in Signals THEN scan_signal(s, visit.item, visit.skip)
    ELSE IF visit.skip THEN s
    ELSE [s EXCEPT !.vcd_tab = vcd_names_add(@, visit.item)]

Scanned(s, visits) ==
    LET scanned[k \in 0..Len(visits)] ==
          IF k = 0 THEN s ELSE scan_visit(scanned[k - 1], visits[k])
    IN scanned

scan_item(s, depth, item) ==
    LET visits == IF item \in Signals THEN <<[item |-> item, skip |-> FALSE]>>
                  ELSE Visits(depth, s.vcd_tab.sorted)[depth][item]
    IN Scanned(s, visits)[Len(visits)]

\* One item of the call: a signal that was included is left out.
dump_item(s, depth, item) ==
    LET named == KeepsNames /\ item \in Signals
        included == \/ ScopeOf(item) \cap s.vcd_tab.sorted # {}
                    \/ item \in s.vcd_var
        scanned == scan_item(s, depth, item)
        sorted == [scanned EXCEPT !.vcd_tab = vcd_names_sort(@)]
    IN IF named /\ included THEN s
       ELSE IF named THEN [sorted EXCEPT !.vcd_var = @ \cup {item}]
       ELSE sorted

Dumped(s, depth, items) ==
    LET dumped[k \in 0..Len(items)] ==
          IF k = 0 THEN s ELSE dump_item(dumped[k - 1], depth, items[k])
    IN dumped

\* The depth when none is given, 10000 in the code.
AllLevels == Cardinality(Scopes) + 1

Levels(arg) == IF arg.depth = 0 THEN AllLevels ELSE arg.depth
Items(arg) == IF arg.items = <<>> THEN Roots ELSE arg.items

\* The scopes less than so many levels below each scope.
WithThose(c, below) == {c} \cup UNION {below[x] : x \in Range(Contents[c]) \cap Scopes}

ScopesWithin(depth) ==
    LET within[d \in 0..depth] ==
          IF d = 0 THEN [c \in Scopes |-> {}]
          ELSE [c \in Scopes |-> WithThose(c, within[d - 1])]
    IN within

\* What a call asks for: the signals, and those of the scopes within its depth.
Requested(arg) ==
    (UNION {IF i \in Signals THEN {i}
            ELSE UNION {Range(Contents[c]) \cap Signals : c \in ScopesWithin(Levels(arg))[Levels(arg)][i]}
            : i \in Range(Items(arg))}) \ Automatic

-----------------------------------------------------------------------------
(* The tasks.  A call is made by a thread, before the end of the step.     *)

Called == phase = "step" /\ calls > 0 /\ calls' = calls - 1

\* open_dumpfile fails: vpi_control(vpiFinish).
OpenFails ==
    /\ Called /\ dump_file = None
    /\ dump_path' = IF dump_path = None THEN Default ELSE dump_path
    /\ finishing' = TRUE
    /\ UNCHANGED <<format, now, phase, value, rosync, dump_file, file, flags, finish_status,
                   tables, vcd_dmp_list, history, changes>>

\* install_dumpvars_callback: the first call schedules the header; one after the
\* header is ignored.
dumpvars(arg) ==
    LET s == Dumped([declared |-> file.declared, vcd_list |-> vcd_list, vcd_tab |-> vcd_tab,
                     vcd_var |-> vcd_var, vcd_ids |-> vcd_ids],
                    Levels(arg), Items(arg))[Len(Items(arg))]
    IN /\ Called
       /\ dump_path' = IF dump_file = None /\ dump_path = None THEN Default ELSE dump_path
       /\ dump_file' = IF dump_file = None THEN dump_path' ELSE dump_file
       /\ IF dumpvars_status = 2 THEN UNCHANGED <<file, tables, dumpvars_status, rosync, asked>>
          ELSE /\ rosync' = IF dumpvars_status = 0 THEN Append(rosync, "dumpvars_cb") ELSE rosync
               /\ dumpvars_status' = 1
               /\ file' = [file EXCEPT !.declared = s.declared]
               /\ vcd_list' = s.vcd_list /\ vcd_tab' = s.vcd_tab
               /\ vcd_var' = s.vcd_var /\ vcd_ids' = s.vcd_ids
               /\ asked' = asked \cup Requested(arg)
       /\ UNCHANGED <<format, sim, vcd_cur_time, dump_is_off, dump_is_full, dump_limit,
                      finish_status, vcd_dmp_list, hist, late, changes>>

dumpfile(path) ==
    /\ Called
    /\ dump_path' = IF dumpvars_status # 0 THEN dump_path ELSE path
    /\ UNCHANGED <<format, sim, rosync, dump_file, file, flags, finish_status, tables,
                   vcd_dmp_list, history, changes>>

\* $dumplimit of sys_fst.c gives it to the writer, which forgets it when no file is open.
dumplimit ==
    /\ Called
    /\ dump_limit' = IF format = "fst" /\ dump_file = None THEN dump_limit ELSE TRUE
    /\ UNCHANGED <<format, sim, rosync, dump_path, dump_file, file, dumpvars_status,
                   vcd_cur_time, dump_is_off, dump_is_full, finish_status, tables,
                   vcd_dmp_list, history, changes>>

\* The part $dumpoff, $dumpon and $dumpall share: the mark, if the time is new.
\* Slip: none, the next change will write it.
Stamped_later(t) == file

Stamped(t) == IF now > vcd_cur_time THEN MarkTime(file, t) ELSE file
Stamp == vcd_cur_time' = IF now > vcd_cur_time THEN now ELSE vcd_cur_time

\* lxt2 gives the time to the call with 32 bits, and then shows no value until $dumpon.
dumpoff ==
    /\ Called /\ ~dump_is_off
    /\ dump_is_off' = TRUE
    /\ IF dump_file = None \/ Pending THEN UNCHANGED <<file, vcd_cur_time, late>>
       ELSE /\ Stamp
            /\ file' = IF format = "lxt2"
                       THEN [vcd_checkpoint_x(Stamped(now % TimeWrap)) EXCEPT !.blackout = TRUE]
                       ELSE vcd_checkpoint_x(Stamped(now))
            /\ late' = IF format = "lxt2" THEN {} ELSE IdentsOf(vcd_dmp_list)
    /\ UNCHANGED <<format, sim, rosync, dump_path, dump_file, dumpvars_status, dump_is_full,
                   dump_limit, finish_status, tables, vcd_dmp_list, asked, hist, changes>>

dumpon ==
    /\ Called /\ dump_is_off
    /\ dump_is_off' = FALSE
    /\ late' = {}
    /\ IF dump_file = None \/ Pending THEN UNCHANGED <<file, vcd_cur_time>>
       ELSE /\ Stamp
            /\ file' = vcd_checkpoint([Stamped(now) EXCEPT !.blackout = FALSE])
    /\ UNCHANGED <<format, sim, rosync, dump_path, dump_file, dumpvars_status, dump_is_full,
                   dump_limit, finish_status, tables, vcd_dmp_list, asked, hist, changes>>

dumpall ==
    /\ Called /\ ~dump_is_off /\ dump_file # None /\ ~Pending
    /\ Stamp
    /\ file' = vcd_checkpoint(Stamped(now))
    /\ UNCHANGED <<format, sim, rosync, dump_path, dump_file, dumpvars_status, dump_is_off,
                   dump_is_full, dump_limit, finish_status, tables, vcd_dmp_list, history,
                   changes>>

-----------------------------------------------------------------------------
(* The callbacks.                                                          *)

\* variable_cb_1, for every info whose signal names the net that changed.  The limit
\* may be exceeded at the first of them that comes to the test, and then all stop.
variable_cb_1(n, over) ==
    LET live == {k \in DOMAIN vcd_list : Net[vcd_list[k].item] = n} \ vcd_dmp_list
    IN IF dump_is_full \/ dump_is_off \/ Pending \/ live = {}
       THEN ~over /\ UNCHANGED <<dump_is_full, rosync, vcd_dmp_list>>
       ELSE /\ over => dump_limit
            /\ dump_is_full' = over
            /\ rosync' = IF over \/ vcd_dmp_list # {} THEN rosync
                         ELSE Append(rosync, "variable_cb_2")
            /\ vcd_dmp_list' = IF over THEN vcd_dmp_list ELSE vcd_dmp_list \cup live

\* A thread changes a net.
Change(n) ==
    /\ phase = "step" /\ changes > 0
    /\ changes' = changes - 1
    /\ value' = [value EXCEPT ![n] = IF @ = "0" THEN "1" ELSE "0"]
    /\ \E over \in BOOLEAN : variable_cb_1(n, over)
    /\ UNCHANGED <<format, now, phase, finishing, dump_path, dump_file, file, dumpvars_status,
                   vcd_cur_time, dump_is_off, dump_limit, finish_status, tables, history, calls>>

\* run_rosync takes the callbacks of the step in their order.
NextCallback(name) ==
    /\ phase = "rosync" /\ rosync # <<>> /\ Head(rosync) = name
    /\ rosync' = Tail(rosync)

dumpvars_cb ==
    /\ NextCallback("dumpvars_cb")
    /\ dumpvars_status' = 2
    /\ vcd_cur_time' = now
    /\ file' = IF dump_is_off THEN file ELSE vcd_checkpoint(MarkTime(file, now))
    /\ UNCHANGED <<format, sim, dump_path, dump_file, dump_is_off, dump_is_full, dump_limit,
                   finish_status, tables, vcd_dmp_list, history, changes, calls>>

variable_cb_2 ==
    /\ NextCallback("variable_cb_2")
    /\ vcd_cur_time' = now
    /\ file' = show_items(IF now # vcd_cur_time THEN MarkTime(file, now) ELSE file, vcd_dmp_list)
    /\ vcd_dmp_list' = {}
    /\ UNCHANGED <<format, sim, dump_path, dump_file, dumpvars_status, dump_is_off, dump_is_full,
                   dump_limit, finish_status, tables, history, changes, calls>>

\* The last mark, and the file is closed.
finish_cb ==
    /\ phase = "post" /\ dumpvars_status # 0 /\ finish_status = 0
    /\ finish_status' = 1
    /\ file' = IF ~dump_is_off /\ ~dump_is_full /\ now # vcd_cur_time
               THEN MarkTime(file, now) ELSE file
    /\ vcd_list' = <<>> /\ vcd_var' = {} /\ vcd_ids' = {}
    /\ vcd_tab' = [listed |-> {}, sorted |-> {}]
    /\ dump_path' = None
    /\ UNCHANGED <<format, sim, rosync, dump_file, flags, vcd_dmp_list, history, changes, calls>>

-----------------------------------------------------------------------------
(* vvp: the step, as the dumpers use it.                                   *)

finish ==
    /\ phase = "step" /\ ~finishing
    /\ finishing' = TRUE
    /\ UNCHANGED <<format, now, phase, value, rosync, dump_path, dump_file, file, flags,
                   finish_status, tables, vcd_dmp_list, history, changes, calls>>

\* No thread has anything left to do at this time.
EndOfStep ==
    /\ phase = "step"
    /\ phase' = "rosync"
    /\ UNCHANGED <<format, now, value, finishing, rosync, dump_path, dump_file, file, flags,
                   finish_status, tables, vcd_dmp_list, history, changes, calls>>

\* History: what the file should tell of this time, ident by ident.  The signals whose
\* change was to be written when $dumpoff was called keep the value they had at the end
\* of that step (vcd_cur_time is its time).
Expected ==
    LET given == {d.ident : d \in Range(file.declared)}
    IN [i \in Idents |->
          IF i \notin given \/ i \in file.mixed \/ Pending \/ dump_is_full THEN "any"
          ELSE IF ~dump_is_off \/ (i \in late /\ vcd_cur_time = now) THEN value[Net[ItemOf(i)]]
          ELSE IF i \in late THEN hist[now - 1][i]
          ELSE "x"]

TimePasses(t) ==
    /\ phase = "rosync" /\ rosync = <<>> /\ ~finishing
    /\ t > now
    /\ now' = t /\ phase' = "step"
    /\ hist' = [u \in Times |-> IF now <= u /\ u < t THEN Expected ELSE hist[u]]
    /\ UNCHANGED <<format, value, finishing, rosync, dump_path, dump_file, file, flags,
                   finish_status, tables, vcd_dmp_list, asked, late, changes, calls>>

\* Finished, or nothing is scheduled any more.
EndOfSimulation ==
    /\ phase = "rosync" /\ rosync = <<>>
    /\ phase' = "post"
    /\ hist' = [hist EXCEPT ![now] = Expected]
    /\ UNCHANGED <<format, now, value, finishing, rosync, dump_path, dump_file, file, flags,
                   finish_status, tables, vcd_dmp_list, asked, late, changes, calls>>

\* finish at the prompt of $stop leaves the step without its end.
FinishAtPrompt ==
    /\ phase = "step"
    /\ phase' = "post"
    /\ UNCHANGED <<format, now, value, finishing, rosync, dump_path, dump_file, file, flags,
                   finish_status, tables, vcd_dmp_list, history, changes, calls>>

-----------------------------------------------------------------------------
Init ==
    /\ format \in Formats
    /\ now = 0 /\ phase = "step" /\ finishing = FALSE
    /\ value = [n \in Nets |-> "0"]
    /\ rosync = <<>>
    /\ dump_path = None /\ dump_file = None /\ file = NewFile
    /\ dumpvars_status = 0 /\ vcd_cur_time = 0
    /\ dump_is_off = FALSE /\ dump_is_full = FALSE /\ dump_limit = FALSE /\ finish_status = 0
    /\ vcd_list = <<>> /\ vcd_dmp_list = {}
    /\ vcd_tab = [listed |-> {}, sorted |-> {}] /\ vcd_var = {} /\ vcd_ids = {}
    /\ asked = {} /\ late = {}
    /\ hist = [t \in Times |-> [i \in Idents |-> "any"]]
    /\ changes = MaxChanges /\ calls = MaxCalls

Next ==
    \/ \E arg \in Arguments : dumpvars(arg)
    \/ \E path \in Files : dumpfile(path)
    \/ OpenFails \/ dumplimit \/ dumpoff \/ dumpon \/ dumpall
    \/ \E n \in Nets : Change(n)
    \/ dumpvars_cb \/ variable_cb_2 \/ finish_cb
    \/ finish \/ EndOfStep \/ EndOfSimulation \/ FinishAtPrompt
    \/ \E t \in Times : TimePasses(t)

Spec == Init /\ [][Next]_vars

-----------------------------------------------------------------------------
(* Properties.                                                             *)

\* The file tells, of every time that is over and every ident, the value the signal
\* had when the step ended, and its last time is the time the simulation ended.  While
\* dumping is off it tells x, but of a signal whose change was waiting to be written
\* when $dumpoff was called: variable_cb_2 writes it after the x, and the file tells
\* that value until $dumpon (not in lxt2).  A file of lxt2 that was given two values of
\* an ident in one time may tell another until the next code that is no inverse: of
\* those idents nothing is said.  This is what the time marks, the scheduled flags and
\* the checkpoints of the callbacks are for.
DumpTells ==
    /\ \A t \in Times, i \in Idents :
          hist[t][i] # "any" => Told(file, i, t) = hist[t][i]
    /\ finish_status = 1 /\ ~Pending /\ ~dump_is_off /\ ~dump_is_full => file.time = now

\* Every signal that was asked for is declared once, whatever calls asked for it, and
\* no other; two names have one ident when and only when they name one net of one
\* bit; and one callback writes each ident (the names of scopes and signals,
\* scan_item and the cache of nexus idents).
VarsDeclared ==
    LET names == {d.name : d \in Range(file.declared)}
    IN /\ names = asked
       /\ Len(file.declared) = Cardinality(names)
       /\ \A d, e \in Range(file.declared) :
             d.ident = e.ident <=> d.name = e.name \/ Nexus(d.name) \cap Nexus(e.name) # {}
       /\ finish_status = 0 =>
             \A i \in {d.ident : d \in Range(file.declared)} :
                Cardinality({k \in DOMAIN vcd_list : vcd_list[k].ident = i}) = 1
=============================================================================
