------------------------------ MODULE MCVvpThread ------------------------------
(* Programs for the threads: what they contain, not what they do when.         *)
EXTENDS VvpThread

CONSTANTS block, task, function, event

\* Calls of a task, a named block and a function, an event, sync callbacks.
Calls == [threads |-> 4, blocks |-> {block, task}, functions |-> {function},
          disabled |-> {block, task}, events |-> {event}, sync |-> {3}]

\* More threads in a task and in a block that is disabled.
Forks == [Calls EXCEPT !.threads = 5, !.functions = {}, !.disabled = {block},
                       !.events = {}, !.sync = {}]

\* A disabled block, which may fork once more inside.
Inside == [Forks EXCEPT !.blocks = {block}]

MCPrograms == [calls |-> Calls, forks |-> Forks]
InsideOnly == [inside |-> Inside]
=============================================================================
