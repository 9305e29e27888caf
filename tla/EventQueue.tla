------------------------------ MODULE EventQueue ------------------------------
(***************************************************************************)
(* What vvp's scheduler promises (schedule.h): every event runs at the     *)
(* absolute time it was scheduled for, and within a time step the regions  *)
(* take their turns: start, active, non-blocking assignment, read-write    *)
(* sync, read-only sync, thread deletion.  No list, no relative delay and  *)
(* no order inside a region is stated here.                                *)
(***************************************************************************)
EXTENDS Naturals

CONSTANTS
    Ids,      \* names for the events
    MaxTime   \* the latest time an event is scheduled for

Regions == {"start", "active", "nbassign", "rwsync", "rosync", "del_thr"}

Event == [id: Ids, due: Nat, region: Regions]

VARIABLES now,       \* schedule_simtime()
          pending,   \* the events scheduled and not yet run
          starting   \* the start-of-time events of now have their turn

eqVars == <<now, pending, starting>>

EventQueueTypeOK ==
    /\ now \in Nat
    /\ pending \subseteq Event
    /\ starting \in BOOLEAN

DueNow(region) == {e \in pending : e.due = now /\ e.region = region}

EventQueueInit ==
    /\ now = 0
    /\ pending = {}
    /\ starting = FALSE

\* Anyone may schedule an event for now or later; the start of now is past, so
\* a start event is for later.
Post ==
    /\ \E id \in Ids, due \in now..MaxTime, region \in Regions :
         /\ region = "start" => due > now
         /\ \A e \in pending : e.id # id
         /\ pending' = pending \cup {[id |-> id, due |-> due, region |-> region]}
    /\ UNCHANGED <<now, starting>>

\* Time moves to the earliest event, when nothing is left to do now.
Advance ==
    /\ \E e \in pending : /\ now' = e.due
                          /\ e.due > now
                          /\ \A f \in pending : f.due >= e.due
    /\ starting' = TRUE
    /\ UNCHANGED pending

RunStart ==
    /\ starting
    /\ \E e \in DueNow("start") : pending' = pending \ {e}
    /\ UNCHANGED <<now, starting>>

StartOver ==
    /\ starting
    /\ DueNow("start") = {}
    /\ starting' = FALSE
    /\ UNCHANGED <<now, pending>>

RunActive ==
    /\ ~starting
    /\ \E e \in DueNow("active") : pending' = pending \ {e}
    /\ UNCHANGED <<now, starting>>

\* A whole region becomes active when the regions before it are empty; the
\* first of its events runs at once.
Promote(region) ==
    /\ ~starting
    /\ DueNow("active") = {}
    /\ region = "rwsync" => DueNow("nbassign") = {}
    /\ \E e \in DueNow(region) :
         pending' = (pending \ DueNow(region)) \cup
                    {[f EXCEPT !.region = "active"] : f \in DueNow(region) \ {e}}
    /\ UNCHANGED <<now, starting>>

WritersDone ==
    \A region \in {"active", "nbassign", "rwsync"} : DueNow(region) = {}

RunReadOnly ==
    /\ ~starting
    /\ WritersDone
    /\ \E e \in DueNow("rosync") : pending' = pending \ {e}
    /\ UNCHANGED <<now, starting>>

DeleteThread ==
    /\ ~starting
    /\ WritersDone
    /\ DueNow("rosync") = {}
    /\ \E e \in DueNow("del_thr") : pending' = pending \ {e}
    /\ UNCHANGED <<now, starting>>

EventQueueNext ==
    \/ Post \/ Advance \/ RunStart \/ StartOver \/ RunActive
    \/ Promote("nbassign") \/ Promote("rwsync")
    \/ RunReadOnly \/ DeleteThread

EventQueueSpec == EventQueueInit /\ [][EventQueueNext]_eqVars

-----------------------------------------------------------------------------
\* No event is left behind: when the simulated time advances, everything that
\* was scheduled for an earlier time has run.
NothingOverdue == \A e \in pending : e.due >= now
=============================================================================
