------------------------------ MODULE QueueService ------------------------------
(***************************************************************************)
(* What the queue tasks of IEEE 1364 ($q_initialize, $q_add, $q_remove,    *)
(* $q_full, $q_exam) promise a Verilog program: queues by identifier,      *)
(* first in first out or last in first out, each with a largest length,    *)
(* and exact statistics of the visits to it.  A visit is one job from when *)
(* it was added until it is removed; no array, index or counter is here.   *)
(***************************************************************************)
EXTENDS Naturals, Sequences, FiniteSets, FiniteSetsExt

CONSTANTS
    Ids,        \* the identifiers programs use
    Lengths,    \* the lengths programs ask for
    Instants,   \* the times at which something happens
    Scale,      \* the calling module's time unit, in units of simulation time
    Limits,     \* what the result variable cannot hold (0: it holds all times)
    MaxAdds,    \* jobs added, at most
    Unknown     \* an argument or a value with undefined bits

VARIABLES now,      \* simulation time
          queues,   \* the queues there are
          answer    \* what the last call returned: its status and value

serviceVars == <<now, queues, answer>>

Types == {"FIFO", "LIFO"}
Codes == {"length", "mean", "max_length", "shortest", "longest", "average"}

Inside(q) == {i \in DOMAIN q.visits : q.visits[i].left = Unknown}
Left(q) == DOMAIN q.visits \ Inside(q)

Reply(status, value) == answer' = [status |-> status, value |-> value]

ServiceInit ==
    /\ now = 0
    /\ queues = <<>>
    /\ answer = [status |-> "none", value |-> Unknown]

TimePasses ==
    /\ \E t \in Instants : t > now /\ now' = t
    /\ UNCHANGED <<queues, answer>>

Initialize(id, type, length) ==
    /\ UNCHANGED now
    /\ \/ id = Unknown /\ Reply("undefined_id", Unknown) /\ UNCHANGED queues
       \/ id # Unknown /\ type \notin Types
          /\ Reply("unsupported_type", Unknown) /\ UNCHANGED queues
       \/ id # Unknown /\ type \in Types /\ length \in {Unknown, 0}
          /\ Reply("invalid_length", Unknown) /\ UNCHANGED queues
       \/ id \in DOMAIN queues /\ type \in Types /\ length \notin {Unknown, 0}
          /\ Reply("duplicate_id", Unknown) /\ UNCHANGED queues
       \/ /\ id \in Ids \ DOMAIN queues
          /\ type \in Types /\ length \notin {Unknown, 0}
          /\ \/ Reply("out_of_memory", Unknown) /\ UNCHANGED queues
             \/ /\ Reply("ok", Unknown)
                /\ queues' = [i \in DOMAIN queues \cup {id} |->
                                IF i = id THEN [type |-> type, length |-> length,
                                                visits |-> <<>>, peak |-> 0]
                                ELSE queues[i]]

NoSuchQueue(id) ==
    /\ id \notin DOMAIN queues
    /\ Reply("undefined_id", Unknown)
    /\ UNCHANGED <<now, queues>>

Add(id, job) ==
    /\ id \in DOMAIN queues
    /\ LET q == queues[id] IN
         \/ /\ Cardinality(Inside(q)) = q.length
            /\ Reply("full", Unknown)
            /\ UNCHANGED queues
         \/ /\ Cardinality(Inside(q)) < q.length
            /\ MapThenSumSet(LAMBDA i : Len(queues[i].visits), DOMAIN queues) < MaxAdds
            /\ Reply("ok", Unknown)
            /\ queues' = [queues EXCEPT
                  ![id].visits = Append(@, [job |-> job, came |-> now, left |-> Unknown]),
                  ![id].peak = Max({@, Cardinality(Inside(q)) + 1})]
    /\ UNCHANGED now

NextOut(q) == IF q.type = "FIFO" THEN Min(Inside(q)) ELSE Max(Inside(q))

Remove(id) ==
    /\ id \in DOMAIN queues
    /\ LET q == queues[id] IN
         \/ Inside(q) = {} /\ Reply("empty", Unknown) /\ UNCHANGED queues
         \/ /\ Inside(q) # {}
            /\ Reply("ok", q.visits[NextOut(q)].job)
            /\ queues' = [queues EXCEPT ![id].visits[NextOut(q)].left = now]
    /\ UNCHANGED now

Full(id) ==
    /\ id \in DOMAIN queues
    /\ Reply("ok", IF Cardinality(Inside(queues[id])) = queues[id].length THEN 1 ELSE 0)
    /\ UNCHANGED <<now, queues>>

Wait(visit) == (IF visit.left = Unknown THEN now ELSE visit.left) - visit.came

HasStatistic(q, code) ==
    CASE code = "mean" -> Len(q.visits) >= 2
      [] code = "shortest" -> Left(q) # {}
      [] code = "longest" -> Inside(q) # {}
      [] code = "average" -> q.visits # <<>>
      [] OTHER -> TRUE

Statistic(q, code) ==
    LET n == Len(q.visits) IN
      CASE code = "length" -> Cardinality(Inside(q))
        [] code = "max_length" -> q.peak
        [] code = "mean" -> (q.visits[n].came - q.visits[1].came) \div (n - 1)
        [] code = "shortest" -> Min({Wait(q.visits[i]) : i \in Left(q)})
        [] code = "longest" -> Max({Wait(q.visits[i]) : i \in Inside(q)})
        [] code = "average" ->
             MapThenSumSet(LAMBDA i : Wait(q.visits[i]), DOMAIN q.visits) \div n

\* To the nearest unit of the caller.
Rounded(time) == (2 * time + Scale) \div (2 * Scale)

Fits(value, limit) == limit = 0 \/ value < limit

Examine(id, code, limit) ==
    /\ id \in DOMAIN queues
    /\ LET q == queues[id] IN
         \/ code \notin Codes /\ Reply("undefined_code", Unknown)
         \/ /\ code \in Codes /\ ~HasStatistic(q, code)
            /\ Reply("no_statistics", Unknown)
         \/ /\ code \in {"length", "max_length"}
            /\ Reply("ok", Statistic(q, code))
         \/ /\ code \in Codes \ {"length", "max_length"} /\ HasStatistic(q, code)
            /\ LET value == Rounded(Statistic(q, code)) IN
                 IF Fits(value, limit) THEN Reply("ok", value)
                 ELSE Reply("overflowed", Unknown)
    /\ UNCHANGED <<now, queues>>

ServiceNext ==
    \/ TimePasses
    \/ \E id \in Ids \cup {Unknown} :
         \/ \E type \in Types \cup {Unknown}, length \in Lengths :
              Initialize(id, type, length)
         \/ NoSuchQueue(id)
         \/ \E job \in 1..MaxAdds : Add(id, job)
         \/ Remove(id)
         \/ Full(id)
         \/ \E code \in Codes \cup {Unknown}, limit \in Limits : Examine(id, code, limit)

ServiceSpec == ServiceInit /\ [][ServiceNext]_serviceVars
=============================================================================
