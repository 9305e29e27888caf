------------------------------- MODULE SysQueue -------------------------------
(***************************************************************************)
(* The queue tasks (vpi/sys_queue.c): every queue is a circular array with *)
(* a head and a number of elements, and its statistics are counters, a     *)
(* total of two words among them.  job stands for a job and its inform     *)
(* word, which are stored and returned together.  The compiletf checks of  *)
(* the arguments, and the bits put into a variable that is too small, are  *)
(* left out.                                                               *)
(***************************************************************************)
EXTENDS Naturals, Sequences, SequencesExt

CONSTANTS
    Ids, Lengths, Instants, Scale, Limits,   \* as in QueueService
    MaxAdds,    \* jobs added, at most
    Memory,     \* elements there is memory for
    Unknown,    \* an argument or a value with undefined bits
    TimeBits    \* the width of a uint64_t

ASSUME SysQueueAssumption ==
    /\ TimeBits \in Nat \ {0} /\ MaxAdds \in 0..(2^TimeBits - 2)
    /\ Instants \subseteq 0..(2^TimeBits - 1)
    /\ Scale = 1 \/ (Scale \in Nat \ {0} /\ Scale % 10 = 0)
    /\ Lengths \subseteq Nat \cup {Unknown} /\ Memory \in Nat /\ Limits \subseteq Nat
    /\ Unknown \notin Nat \cup Ids

VARIABLES now,      \* simulation time
          base,     \* the queues: base[0 .. base_len - 1]
          answer,   \* what the last call put into its variables
          visits    \* not in the code: per id, the jobs added and when they left

vars == <<now, base, answer, visits>>

Word == 2^TimeBits
Types == {"FIFO", "LIFO"}
Codes == {"length", "mean", "max_length", "shortest", "longest", "average"}

Reply(status, value) == answer' = [status |-> status, value |-> value]

-----------------------------------------------------------------------------
(* Arithmetic on uint64_t.                                                 *)

\* [high, low] is a total of two words.
add_to_wait_time(total, time) ==
    LET carry == IF Word - 1 - total.low < time THEN 1 ELSE 0 IN
      [high |-> (total.high + carry) % Word, low |-> (total.low + time) % Word]

\* One more bit of low goes into high; carry tells that high lost a bit.
Shifted(s) ==
    [s EXCEPT !.bit = @ - 1,
              !.carry = s.high >= Word \div 2,
              !.high = (2 * @ + s.low \div (Word \div 2)) % Word,
              !.low = (2 * @) % Word]

\* bit is one more than the place of the last bit moved.
DivisionState ==
    [bit : 0..TimeBits, high : 0..(Word - 1), low : 0..(Word - 1),
     carry : BOOLEAN, total : 1..(Word - 1)]

Quotient[s \in DivisionState] ==
    IF s.carry \/ s.high >= s.total
    THEN 2^s.bit + (IF s.bit = 0 THEN 0
                    ELSE Quotient[[s EXCEPT !.high = (@ + Word - s.total) % Word,
                                            !.carry = FALSE]])
    ELSE IF s.bit = 0 THEN 0 ELSE Quotient[Shifted(s)]

calc_average_wait_time(high, low, total) ==
    IF high = 0 THEN low \div total
    ELSE Quotient[[bit |-> TimeBits, high |-> high, low |-> low, carry |-> FALSE,
                   total |-> total]]

\* Nearest unit of the caller, half a unit is rounded up.
Scaled(time) ==
    time \div Scale + (IF Scale > 1 /\ time % Scale >= Scale \div 2 THEN 1 ELSE 0)

fill_variable_with_scaled_time(time, limit) ==
    IF limit # 0 /\ Scaled(time) >= limit THEN Reply("overflowed", Unknown)
    ELSE Reply("ok", Scaled(time))

-----------------------------------------------------------------------------
(* The queues.                                                             *)

\* Jobs are numbered as they are added.
Added == FoldSeq(LAMBDA q, n : q.number_of_adds + n, 0, base)

\* The array is not cleared.
Garbage == [job |-> 0, time |-> 0]

NewQueue(id, type, length) ==
    [id |-> id, type |-> type, length |-> length, head |-> 0, elems |-> 0,
     max_len |-> 0, queue |-> [loc \in 0..(length - 1) |-> Garbage],
     shortest_wait_time |-> Word - 1, have_shortest_statistic |-> FALSE,
     first_add_time |-> 0, latest_add_time |-> 0, number_of_adds |-> 0,
     wait_time |-> [high |-> 0, low |-> 0]]

Known(id) == \E i \in DOMAIN base : base[i].id = id

get_id_index(id) == SelectInSeq(base, LAMBDA q : q.id = id)

is_queue_full(q) == IF q.elems >= q.length THEN 1 ELSE 0

\* Where the next element goes.
\* Slip: the array is one longer.
AddLoc_late(q) ==
    IF q.type = "LIFO" THEN q.elems
    ELSE IF q.head + q.elems > q.length THEN q.head + q.elems - q.length
    ELSE q.head + q.elems

AddLoc(q) ==
    IF q.type = "LIFO" THEN q.elems
    ELSE IF q.head + q.elems >= q.length THEN q.head + q.elems - q.length
    ELSE q.head + q.elems

add_to_queue(q, job) ==
    [q EXCEPT !.elems = @ + 1,
              !.queue[AddLoc(q)] = [job |-> job, time |-> now],
              !.max_len = IF @ = q.elems THEN @ + 1 ELSE @,
              !.number_of_adds = @ + 1,
              !.first_add_time = IF q.number_of_adds = 0 THEN now ELSE @,
              !.latest_add_time = now]

\* The last added, or the first.
RemoveLoc(q) == IF q.type = "LIFO" THEN q.elems - 1 ELSE q.head

Advanced(q) ==
    IF q.type = "LIFO" THEN q.head ELSE IF q.head + 1 = q.length THEN 0 ELSE q.head + 1

remove_from_queue(q) ==
    LET wait == now - q.queue[RemoveLoc(q)].time IN
      [q EXCEPT !.elems = @ - 1,
                !.head = Advanced(q),
                !.shortest_wait_time = IF wait < @ THEN wait ELSE @,
                !.have_shortest_statistic = TRUE,
                !.wait_time = add_to_wait_time(@, wait)]

\* The elements from the head on, as the loop of get_average_wait_time meets them.
Elements(q) == [k \in 1..q.elems |-> q.queue[(q.head + k - 1) % q.length]]

get_average_wait_time(q) ==
    LET total == FoldSeq(LAMBDA e, sum : add_to_wait_time(sum, now - e.time),
                         q.wait_time, Elements(q))
    IN  calc_average_wait_time(total.high, total.low, q.number_of_adds)

-----------------------------------------------------------------------------
(* The calls.                                                              *)

TimePasses ==
    /\ \E t \in Instants : t > now /\ now' = t
    /\ UNCHANGED <<base, answer, visits>>

\* realloc or malloc fails: base_len is set back.
q_initialize(id, type, length) ==
    /\ IF id = Unknown THEN Reply("undefined_id", Unknown) /\ UNCHANGED <<base, visits>>
       ELSE IF type \notin Types
       THEN Reply("unsupported_type", Unknown) /\ UNCHANGED <<base, visits>>
       ELSE IF length = Unknown \/ length = 0
       THEN Reply("invalid_length", Unknown) /\ UNCHANGED <<base, visits>>
       ELSE IF Known(id)
       THEN Reply("duplicate_id", Unknown) /\ UNCHANGED <<base, visits>>
       ELSE \/ Reply("out_of_memory", Unknown) /\ UNCHANGED <<base, visits>>
            \/ /\ FoldSeq(LAMBDA p, n : p.length + n, length, base) <= Memory
               /\ Reply("ok", Unknown)
               /\ base' = Append(base, NewQueue(id, type, length))
               /\ visits' = [visits EXCEPT ![id] = <<>>]
    /\ UNCHANGED now

UndefinedId(id) ==
    /\ ~Known(id)
    /\ Reply("undefined_id", Unknown)
    /\ UNCHANGED <<now, base, visits>>

\* The asserts of add_to_queue and remove_from_queue.
HeadRight(q) == q.type = "LIFO" => q.head = 0

q_add(id, job) ==
    /\ Known(id)
    /\ LET i == get_id_index(id)
           q == base[i]
       IN  IF q.elems > q.length \/ ~HeadRight(q)
           THEN Reply("abort", Unknown) /\ UNCHANGED <<base, visits>>
           ELSE IF q.elems = q.length
           THEN Reply("full", Unknown) /\ UNCHANGED <<base, visits>>
           ELSE /\ Added < MaxAdds
                /\ base' = [base EXCEPT ![i] = add_to_queue(q, job)]
                /\ visits' = [visits EXCEPT ![id] =
                                Append(@, [job |-> job, came |-> now, left |-> Unknown])]
                /\ Reply("ok", Unknown)
    /\ UNCHANGED now

\* Of the visits that have not ended, the one that should.
Leaving(id, type) ==
    IF type = "FIFO" THEN SelectInSeq(visits[id], LAMBDA v : v.left = Unknown)
    ELSE SelectLastInSeq(visits[id], LAMBDA v : v.left = Unknown)

q_remove(id) ==
    /\ Known(id)
    /\ LET i == get_id_index(id)
           q == base[i]
       IN  IF q.elems = 0
           THEN Reply("empty", Unknown) /\ UNCHANGED <<base, visits>>
           ELSE IF ~HeadRight(q) \/ now < q.queue[RemoveLoc(q)].time
           THEN Reply("abort", Unknown) /\ UNCHANGED <<base, visits>>
           ELSE /\ base' = [base EXCEPT ![i] = remove_from_queue(q)]
                /\ Reply("ok", q.queue[RemoveLoc(q)].job)
                /\ visits' = [visits EXCEPT ![id][Leaving(id, q.type)].left = now]
    /\ UNCHANGED now

q_full(id) ==
    /\ Known(id)
    /\ Reply("ok", is_queue_full(base[get_id_index(id)]))
    /\ UNCHANGED <<now, base, visits>>

\* The time a statistic is, or Unknown.
StatisticTime(q, code) ==
    CASE code = "mean" ->
           IF q.number_of_adds < 2 THEN Unknown
           ELSE (q.latest_add_time - q.first_add_time) \div (q.number_of_adds - 1)
      [] code = "shortest" ->
           IF q.have_shortest_statistic THEN q.shortest_wait_time ELSE Unknown
      [] code = "longest" ->
           IF q.elems = 0 THEN Unknown ELSE now - q.queue[q.head].time
      [] code = "average" ->
           IF q.number_of_adds < 1 THEN Unknown ELSE get_average_wait_time(q)

q_exam(id, code, limit) ==
    /\ Known(id)
    /\ LET q == base[get_id_index(id)] IN
         CASE code \notin Codes -> Reply("undefined_code", Unknown)
           [] code = "length" -> Reply("ok", q.elems)
           [] code = "max_length" -> Reply("ok", q.max_len)
           [] OTHER -> IF StatisticTime(q, code) = Unknown
                       THEN Reply("no_statistics", Unknown)
                       ELSE fill_variable_with_scaled_time(StatisticTime(q, code), limit)
    /\ UNCHANGED <<now, base, visits>>

Init ==
    /\ now = 0
    /\ base = <<>>
    /\ answer = [status |-> "none", value |-> Unknown]
    /\ visits = [id \in Ids |-> <<>>]

Next ==
    \/ TimePasses
    \/ \E id \in Ids \cup {Unknown} :
         \/ \E type \in Types \cup {Unknown}, length \in Lengths :
              q_initialize(id, type, length)
         \/ UndefinedId(id)
         \/ q_add(id, Added + 1)
         \/ q_remove(id)
         \/ q_full(id)
         \/ \E code \in Codes \cup {Unknown}, limit \in Limits : q_exam(id, code, limit)

Spec == Init /\ [][Next]_vars

-----------------------------------------------------------------------------
(* Properties.                                                             *)

\* What a program could tell of a queue besides the answers.
Queues ==
    [id \in {base[i].id : i \in DOMAIN base} |->
       [type |-> base[get_id_index(id)].type, length |-> base[get_id_index(id)].length,
        visits |-> visits[id], peak |-> base[get_id_index(id)].max_len]]

Service == INSTANCE QueueService WITH queues <- Queues

\* Whatever is called in whatever order, every status, job and statistic is the
\* one the plain description of the queues gives: the circular array hands out
\* the right jobs, the counters count what was done, and no assert fails (the
\* service never answers abort).
ImplementsService == Service!ServiceSpec
=============================================================================
