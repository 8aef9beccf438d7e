---------------------------- MODULE ActivityEmitter ----------------------------
(***************************************************************************)
(* The events of the tool runs of one agent run.  LangChain calls the      *)
(* handler of a tool in a worker thread, when the tool starts and when it  *)
(* ends or raises, and goes on when the handler returns; the handlers of   *)
(* different tools share the emitter and the queue.                        *)
(*                                                                         *)
(* emit is not locked: it raises the number, reserves an id, reads the     *)
(* number again and puts the event into the queue.  Each of these is one   *)
(* step, since a switch of threads comes at a call and calls separate      *)
(* them.  What the host receives is the queue, in its order.               *)
(***************************************************************************)
EXTENDS Naturals, Sequences

CONSTANTS
    Run,     \* the tool runs of the agent run
    ToolOf   \* the tool each of them runs

ASSUME EmitterAssumption == DOMAIN ToolOf = Run

VARIABLES
    status,    \* where each tool run is
    context,   \* _run_context: the runs whose start was seen
    sequence,  \* ActivityEmitter.sequence
    seen,      \* _seen_keys: the ids in use
    emission,  \* the event each run's handler is building
    queue      \* activity_queue

vars == <<status, context, sequence, seen, emission, queue>>

Status == {"unborn", "starting", "running", "completing", "failing", "done"}
Stage  == {"none", "counted", "named", "numbered"}

\* What a handler says of its run.
News(r) ==
    CASE status[r] = "starting"   -> "started"
      [] status[r] = "completing" -> "completed"
      [] status[r] = "failing"    -> "failed"

\* The event key, which the id consists of together with a number.
KeyOf(r) == <<ToolOf[r], News(r)>>

NoEvent == [stage |-> "none", id |-> <<>>, number |-> 0]

-----------------------------------------------------------------------------
(* The handlers                                                            *)

OnToolStart(r) ==
    /\ status[r] = "unborn"
    /\ status' = [status EXCEPT ![r] = "starting"]
    /\ context' = context \cup {r}
    /\ UNCHANGED <<sequence, seen, emission, queue>>

\* on_tool_end and on_tool_error; a run that is not in the context is ignored.
OnToolEnd(r) ==
    /\ status[r] = "running"
    /\ context' = context \ {r}
    /\ status' \in {[status EXCEPT ![r] = news] :
                      news \in IF r \in context THEN {"completing", "failing"} ELSE {"done"}}
    /\ UNCHANGED <<sequence, seen, emission, queue>>

-----------------------------------------------------------------------------
(* emit                                                                    *)

\* mutant: the number is not raised
CountNothing(r) ==
    /\ status[r] \in {"starting", "completing", "failing"}
    /\ emission[r].stage = "none"
    /\ emission' = [emission EXCEPT ![r].stage = "counted"]
    /\ UNCHANGED <<status, context, sequence, seen, queue>>

Count(r) ==
    /\ status[r] \in {"starting", "completing", "failing"}
    /\ emission[r].stage = "none"
    /\ sequence' = sequence + 1
    /\ emission' = [emission EXCEPT ![r].stage = "counted"]
    /\ UNCHANGED <<status, context, seen, queue>>

\* mutant: an id is used without a look at those in use
ReserveBlindly(r) ==
    LET id == <<KeyOf(r), sequence>> IN
    /\ emission[r].stage = "counted"
    /\ seen' = seen \cup {id}
    /\ emission' = [emission EXCEPT ![r].stage = "named", ![r].id = id]
    /\ UNCHANGED <<status, context, sequence, queue>>

\* One round of the loop in _unique_event_id.
Reserve(r) ==
    LET id == <<KeyOf(r), sequence>> IN
    /\ emission[r].stage = "counted"
    /\ IF id \in seen
       THEN sequence' = sequence + 1 /\ UNCHANGED <<seen, emission>>
       ELSE /\ seen' = seen \cup {id}
            /\ emission' = [emission EXCEPT ![r].stage = "named", ![r].id = id]
            /\ UNCHANGED sequence
    /\ UNCHANGED <<status, context, queue>>

Number(r) ==
    /\ emission[r].stage = "named"
    /\ emission' = [emission EXCEPT ![r].stage = "numbered", ![r].number = sequence]
    /\ UNCHANGED <<status, context, sequence, seen, queue>>

Event(r) ==
    [by |-> r, news |-> News(r), id |-> emission[r].id, number |-> emission[r].number]

\* mutant: the event is handed over to the event loop, which takes it later
PutLater(r) ==
    /\ emission[r].stage = "numbered"
    /\ queue' \in {Append(queue, Event(r)), <<Event(r)>> \o queue}
    /\ emission' = [emission EXCEPT ![r] = NoEvent]
    /\ status' = [status EXCEPT ![r] = IF @ = "starting" THEN "running" ELSE "done"]
    /\ UNCHANGED <<context, sequence, seen>>

\* The handler has returned when its event is in the queue, and the tool goes on.
Put(r) ==
    /\ emission[r].stage = "numbered"
    /\ queue' = Append(queue, Event(r))
    /\ emission' = [emission EXCEPT ![r] = NoEvent]
    /\ status' = [status EXCEPT ![r] = IF @ = "starting" THEN "running" ELSE "done"]
    /\ UNCHANGED <<context, sequence, seen>>

-----------------------------------------------------------------------------

Init ==
    /\ status = [r \in Run |-> "unborn"]
    /\ context = {} /\ seen = {} /\ sequence = 0 /\ queue = <<>>
    /\ emission = [r \in Run |-> NoEvent]

Next == \E r \in Run :
    \/ OnToolStart(r) \/ OnToolEnd(r)
    \/ Count(r) \/ Reserve(r) \/ Number(r) \/ Put(r)

Spec == Init /\ [][Next]_vars

-----------------------------------------------------------------------------
(* Properties                                                              *)

\* The variables have their types, and the numbers in use are those the emitter
\* has counted: the first is 1.
TypeOK ==
    /\ status \in [Run -> Status]
    /\ context \subseteq Run
    /\ sequence \in Nat
    /\ \A id \in seen : id[2] \in 1 .. sequence
    /\ \A r \in Run : emission[r].stage \in Stage
    /\ \A i \in DOMAIN queue : queue[i].number \in 1 .. sequence

\* No two events have the same id, although handlers that run at the same time
\* take theirs from one counter (ActivityEmitter._unique_event_id).
IdsDiffer ==
    \A i, j \in DOMAIN queue : queue[i].id = queue[j].id => i = j

\* Of one tool run the start comes before the end, in the queue and by number,
\* and nothing is said of it twice, whatever other handlers do meanwhile.
RunsInOrder ==
    \A i, j \in DOMAIN queue : i < j /\ queue[i].by = queue[j].by =>
        /\ queue[i].news = "started" /\ queue[j].news # "started"
        /\ queue[i].number < queue[j].number

=============================================================================
