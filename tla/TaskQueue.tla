----------------------------- MODULE TaskQueue -----------------------------
(***************************************************************************)
(* What an at-least-once task queue promises its publishers and workers:   *)
(* a published message is offered, delivered at most MaxAttempts times,    *)
(* each time to one worker, and ends completed or dead, for good.          *)
(*                                                                         *)
(* The durable queue (DatabaseQueue) implements this where rows are        *)
(* fenced; the pipeline's processes (Pipeline) use their message table as  *)
(* this queue and no other way.                                            *)
(***************************************************************************)
EXTENDS Naturals

CONSTANTS Messages, Workers, None, MaxAttempts

VARIABLE task    \* the task behind each message id

Unpublished == [phase |-> "absent", deliveries |-> 0, holder |-> None]

Init == task = [m \in Messages |-> Unpublished]

Offered == [phase |-> "offered", deliveries |-> 0, holder |-> None]

Live(m) == task[m].phase \in {"offered", "held"}

Exhausted(m) == Live(m) /\ task[m].deliveries = MaxAttempts

\* The task of m under a new phase, in nobody's hands.
Released(m, phase) ==
    [phase |-> phase, deliveries |-> task[m].deliveries, holder |-> None]

\* The task of m with one delivery more, in the hands of w.
Delivered(m, w) ==
    [phase |-> "held", deliveries |-> task[m].deliveries + 1, holder |-> w]

\* New messages enter; those already there are left alone.
Publish ==
    \E new \in SUBSET {m \in Messages : task[m].phase = "absent"} :
        task' = [m \in Messages |-> IF m \in new THEN Offered ELSE task[m]]

\* Messages with no delivery left are buried ...
Sweep ==
    \E dead \in SUBSET {m \in Messages : Exhausted(m)} :
        task' = [m \in Messages |->
                   IF m \in dead THEN Released(m, "dead") ELSE task[m]]

\* ... also together with the delivery of another one to worker w, which may
\* take it from a holder that is believed to be gone.
Deliver(w, d) ==
    /\ Live(d)
    /\ task[d].deliveries < MaxAttempts
    /\ \E dead \in SUBSET {m \in Messages : Exhausted(m)} :
         task' = [m \in Messages |->
                    IF m = d THEN Delivered(m, w)
                    ELSE IF m \in dead THEN Released(m, "dead") ELSE task[m]]

\* The holder completes its message, refuses it, or gives it back while there
\* is a delivery left.
Settle(d, phase) ==
    /\ task[d].phase = "held"
    /\ phase = "offered" => task[d].deliveries < MaxAttempts
    /\ task' = [task EXCEPT ![d] = Released(d, phase)]

Next ==
    \/ Publish
    \/ Sweep
    \/ \E d \in Messages :
         \/ \E w \in Workers : Deliver(w, d)
         \/ \E phase \in {"completed", "dead", "offered"} : Settle(d, phase)

Spec == Init /\ [][Next]_task

=============================================================================
