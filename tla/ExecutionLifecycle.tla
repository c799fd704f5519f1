------------------------- MODULE ExecutionLifecycle -------------------------
(***************************************************************************)
(* What the execution queue promises its callers, without workers,         *)
(* sessions, clocks or timers: an execution waits, is opened for one       *)
(* attempt at a time, and is won, lost or put back to wait.  ExecutionQueue *)
(* implements this specification (ExecutionQueue!ImplementsLifecycle).     *)
(***************************************************************************)
EXTENDS Naturals

CONSTANT Execs          \* the executions of one organization

VARIABLE life           \* life[e]: what a caller can know of execution e

Stages == {"new", "waiting", "open", "won", "lost"}
Life == [stage : Stages, attempts : Nat, cancelling : BOOLEAN]

TypeOK == life \in [Execs -> Life]

Unborn == [stage |-> "new", attempts |-> 0, cancelling |-> FALSE]

Init == life = [e \in Execs |-> Unborn]

Submit(e) ==
    /\ life[e].stage = "new"
    /\ life' = [life EXCEPT ![e].stage = "waiting"]

\* The only step that counts an attempt; never while an attempt is open.
Open(e) ==
    /\ life[e].stage = "waiting"
    /\ life' = [life EXCEPT ![e].stage = "open", ![e].attempts = @ + 1]

\* A waiting execution is given up: cancelled, or its workflow is unavailable.
Withdraw(e) ==
    /\ life[e].stage = "waiting"
    /\ life' = [life EXCEPT ![e].stage = "lost"]

AskCancel(e) ==
    /\ life[e].stage = "open"
    /\ life' = [life EXCEPT ![e].cancelling = TRUE]

\* An attempt somebody asked to cancel is neither won nor repeated.
Win(e) ==
    /\ life[e].stage = "open" /\ ~life[e].cancelling
    /\ life' = [life EXCEPT ![e].stage = "won"]

Again(e) ==
    /\ life[e].stage = "open" /\ ~life[e].cancelling
    /\ life' = [life EXCEPT ![e].stage = "waiting"]

Lose(e) ==
    /\ life[e].stage = "open"
    /\ life' = [life EXCEPT ![e].stage = "lost", ![e].cancelling = FALSE]

Resubmit(e) ==
    /\ life[e].stage = "lost"
    /\ life' = [life EXCEPT ![e].stage = "waiting"]

Next ==
    \E e \in Execs :
        \/ Submit(e) \/ Open(e) \/ Withdraw(e) \/ AskCancel(e)
        \/ Win(e) \/ Again(e) \/ Lose(e) \/ Resubmit(e)

Spec == Init /\ [][Next]_life
=============================================================================
