--------------------------- MODULE ResearchBudget ---------------------------
(***************************************************************************)
(* What a run promises its owner about the prepaid budget, and nothing      *)
(* else: money is held against the cap, each piece of work is paid for at   *)
(* most once and only out of what is held, and closing the budget returns   *)
(* exactly what was not spent, after which nothing moves.  RunLifecycle     *)
(* implements it.                                                           *)
(***************************************************************************)
EXTENDS Integers

CONSTANTS Work             \* the pieces of work that may be paid for

VARIABLES
    held,                  \* money held for the run
    paid,                  \* the work already paid for
    spent,                 \* what it cost
    returned,              \* what the owner got back
    closed                 \* has the budget been closed?

vars == <<held, paid, spent, returned, closed>>

Init ==
    /\ held \in Nat
    /\ paid = {} /\ spent = 0 /\ returned = 0
    /\ closed = FALSE

Hold ==
    /\ ~closed
    /\ held' \in Nat /\ held' > held
    /\ UNCHANGED <<paid, spent, returned, closed>>

Pay(w) ==
    /\ ~closed /\ w \notin paid
    /\ paid' = paid \cup {w}
    /\ spent' \in Nat /\ spent' > spent /\ spent' <= held
    /\ UNCHANGED <<held, returned, closed>>

Close ==
    /\ ~closed
    /\ closed' = TRUE
    /\ returned' = held - spent
    /\ UNCHANGED <<held, paid, spent>>

Next == Hold \/ (\E w \in Work : Pay(w)) \/ Close

Spec == Init /\ [][Next]_vars

=============================================================================
