---------------------------- MODULE EscrowPromise ----------------------------
(***************************************************************************)
(* What the escrow promises about the money of a job: a job is funded at    *)
(* most once, and what it holds is divided exactly once, completely,        *)
(* between its client, its provider and the treasury, whose fee is bounded. *)
(* EscrowJob implements it.                                                 *)
(***************************************************************************)
EXTENDS Integers

CONSTANT Jobs

VARIABLES
    held,                  \* money held for each job
    shares                 \* what each party got out of it

vars == <<held, shares>>

Shares == [client : Nat, provider : Nat, treasury : Nat]
NoShares == [client |-> 0, provider |-> 0, treasury |-> 0]

Init ==
    /\ held = [j \in Jobs |-> 0]
    /\ shares = [j \in Jobs |-> NoShares]

Fund(j) ==
    /\ held[j] = 0 /\ shares[j] = NoShares
    /\ held' = [held EXCEPT ![j] = held'[j]]
    /\ held'[j] \in Nat /\ held'[j] > 0
    /\ UNCHANGED shares

\* The fee is at most a twentieth (500 basis points) of what was earned.
Divide(j) ==
    /\ held[j] > 0
    /\ shares' = [shares EXCEPT ![j] = shares'[j]]
    /\ shares'[j] \in Shares
    /\ LET s == shares'[j]
       IN /\ s.client + s.provider + s.treasury = held[j]
          /\ 20 * s.treasury <= s.provider + s.treasury
    /\ held' = [held EXCEPT ![j] = 0]

Next == \E j \in Jobs : Fund(j) \/ Divide(j)

Spec == Init /\ [][Next]_vars

=============================================================================
