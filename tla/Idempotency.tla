----------------------------- MODULE Idempotency -----------------------------
(***************************************************************************)
(* The Idempotency-Key middleware of Dr. Nib (src/dr-nib/backend/src/       *)
(* idempotency.js), for one key of one user: requests that carry it are     *)
(* executed, answered 409, or answered with what an execution answered.     *)
(* Keys of other users, methods and paths have rows of their own.           *)
(*                                                                          *)
(* Each database call is a step: the lookup, the removal of a stale row,    *)
(* the claim, and the update with the answer, which is not awaited.         *)
(***************************************************************************)
EXTENDS Integers, Sequences

CONSTANTS
    KeyRequests,           \* requests that carry the key
    Window,                \* IN_FLIGHT_MS, in ticks
    MaxTick,               \* bound: the clock
    MaxKeyFaults,          \* bound: database errors and crashes
    NoRow, NoAnswer

ASSUME KeyAssumption ==
    /\ Window \in Nat \ {0} /\ MaxTick \in Nat /\ MaxKeyFaults \in Nat
    /\ NoAnswer \notin KeyRequests
    /\ NoRow \notin [id : KeyRequests, at : Nat, answer : KeyRequests \cup {NoAnswer}]

VARIABLES
    tick,                  \* Date.now()
    row,                   \* the IdempotencyKey row: who claimed it, when, whose answer
    phase,                 \* where each request is
    seen,                  \* the claimant of the stale row a request found
    replayed,              \* whose answer a request was given
    claimedAt,             \* when each request claimed the key (history); -1: it did not
    keyFaults

idemVars == <<tick, row, phase, seen, replayed, claimedAt, keyFaults>>

KeyInit ==
    /\ tick = 0 /\ row = NoRow
    /\ phase = [r \in KeyRequests |-> "new"]
    /\ seen = [r \in KeyRequests |-> NoAnswer]
    /\ replayed = [r \in KeyRequests |-> NoAnswer]
    /\ claimedAt = [r \in KeyRequests |-> -1]
    /\ keyFaults = 0

KeyTick ==
    /\ tick < MaxTick
    /\ tick' = tick + 1
    /\ UNCHANGED <<row, phase, seen, replayed, claimedAt, keyFaults>>

Moves(r, from, to) == phase[r] = from /\ phase' = [phase EXCEPT ![r] = to]
KeyFault == keyFaults < MaxKeyFaults /\ keyFaults' = keyFaults + 1

InFlight == row.answer = NoAnswer /\ tick - row.at < Window

\* findUnique, and what is decided from it.
LookUp(r) ==
    /\ \/ row = NoRow /\ Moves(r, "new", "claim") /\ UNCHANGED <<seen, replayed>>
       \/ row # NoRow /\ InFlight /\ Moves(r, "new", "refused") /\ UNCHANGED <<seen, replayed>>
       \/ /\ row # NoRow /\ row.answer # NoAnswer /\ Moves(r, "new", "answered")
          /\ replayed' = [replayed EXCEPT ![r] = row.answer] /\ UNCHANGED seen
       \/ /\ row # NoRow /\ row.answer = NoAnswer /\ ~InFlight /\ Moves(r, "new", "reclaim")
          /\ seen' = [seen EXCEPT ![r] = row.id] /\ UNCHANGED replayed
    /\ UNCHANGED <<tick, row, claimedAt, keyFaults>>

\* Mutant of IsStaleRow: the row of the key is removed, whichever it is by now.
IsRowOfKey(r) == row # NoRow

\* The row is removed by its id, not by the key.
IsStaleRow(r) == row # NoRow /\ row.id = seen[r]

\* delete; an error is ignored.
Reclaim(r) ==
    /\ Moves(r, "reclaim", "claim")
    /\ \/ row' = (IF IsStaleRow(r) THEN NoRow ELSE row) /\ UNCHANGED keyFaults
       \/ UNCHANGED row /\ KeyFault
    /\ UNCHANGED <<tick, seen, replayed, claimedAt>>

\* create, which the unique (userId, key) decides.
ClaimKey(r) ==
    /\ \/ /\ row = NoRow /\ Moves(r, "claim", "executing")
          /\ row' = [id |-> r, at |-> tick, answer |-> NoAnswer]
          /\ claimedAt' = [claimedAt EXCEPT ![r] = tick]
       \/ row # NoRow /\ Moves(r, "claim", "refused") /\ UNCHANGED <<row, claimedAt>>
    /\ UNCHANGED <<tick, seen, replayed, keyFaults>>

\* The lookup or the claim fails for another reason: the request executes unguarded,
\* and its answer is not recorded.
Unguarded(r) ==
    /\ Moves(r, "new", "loose") \/ Moves(r, "claim", "loose")
    /\ KeyFault
    /\ UNCHANGED <<tick, row, seen, replayed, claimedAt>>

\* The handler answers; the update of the row is sent off.
Finish(r) ==
    /\ Moves(r, "executing", "recording") \/ Moves(r, "loose", "answered")
    /\ UNCHANGED <<tick, row, seen, replayed, claimedAt, keyFaults>>

\* The answer goes to whatever row has the key by now, or nowhere.
Recorded(r) == IF row = NoRow THEN row ELSE [row EXCEPT !.answer = r]

\* update by the key; an error is ignored.
Record(r) ==
    /\ Moves(r, "recording", "answered")
    /\ \/ row' = Recorded(r) /\ UNCHANGED keyFaults
       \/ UNCHANGED row /\ KeyFault
    /\ UNCHANGED <<tick, seen, replayed, claimedAt>>

\* The server dies while the handler runs, or before the update.
Lost(r) ==
    /\ Moves(r, "executing", "lost") \/ Moves(r, "recording", "lost")
    /\ KeyFault
    /\ UNCHANGED <<tick, row, seen, replayed, claimedAt>>

KeyNext ==
    \/ KeyTick
    \/ \E r \in KeyRequests : \/ LookUp(r) \/ Reclaim(r) \/ ClaimKey(r) \/ Unguarded(r)
                              \/ Finish(r) \/ Record(r) \/ Lost(r)

KeySpec == KeyInit /\ [][KeyNext]_idemVars

-----------------------------------------------------------------------------
(* Properties *)

\* Rows, clocks and phases are what the code can hold.
KeyTypeOK ==
    /\ tick \in Nat /\ keyFaults \in Nat
    /\ row \in [id : KeyRequests, at : Nat, answer : KeyRequests \cup {NoAnswer}] \cup {NoRow}
    /\ phase \in [KeyRequests -> {"new", "reclaim", "claim", "executing", "loose",
                                  "recording", "answered", "refused", "lost"}]
    /\ seen \in [KeyRequests -> KeyRequests \cup {NoAnswer}]
    /\ replayed \in [KeyRequests -> KeyRequests \cup {NoAnswer}]
    /\ claimedAt \in [KeyRequests -> Nat \cup {-1}]

Executed(r) == claimedAt[r] >= 0

\* Guarded executions of one key start at least a window apart, however many requests
\* find the same abandoned row and however late it is answered.
ExecutionsApart ==
    \A a, b \in {r \in KeyRequests : Executed(r)} :
      a # b => claimedAt[b] - claimedAt[a] >= Window \/ claimedAt[a] - claimedAt[b] >= Window
=============================================================================
