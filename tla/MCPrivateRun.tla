---------------------------- MODULE MCPrivateRun ----------------------------
(* TLC instances of PrivateRun: what a run has to do. *)
EXTENDS PrivateRun, TLC

AskWork == <<"infer", "ask", "local">>

AskQuestions == {2}

Symmetry == Permutations(Workers) \cup Permutations(Requests \ Exports)

\* Bound: an export comes during the first operation of an action, before any model call,
\* while nothing is split and the fallback model is not deployed.
ExportsEarly ==
    \/ \A e \in Exports : receipts[e].state = "none" /\ \A w \in Workers : workers[w].req # e
    \/ ~hosted /\ calls = <<>> /\ onChain # "split" /\ Len(journal.entries) <= 1

\* Bound: after the first model call one worker at a time holds a state loaded but not
\* yet claimed, and none does in a cancelled run, which refuses the claim.
LoadsEarly ==
    LET holding == {w \in Workers : workers[w].pc = "loaded"}
    IN calls = <<>> \/ Cardinality(holding) <= IF cancelled THEN 0 ELSE 1
=============================================================================
