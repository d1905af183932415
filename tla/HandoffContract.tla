---------------------------- MODULE HandoffContract ----------------------------
(***************************************************************************)
(* What a run's handoff directory promises to the inspection stage, with   *)
(* the files, the seal and every interleaving hidden: a read either        *)
(* refuses, or answers with an outcome that some fetch stage of the same   *)
(* run recorded in full, and it answers once.                              *)
(***************************************************************************)
CONSTANTS
    Runs,       \* run identifiers
    Readers,    \* inspection stages
    ReaderRun,  \* the run each inspection stage was started for
    Outcomes,   \* what a fetch stage can record
    Pending,    \* the answer of a read that has not returned
    Refused     \* the answer of a read that returned an error

VARIABLES
    recorded,   \* the <<run, outcome>> pairs recorded so far
    answer      \* what each read has returned

Init ==
    /\ recorded = {}
    /\ answer = [r \in Readers |-> Pending]

\* A fetch stage of run records an outcome, whole.
Record(run, outcome) ==
    /\ recorded' = recorded \cup {<<run, outcome>>}
    /\ UNCHANGED answer

\* A read returns what its own run recorded, or refuses.
Answer(r, a) ==
    /\ answer[r] = Pending
    /\ a = Refused \/ <<ReaderRun[r], a>> \in recorded
    /\ answer' = [answer EXCEPT ![r] = a]
    /\ UNCHANGED recorded

Next ==
    \/ \E run \in Runs, outcome \in Outcomes : Record(run, outcome)
    \/ \E r \in Readers, a \in Outcomes \cup {Refused} : Answer(r, a)

Spec == Init /\ [][Next]_<<recorded, answer>>
================================================================================
