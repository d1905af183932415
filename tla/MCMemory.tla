------------------------------- MODULE MCMemory --------------------------------
(***************************************************************************)
(* Small instances of MemoryStore.                                         *)
(***************************************************************************)
EXTENDS MemoryStore

MCTitles == {1, 2}
\* Every content has a title of its own, or all have the same.
OwnTitles == [c \in Contents |-> IF c = "c1" THEN 1 ELSE 2]
\* One content may come from two agents.
MCSharings == {<<"c1", "alice">>, <<"c1", "bob">>, <<"c2", "alice">>}
SameTitle == [c \in Contents |-> 1]
================================================================================
