----------------------------- MODULE StoreContract -----------------------------
(***************************************************************************)
(* What the shared memory service promises to the agents that hold a       *)
(* store's token (service/README.md, "Behaviour worth knowing"), with the  *)
(* files, git, the lock and the process hidden: a store only grows, it     *)
(* holds one entry per content, and an agent is only told of an entry that *)
(* is in the store, under the name of whoever shared it first.             *)
(***************************************************************************)
CONSTANTS
    Stores,     \* stores, as their tokens' digests
    Contents,   \* what an entry can say
    Authors     \* who can have shared it first

VARIABLES
    shared,     \* the entries of each store
    acked       \* what agents were told: the entry, and whether it was new

Entry == [content : Contents, author : Authors]

Init ==
    /\ shared = [s \in Stores |-> {}]
    /\ acked = {}

\* A content the store does not hold becomes an entry of it.
Share(s, e) ==
    /\ \A other \in shared[s] : other.content # e.content
    /\ shared' = [shared EXCEPT ![s] = @ \cup {e}]
    /\ UNCHANGED acked

\* An agent is told of an entry.  One agent at most is told that it is new.
Acknowledge(s, e, new) ==
    /\ e \in shared[s]
    /\ new => \A a \in acked : ~(a.store = s /\ a.content = e.content /\ a.new)
    /\ acked' = acked \cup {[store |-> s, content |-> e.content,
                             author |-> e.author, new |-> new]}
    /\ UNCHANGED shared

Next ==
    \E s \in Stores, e \in Entry :
        \/ Share(s, e)
        \/ \E new \in BOOLEAN : Acknowledge(s, e, new)

Spec == Init /\ [][Next]_<<shared, acked>>
================================================================================
