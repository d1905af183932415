-------------------------------- MODULE MCRuns ---------------------------------
(***************************************************************************)
(* Three admissions that share one identity and differ in what they ask    *)
(* for, and one of another identity, with run identifiers that may repeat. *)
(***************************************************************************)
EXTENDS Runs

\* a1 and a2 send one request in two spellings, a3 another under the same
\* key, a4 the first one under a second key.
MCCall ==
    [a \in Admissions |->
        [identity |-> IF a = "a4" THEN "key2" ELSE "key1",
         payload  |-> IF a = "a2" THEN "padded" ELSE IF a = "a3" THEN "other" ELSE "plain"]]

\* One admission per way of being refused, and two that are accepted.
RefusedCall ==
    [a \in Admissions |->
        [identity |-> IF a = "a1" THEN "key1" ELSE IF a = "a2" THEN "braced"
                      ELSE IF a = "a3" THEN "unknown" ELSE IF a = "a4" THEN "no_profile"
                      ELSE IF a = "a5" THEN "no_view" ELSE "key2",
         payload |-> IF a = "a6" THEN "invalid" ELSE "plain"]]

MCValidated ==
    [p \in Payloads |-> IF p = "invalid" THEN None
                        ELSE IF p = "other" THEN "request2" ELSE "request1"]
================================================================================
