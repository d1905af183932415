----------------------------- MODULE FetchProofs -------------------------------
(***************************************************************************)
(* What Fetcher::fetch guarantees for every policy, every set of URLs and  *)
(* addresses, and every limit: the invariants of Fetch, each from the      *)
(* control facts that make it inductive.                                   *)
(***************************************************************************)
EXTENDS Fetch, TLAPS

--------------------------------------------------------------------------------
(***************************************************************************)
(* Types.  Under way, there is a current URL; a response is at hand where  *)
(* it is judged; a finished fetch has a result.                            *)
(***************************************************************************)
UnderWay == {"hop", "resolve", "call", "headers", "complete", "body"}

Control ==
    /\ pc \in UnderWay => current \in Urls /\ requested \in Urls
    /\ pc \in UnderWay \cup {"start"} => redirects <= MAX_REDIRECTS
    /\ pc = "headers" => response \in Responses
    /\ pc \in {"complete", "body"} => response \in Documents
    /\ pc = "done" => result \in Results

TypeInv == TypeOK /\ Control

LEMMA InitType == Init => TypeInv
  <1> SUFFICES ASSUME Init PROVE TypeInv
    OBVIOUS
  <1> USE FetchAssumption DEF Init
  <1>1. TypeOK
    BY DEF TypeOK
  <1>2. Control
    BY DEF Control, UnderWay
  <1> QED  BY <1>1, <1>2 DEF TypeInv

\* A connection appended to the log keeps its type.
LEMMA HopsGrow ==
    ASSUME TypeInv, pc = "call", NEW address \in Pins
    PROVE  Append(hops, [url |-> current, answer |-> pinned, address |-> address])
             \in Seq([url : Urls, answer : SUBSET Addresses, address : Addresses])
  <1>1. [url |-> current, answer |-> pinned, address |-> address]
          \in [url : Urls, answer : SUBSET Addresses, address : Addresses]
    BY DEF TypeInv, TypeOK, Control, UnderWay, Pins
  <1> QED  BY <1>1 DEF TypeInv, TypeOK

LEMMA FailType ==
    ASSUME NEW code \in Codes, Fail(code)
    PROVE  pc' = "done" /\ result' \in Results
  BY DEF Fail, Results

LEMMA NextType == TypeInv /\ [Next]_vars => TypeInv'
  <1> SUFFICES ASSUME TypeInv, [Next]_vars PROVE TypeInv'
    OBVIOUS
  <1> USE FetchAssumption
  <1>0. TypeOK /\ Control
    BY DEF TypeInv
  <1>1. CASE Begin
    <2>1. TypeOK'
      BY <1>0, <1>1 DEF Begin, TypeOK, observed, Fail, Goto, Results, Codes, TransportCodes
    <2>2. Control'
      BY <1>0, <1>1 DEF Begin, TypeOK, Control, UnderWay, observed, Fail, Goto, Results,
           Codes, TransportCodes
    <2> QED  BY <2>1, <2>2 DEF TypeInv
  <1>2. CASE Hop
    <2>1. elapsed >= Deadline \/ Deadline - elapsed \in 0..Deadline
      BY <1>0 DEF TypeOK
    <2>2. TypeOK'
      BY <1>0, <1>2, <2>1 DEF Hop, TypeOK, session, observed, Fail, Goto, Results, Codes,
           TransportCodes
    <2>3. Control'
      BY <1>0, <1>2 DEF Hop, TypeOK, Control, UnderWay, session, observed, Fail, Goto, Results,
           Codes, TransportCodes
    <2> QED  BY <2>2, <2>3 DEF TypeInv
  <1>3. CASE Resolve
    <2>1. elapsed' \in Nat
      BY <1>0, <1>3 DEF Resolve, TypeOK
    <2>2. /\ pinned' \subseteq Addresses
          /\ \/ pc' = "done" /\ result' \in Results
             \/ pc' = "call" /\ result' = result
      BY <1>0, <1>3 DEF Resolve, TypeOK, Fail, Goto, Results, Codes, TransportCodes
    <2>3. UNCHANGED <<session, left, response, hops, received>> /\ pc = "resolve"
      BY <1>3 DEF Resolve
    <2>4. TypeOK'
      BY <1>0, <2>1, <2>2, <2>3 DEF TypeOK, session
    <2>5. Control'
      BY <1>0, <2>2, <2>3 DEF TypeOK, Control, UnderWay, session
    <2> QED  BY <2>4, <2>5 DEF TypeInv
  <1>4. CASE Call
    <2>1. PICK address \in Pins, wait \in 0..left, r \in Responses :
             /\ elapsed' = elapsed + wait
             /\ left' = left - wait
             /\ response' = r
             /\ hops' = Append(hops, [url |-> current, answer |-> pinned, address |-> address])
             /\ received' = received + r.headers
      BY <1>4 DEF Call
    <2>2. hops' \in Seq([url : Urls, answer : SUBSET Addresses, address : Addresses])
      BY <1>4, <2>1, HopsGrow DEF Call
    <2>3. r.headers \in Nat
      BY DEF Responses, Redirections, Documents
    <2>4. /\ pc = "call" /\ pc' = "headers" /\ result' = result
          /\ UNCHANGED <<session, pinned>>
      BY <1>4 DEF Call, Goto
    <2>5. /\ elapsed' \in Nat /\ left' \in 0..Deadline /\ received' \in Nat
          /\ response' \in Responses \cup {None}
      <3>1. elapsed \in Nat /\ left \in 0..Deadline /\ received \in Nat
        BY <1>0 DEF TypeOK
      <3>2. elapsed' \in Nat /\ left' \in 0..Deadline
        BY <2>1, <3>1
      <3>3. received' \in Nat /\ response' \in Responses \cup {None}
        BY <2>1, <2>3, <3>1
      <3> QED  BY <3>2, <3>3
    <2>6. TypeOK'
      BY <1>0, <2>2, <2>4, <2>5 DEF TypeOK, session
    <2>7. Control'
      <3>1. current \in Urls /\ requested \in Urls /\ redirects <= MAX_REDIRECTS
        BY <1>0, <2>4 DEF Control, UnderWay
      <3>2. UNCHANGED <<current, requested, redirects>> /\ response' \in Responses
        BY <2>1, <2>4 DEF session
      <3> QED  BY <2>4, <3>1, <3>2 DEF Control, UnderWay
    <2> QED  BY <2>6, <2>7 DEF TypeInv
  <1>5. CASE CallFails
    <2>1. hops' \in Seq([url : Urls, answer : SUBSET Addresses, address : Addresses])
      BY <1>5, HopsGrow DEF CallFails
    <2>2. elapsed' \in Nat
      BY <1>0, <1>5 DEF CallFails, TypeOK
    <2>3. pc' = "done" /\ result' \in Results
      BY <1>5, FailType DEF CallFails, Codes
    <2>4. left' = 0 /\ UNCHANGED <<session, pinned, response, received>>
      BY <1>5 DEF CallFails
    <2>5. TypeOK'
      BY <1>0, <2>1, <2>2, <2>3, <2>4 DEF TypeOK, session
    <2>6. Control'
      BY <2>3 DEF Control, UnderWay
    <2> QED  BY <2>5, <2>6 DEF TypeInv
  <1>6. CASE Headers
    <2>1. response.headers \in Nat
      BY <1>0, <1>6 DEF Headers, Control, Responses, Redirections, Documents
    <2>2. ~response.redirect => response \in Documents
      BY <1>0, <1>6 DEF Headers, Control, Responses, Redirections
    <2>3. response.redirect => response.target \in Urls \cup {None}
      BY <1>0, <1>6 DEF Headers, Control, Responses, Redirections, Documents
    <2>4. pc = "headers" /\ headerBytes' = headerBytes + response.headers
          /\ UNCHANGED <<requested, left, pinned, response, observed>>
      BY <1>6 DEF Headers, HeaderTotal
    <2>5. \/ /\ pc' = "done" /\ result' \in Results /\ UNCHANGED current
             /\ redirects' \in {redirects, redirects + 1}
          \/ /\ pc' = "complete" /\ ~response.redirect
             /\ UNCHANGED <<redirects, current, result>>
          \/ /\ pc' = "hop" /\ response.redirect /\ UNCHANGED result
             /\ redirects' = redirects + 1 /\ redirects + 1 <= MAX_REDIRECTS
             /\ response.target # None /\ current' = response.target
      <3>1. CASE HeaderTotal > MAX_HEADER_BYTES
        BY <1>6, <3>1, FailType DEF Headers, Codes, TransportCodes
      <3>2. CASE ~(HeaderTotal > MAX_HEADER_BYTES) /\ ~response.redirect
        BY <1>6, <3>2 DEF Headers, Goto
      <3>3. CASE /\ ~(HeaderTotal > MAX_HEADER_BYTES) /\ response.redirect
                 /\ redirects + 1 > MAX_REDIRECTS
        BY <1>6, <3>3, FailType DEF Headers, Codes, TransportCodes
      <3>4. CASE /\ ~(HeaderTotal > MAX_HEADER_BYTES) /\ response.redirect
                 /\ ~(redirects + 1 > MAX_REDIRECTS) /\ response.target = None
        BY <1>6, <3>4, FailType DEF Headers, Codes, TransportCodes
      <3>5. CASE /\ ~(HeaderTotal > MAX_HEADER_BYTES) /\ response.redirect
                 /\ ~(redirects + 1 > MAX_REDIRECTS) /\ response.target # None
        BY <1>0, <1>6, <3>5 DEF Headers, Goto, TypeOK
      <3> QED  BY <3>1, <3>2, <3>3, <3>4, <3>5
    <2>6. redirects <= MAX_REDIRECTS /\ current \in Urls /\ requested \in Urls
      BY <1>0, <2>4 DEF Control, UnderWay
    <2>7. TypeOK'
      <3>1. headerBytes' \in Nat
        BY <1>0, <2>1, <2>4 DEF TypeOK
      <3>2. redirects' \in 0..(MAX_REDIRECTS + 1)
        BY <1>0, <2>4, <2>5, <2>6, FetchAssumption DEF TypeOK
      <3>3. /\ current' \in Urls \cup {None}
            /\ result' \in Results \cup {None}
            /\ pc' \in {"done", "complete", "hop"}
        BY <1>0, <2>3, <2>5, <2>6 DEF TypeOK
      <3>4. UNCHANGED <<requested, left, pinned, response, elapsed, hops, received>>
        BY <2>4 DEF observed
      <3> QED  BY <1>0, <3>1, <3>2, <3>3, <3>4 DEF TypeOK
    <2>8. Control'
      BY <1>0, <2>2, <2>3, <2>4, <2>5, <2>6 DEF TypeOK, Control, UnderWay, observed
    <2> QED  BY <2>7, <2>8 DEF TypeInv
  <1>7. CASE Complete
    <2>1. \/ pc' = "done" /\ result' \in Results
          \/ pc' = "body" /\ result' = result
      BY <1>7, FailType DEF Complete, Goto, Codes
    <2>2. UNCHANGED <<session, left, pinned, response, observed>> /\ pc = "complete"
      BY <1>7 DEF Complete
    <2>3. TypeOK'
      BY <1>0, <2>1, <2>2 DEF TypeOK, session, observed
    <2>4. Control'
      BY <1>0, <2>1, <2>2 DEF Control, UnderWay, session
    <2> QED  BY <2>3, <2>4 DEF TypeInv
  <1>8. CASE Body
    <2>1. pc = "body" /\ UNCHANGED <<session, pinned, response, hops, received>>
      BY <1>8 DEF Body
    <2>2. elapsed' \in Nat /\ left' \in 0..Deadline
      BY <1>0, <1>8 DEF Body, TypeOK
    <2>3. Artifact \in Artifacts
      BY <1>0, <2>1 DEF Artifact, Artifacts, TypeOK, Control, UnderWay, Documents
    <2>4. [code |-> None, artifact |-> Artifact] \in Results
      BY <2>3 DEF Results
    <2>5. pc' = "done" /\ result' \in Results
      BY <1>8, <2>4, FailType DEF Body, Codes, TransportCodes
    <2>6. TypeOK'
      BY <1>0, <2>1, <2>2, <2>5 DEF TypeOK, session
    <2>7. Control'
      BY <2>5 DEF Control, UnderWay
    <2> QED  BY <2>6, <2>7 DEF TypeInv
  <1>9. CASE BodyFails
    <2>1. left' = 0 /\ UNCHANGED <<session, pinned, response, hops, received>>
      BY <1>9 DEF BodyFails
    <2>2. elapsed' \in Nat
      BY <1>0, <1>9 DEF BodyFails, TypeOK
    <2>3. pc' = "done" /\ result' \in Results
      BY <1>9, FailType DEF BodyFails, Codes, TransportCodes
    <2>4. TypeOK'
      BY <1>0, <2>1, <2>2, <2>3 DEF TypeOK, session
    <2>5. Control'
      BY <2>3 DEF Control, UnderWay
    <2> QED  BY <2>4, <2>5 DEF TypeInv
  <1>10. CASE UNCHANGED vars
    BY <1>0, <1>10 DEF TypeInv, TypeOK, Control, vars
  <1> QED  BY <1>1, <1>2, <1>3, <1>4, <1>5, <1>6, <1>7, <1>8, <1>9, <1>10 DEF Next

\* Type correctness: in every behaviour of fetch every variable keeps its
\* type; the hop counter and the client's timeout stay within their bounds.
THEOREM TypeCorrect == Spec => []TypeOK
  <1>1. TypeInv => TypeOK
    BY DEF TypeInv
  <1> QED  BY InitType, NextType, <1>1, PTL DEF Spec

--------------------------------------------------------------------------------
(***************************************************************************)
(* Approval.  What makes it inductive: the call is reached only with an    *)
(* approved URL and an approved answer, and nothing changes either before  *)
(* the connection is made.                                                 *)
(***************************************************************************)
ReadyToConnect ==
    pc = "call" => current \in Sound \cap PortPermitted /\ pinned \subseteq Permitted

ApprovalInv == ReadyToConnect /\ ConnectionsAreApproved

\* One more approved connection.
LEMMA ApprovedHop ==
    ASSUME TypeInv, ApprovalInv, pc = "call", NEW address \in Pins,
           hops' = Append(hops, [url |-> current, answer |-> pinned, address |-> address])
    PROVE  ConnectionsAreApproved'
  <1>1. hops \in Seq([url : Urls, answer : SUBSET Addresses, address : Addresses])
    BY DEF TypeInv, TypeOK
  <1>2. /\ Len(hops') = Len(hops) + 1 /\ Len(hops) \in Nat
        /\ \A n \in 1..Len(hops) : hops'[n] = hops[n]
        /\ hops'[Len(hops) + 1] = [url |-> current, answer |-> pinned, address |-> address]
    BY <1>1
  <1> SUFFICES ASSUME NEW n \in 1..Len(hops')
               PROVE  /\ hops'[n].url \in Sound \cap PortPermitted
                      /\ hops'[n].address \in hops'[n].answer
                      /\ hops'[n].answer \subseteq Permitted
    BY DEF ConnectionsAreApproved
  <1>3. CASE n \in 1..Len(hops)
    BY <1>2, <1>3 DEF ApprovalInv, ConnectionsAreApproved
  <1>4. CASE n = Len(hops) + 1
    BY <1>2, <1>4 DEF ApprovalInv, ReadyToConnect, Pins
  <1> QED  BY <1>2, <1>3, <1>4

LEMMA NextApproval == TypeInv /\ ApprovalInv /\ [Next]_vars => ApprovalInv'
  <1> SUFFICES ASSUME TypeInv, ApprovalInv, [Next]_vars PROVE ApprovalInv'
    OBVIOUS
  <1>1. CASE Call \/ CallFails
    <2>1. PICK address \in Pins :
             hops' = Append(hops, [url |-> current, answer |-> pinned, address |-> address])
      BY <1>1 DEF Call, CallFails
    <2>2. pc = "call" /\ pc' # "call"
      BY <1>1 DEF Call, CallFails, Goto, Fail
    <2> QED  BY <2>1, <2>2, ApprovedHop DEF ApprovalInv, ReadyToConnect
  <1>2. CASE Resolve
    <2>1. /\ pc' = "call" => current \in Sound \cap PortPermitted /\ pinned' \subseteq Permitted
          /\ UNCHANGED <<current, hops>>
      BY <1>2 DEF Resolve, Fail, Goto, Approves, session
    <2> QED  BY <2>1 DEF ApprovalInv, ReadyToConnect, ConnectionsAreApproved
  <1>3. CASE Begin \/ Hop \/ Headers \/ Complete \/ Body \/ BodyFails
    <2>1. pc' # "call" /\ UNCHANGED hops
      BY <1>3 DEF Begin, Hop, Headers, Complete, Body, BodyFails, Fail, Goto, observed
    <2> QED  BY <2>1 DEF ApprovalInv, ReadyToConnect, ConnectionsAreApproved
  <1>4. CASE UNCHANGED vars
    BY <1>4 DEF ApprovalInv, ReadyToConnect, ConnectionsAreApproved, vars
  <1> QED  BY <1>1, <1>2, <1>3, <1>4 DEF Next

\* No connection leaves the fetch stage that policy did not approve: for every
\* policy, every resolver and every server, each hop's URL, port, address and
\* every other answer of the lookup it came from were permitted.
THEOREM OnlyApprovedConnections == Spec => []ConnectionsAreApproved
  <1>1. Init => ApprovalInv
    BY DEF Init, ApprovalInv, ReadyToConnect, ConnectionsAreApproved
  <1>2. ApprovalInv => ConnectionsAreApproved
    BY DEF ApprovalInv
  <1> QED  BY InitType, NextType, NextApproval, <1>1, <1>2, PTL DEF Spec

--------------------------------------------------------------------------------
(***************************************************************************)
(* Time.  What the client may still take, and what has passed, stay within *)
(* the deadline until a lookup is waited for, and within one lookup after. *)
(***************************************************************************)
TimeInv ==
    /\ pc = "resolve" => elapsed + left <= Deadline
    /\ pc \in {"call", "headers", "complete", "body"} => elapsed + left <= Deadline + MaxLookup
    /\ OverrunIsOneLookup

LEMMA NextTime == TypeInv /\ TimeInv /\ [Next]_vars => TimeInv'
  <1> SUFFICES ASSUME TypeInv, TimeInv, [Next]_vars PROVE TimeInv'
    OBVIOUS
  <1> USE FetchAssumption
  <1>0. elapsed \in Nat /\ left \in Nat /\ Deadline \in Nat /\ MaxLookup \in Nat
    BY DEF TypeInv, TypeOK
  <1>1. CASE Begin
    BY <1>0, <1>1 DEF Begin, TimeInv, OverrunIsOneLookup, Fail, Goto, observed
  <1>2. CASE Hop
    BY <1>0, <1>2 DEF Hop, TimeInv, OverrunIsOneLookup, Fail, Goto, observed
  <1>3. CASE Resolve
    <2>0. 0 \in 0..MaxLookup /\ elapsed + 0 = elapsed
      BY <1>0
    <2>1. PICK wait \in 0..MaxLookup : elapsed' = elapsed + wait
      BY <1>3, <2>0 DEF Resolve
    <2>2. pc = "resolve" /\ pc' \in {"call", "done"} /\ left' = left
      BY <1>3 DEF Resolve, Fail, Goto
    <2> QED  BY <1>0, <2>1, <2>2 DEF TimeInv, OverrunIsOneLookup
  <1>4. CASE Call
    <2>1. PICK wait \in 0..left : elapsed' = elapsed + wait /\ left' = left - wait
      BY <1>4 DEF Call
    <2>2. pc = "call" /\ pc' = "headers"
      BY <1>4 DEF Call, Goto
    <2> QED  BY <1>0, <2>1, <2>2 DEF TimeInv, OverrunIsOneLookup
  <1>5. CASE CallFails
    <2>0. left \in 0..left
      BY <1>0
    <2>1. PICK wait \in 0..left : elapsed' = elapsed + wait
      BY <1>5, <2>0 DEF CallFails
    <2>2. pc = "call" /\ pc' = "done"
      BY <1>5 DEF CallFails, Fail
    <2> QED  BY <1>0, <2>1, <2>2 DEF TimeInv, OverrunIsOneLookup
  <1>6. CASE Headers
    <2>1. pc = "headers" /\ pc' \in {"hop", "complete", "done"} /\ UNCHANGED <<elapsed, left>>
      BY <1>6 DEF Headers, Fail, Goto, observed
    <2> QED  BY <1>0, <2>1 DEF TimeInv, OverrunIsOneLookup
  <1>7. CASE Complete
    <2>1. pc = "complete" /\ pc' \in {"body", "done"} /\ UNCHANGED <<elapsed, left>>
      BY <1>7 DEF Complete, Fail, Goto, observed
    <2> QED  BY <1>0, <2>1 DEF TimeInv, OverrunIsOneLookup
  <1>8. CASE Body \/ BodyFails
    <2>0. left \in 0..left
      BY <1>0
    <2>1. PICK wait \in 0..left : elapsed' = elapsed + wait
      BY <1>8, <2>0 DEF Body, BodyFails
    <2>2. pc = "body" /\ pc' = "done"
      BY <1>8 DEF Body, BodyFails, Fail
    <2> QED  BY <1>0, <2>1, <2>2 DEF TimeInv, OverrunIsOneLookup
  <1>9. CASE UNCHANGED vars
    BY <1>9 DEF TimeInv, OverrunIsOneLookup, vars
  <1> QED  BY <1>1, <1>2, <1>3, <1>4, <1>5, <1>6, <1>7, <1>8, <1>9 DEF Next

\* The network stage takes at most its deadline and one name lookup, however
\* many redirects are allowed and followed.
THEOREM BoundedOverrun == Spec => []OverrunIsOneLookup
  <1>1. Init => TimeInv
    BY FetchAssumption DEF Init, TimeInv, OverrunIsOneLookup
  <1>2. TimeInv => OverrunIsOneLookup
    BY DEF TimeInv
  <1> QED  BY InitType, NextType, NextTime, <1>1, <1>2, PTL DEF Spec

--------------------------------------------------------------------------------
(***************************************************************************)
(* Limits.  The counters of the code count what was observed: every        *)
(* connection but the one being judged was a redirect that was counted,    *)
(* and the header total is the sum over all responses, less the one that   *)
(* has not been measured.                                                  *)
(***************************************************************************)
Counted ==
    /\ pc \in {"start", "hop", "resolve", "call"} => Len(hops) = redirects
    /\ pc \in {"headers", "complete", "body"} => Len(hops) = redirects + 1

Measured ==
    /\ pc \in {"start", "hop", "resolve", "call", "complete", "body"} =>
         received = headerBytes /\ received <= MAX_HEADER_BYTES
    /\ pc = "headers" => received = headerBytes + response.headers
    /\ Delivered => received <= MAX_HEADER_BYTES

LimitInv == Counted /\ Measured /\ Len(hops) <= MAX_REDIRECTS + 1

LEMMA LimitsHold == TypeInv /\ LimitInv => LimitsAreCumulative
  BY DEF LimitInv, Measured, LimitsAreCumulative

\* The facts about a step that limits and descriptions depend on.
LEMMA CallStep ==
    ASSUME TypeInv, Call \/ CallFails
    PROVE  /\ pc = "call" /\ pc' \in {"headers", "done"} /\ UNCHANGED session
           /\ hops \in Seq([url : Urls, answer : SUBSET Addresses, address : Addresses])
           /\ Len(hops) \in Nat /\ Len(hops') = Len(hops) + 1
           /\ \A n \in 1..Len(hops) : hops'[n] = hops[n]
           /\ hops'[Len(hops) + 1].url = current
           /\ pc' = "done" => result'.code # None
           /\ pc' = "headers" => received' = received + response'.headers
  <1>1. PICK address \in Pins :
          hops' = Append(hops, [url |-> current, answer |-> pinned, address |-> address])
    BY DEF Call, CallFails
  <1>2. hops \in Seq([url : Urls, answer : SUBSET Addresses, address : Addresses])
    BY DEF TypeInv, TypeOK
  <1>3. pc = "call" /\ pc' \in {"headers", "done"} /\ UNCHANGED session
    BY DEF Call, CallFails, Goto, Fail
  <1>4. pc' = "done" => result'.code # None
    <2>1. CASE Call
      BY <2>1 DEF Call, Goto
    <2>2. CASE CallFails
      BY <2>2, ResultAssumption DEF CallFails, Fail, Codes, TransportCodes
    <2> QED  BY <2>1, <2>2
  <1>5. pc' = "headers" => received' = received + response'.headers
    <2>1. CASE Call
      BY <2>1 DEF Call
    <2>2. CASE CallFails
      BY <2>2 DEF CallFails, Fail
    <2> QED  BY <2>1, <2>2
  <1>6. /\ Len(hops) \in Nat /\ Len(hops') = Len(hops) + 1
        /\ \A n \in 1..Len(hops) : hops'[n] = hops[n]
        /\ hops'[Len(hops) + 1].url = current
    BY <1>1, <1>2
  <1> QED  BY <1>2, <1>3, <1>4, <1>5, <1>6

LEMMA HeadersStep ==
    ASSUME TypeInv, Headers
    PROVE  /\ pc = "headers" /\ UNCHANGED <<requested, response, observed>>
           /\ headerBytes' = headerBytes + response.headers
           /\ \/ pc' = "done" /\ result'.code # None
              \/ /\ pc' = "complete" /\ headerBytes' <= MAX_HEADER_BYTES
                 /\ UNCHANGED <<redirects, current>>
              \/ /\ pc' = "hop" /\ headerBytes' <= MAX_HEADER_BYTES
                 /\ redirects' = redirects + 1
  <1> USE FetchAssumption
  <1>1. headerBytes \in Nat /\ response.headers \in Nat
    BY DEF TypeInv, TypeOK, Control, Headers, Responses, Redirections, Documents
  <1>2. /\ pc = "headers" /\ UNCHANGED <<requested, response, observed>>
        /\ headerBytes' = headerBytes + response.headers
    BY DEF Headers, HeaderTotal
  <1>3. HeaderTotal > MAX_HEADER_BYTES \/ HeaderTotal <= MAX_HEADER_BYTES
    BY <1>1 DEF HeaderTotal
  <1>4. \/ pc' = "done" /\ result'.code # None
        \/ /\ pc' = "complete" /\ ~(HeaderTotal > MAX_HEADER_BYTES)
           /\ UNCHANGED <<redirects, current>>
        \/ /\ pc' = "hop" /\ ~(HeaderTotal > MAX_HEADER_BYTES)
           /\ redirects' = redirects + 1
    BY ResultAssumption DEF Headers, Fail, Goto, Codes, TransportCodes
  <1> QED  BY <1>1, <1>2, <1>3, <1>4 DEF HeaderTotal

\* The last two steps of a fetch.
LEMMA CompleteStep ==
    ASSUME TypeInv, Complete \/ Body \/ BodyFails
    PROVE  /\ pc \in {"complete", "body"} /\ pc' \in {"body", "done"}
           /\ UNCHANGED <<session, response, hops, received>>
           /\ pc' = "done" =>
                \/ result'.code # None
                \/ result'.artifact = Artifact /\ response.size <= MAX_WIRE_BYTES
  <1> USE ResultAssumption DEF Fail, Goto, Codes, TransportCodes
  <1>1. CASE Complete
    BY <1>1 DEF Complete, observed
  <1>2. CASE Body
    <2>1. response.size \in Nat
      BY <1>2, FetchAssumption DEF Body, TypeInv, Control, Documents
    <2>2. /\ pc = "body" /\ pc' = "done" /\ UNCHANGED <<session, response, hops, received>>
      BY <1>2 DEF Body
    <2>3. CASE response.size > MAX_WIRE_BYTES
      BY <1>2, <2>2, <2>3 DEF Body
    <2>4. CASE ~(response.size > MAX_WIRE_BYTES)
      BY <1>2, <2>1, <2>2, <2>4, FetchAssumption DEF Body
    <2> QED  BY <2>3, <2>4
  <1>3. CASE BodyFails
    BY <1>3 DEF BodyFails
  <1> QED  BY <1>1, <1>2, <1>3

LEMMA NextLimits == TypeInv /\ TypeInv' /\ LimitInv /\ [Next]_vars => LimitInv'
  <1> SUFFICES ASSUME TypeInv, TypeInv', LimitInv, [Next]_vars PROVE LimitInv'
    OBVIOUS
  <1> USE FetchAssumption
  <1>0. /\ redirects \in Nat /\ headerBytes \in Nat /\ received \in Nat
        /\ redirects' \in Nat /\ headerBytes' \in Nat /\ received' \in Nat
        /\ MAX_REDIRECTS \in Nat /\ MAX_HEADER_BYTES \in Nat
    BY DEF TypeInv, TypeOK
  <1>1. CASE Begin
    <2>1. /\ pc = "start" /\ UNCHANGED <<redirects, headerBytes, received, hops>>
          /\ \/ pc' = "hop"
             \/ pc' = "done" /\ result'.code # None
      BY <1>1, ResultAssumption DEF Begin, observed, Fail, Goto, Codes, TransportCodes
    <2> QED  BY <2>1 DEF LimitInv, Counted, Measured, Delivered
  <1>2. CASE Hop
    <2>1. /\ pc = "hop" /\ UNCHANGED <<redirects, headerBytes, received, hops>>
          /\ \/ pc' = "resolve"
             \/ pc' = "done" /\ result'.code # None
      BY <1>2, ResultAssumption DEF Hop, session, observed, Fail, Goto, Codes
    <2> QED  BY <2>1 DEF LimitInv, Counted, Measured, Delivered
  <1>3. CASE Resolve
    <2>1. /\ pc = "resolve" /\ UNCHANGED <<redirects, headerBytes, received, hops>>
          /\ \/ pc' = "call"
             \/ pc' = "done" /\ result'.code # None
      BY <1>3, ResultAssumption DEF Resolve, session, Fail, Goto, Codes, TransportCodes
    <2> QED  BY <2>1 DEF LimitInv, Counted, Measured, Delivered
  <1>4. CASE Call \/ CallFails
    <2>1. redirects <= MAX_REDIRECTS
      BY <1>4 DEF Call, CallFails, TypeInv, Control, UnderWay
    <2>2. Len(hops') = redirects + 1 /\ redirects' = redirects /\ headerBytes' = headerBytes
      BY <1>4, CallStep DEF LimitInv, Counted, session
    <2>3. Counted' /\ Len(hops') <= MAX_REDIRECTS + 1
      BY <1>0, <1>4, <2>1, <2>2, CallStep DEF Counted
    <2>4. Measured'
      BY <1>4, <2>2, CallStep DEF LimitInv, Measured, Delivered
    <2> QED  BY <2>3, <2>4 DEF LimitInv
  <1>5. CASE Headers
    <2>1. UNCHANGED <<received, hops>> /\ received = headerBytes + response.headers
          /\ Len(hops) = redirects + 1
      BY <1>5, HeadersStep DEF LimitInv, Counted, Measured, observed
    <2>2. Counted'
      BY <1>5, <2>1, HeadersStep DEF Counted
    <2>3. Measured'
      BY <1>5, <2>1, HeadersStep DEF Measured, Delivered
    <2> QED  BY <2>1, <2>2, <2>3 DEF LimitInv
  <1>6. CASE Complete \/ Body \/ BodyFails
    <2>1. /\ pc \in {"complete", "body"} /\ pc' \in {"body", "done"}
          /\ UNCHANGED <<redirects, headerBytes, received, hops>>
      BY <1>6, CompleteStep DEF session
    <2> QED  BY <2>1 DEF LimitInv, Counted, Measured, Delivered
  <1>7. CASE UNCHANGED vars
    BY <1>7 DEF LimitInv, Counted, Measured, Delivered, vars
  <1> QED  BY <1>1, <1>2, <1>3, <1>4, <1>5, <1>6, <1>7 DEF Next

\* The redirect and header limits bound the request as a whole, for every
\* value of the limits.
THEOREM CumulativeLimits == Spec => []LimitsAreCumulative
  <1>1. Init => LimitInv
    BY FetchAssumption DEF Init, LimitInv, Counted, Measured, Delivered
  <1> QED  BY InitType, NextType, NextLimits, LimitsHold, <1>1, PTL DEF Spec

--------------------------------------------------------------------------------
(***************************************************************************)
(* Description.  The first connection went to the requested URL and the    *)
(* one whose response is judged to the current one.                        *)
(***************************************************************************)
Traced ==
    /\ Len(hops) = 0 /\ pc \in {"hop", "resolve", "call"} => current = requested
    /\ Len(hops) > 0 => hops[1].url = requested
    /\ pc \in {"headers", "complete", "body"} => hops[Len(hops)].url = current

DescribeInv == Traced /\ FetchedDescribesLastHop

LEMMA NextDescribe ==
    TypeInv /\ LimitInv /\ DescribeInv /\ [Next]_vars => DescribeInv'
  <1> SUFFICES ASSUME TypeInv, LimitInv, DescribeInv, [Next]_vars PROVE DescribeInv'
    OBVIOUS
  <1>0. redirects \in Nat /\ Len(hops) \in Nat
    BY FetchAssumption DEF TypeInv, TypeOK
  <1>1. CASE Begin
    <2>1. /\ pc = "start" /\ UNCHANGED <<requested, hops>>
          /\ \/ pc' = "hop" /\ current' = requested
             \/ pc' = "done" /\ result'.code # None
      BY <1>1, ResultAssumption DEF Begin, observed, Fail, Goto, Codes, TransportCodes
    <2> QED  BY <2>1 DEF DescribeInv, Traced, FetchedDescribesLastHop, Delivered
  <1>2. CASE Hop
    <2>1. /\ pc = "hop" /\ UNCHANGED <<requested, current, hops>>
          /\ \/ pc' = "resolve"
             \/ pc' = "done" /\ result'.code # None
      BY <1>2, ResultAssumption DEF Hop, session, observed, Fail, Goto, Codes
    <2> QED  BY <2>1 DEF DescribeInv, Traced, FetchedDescribesLastHop, Delivered
  <1>3. CASE Resolve
    <2>1. /\ pc = "resolve" /\ UNCHANGED <<requested, current, hops>>
          /\ \/ pc' = "call"
             \/ pc' = "done" /\ result'.code # None
      BY <1>3, ResultAssumption DEF Resolve, session, Fail, Goto, Codes, TransportCodes
    <2> QED  BY <2>1 DEF DescribeInv, Traced, FetchedDescribesLastHop, Delivered
  <1>4. CASE Call \/ CallFails
    <2>1. UNCHANGED <<requested, current>> /\ pc = "call" /\ pc' \in {"headers", "done"}
      BY <1>4, CallStep DEF session
    <2>2. hops'[1].url = requested
      <3>1. CASE Len(hops) = 0
        BY <1>0, <1>4, <2>1, <3>1, CallStep DEF DescribeInv, Traced
      <3>2. CASE Len(hops) > 0
        <4>1. 1 \in 1..Len(hops)
          BY <1>0, <3>2
        <4> QED  BY <1>4, <3>2, <4>1, CallStep DEF DescribeInv, Traced
      <3> QED  BY <1>0, <3>1, <3>2
    <2>3. hops'[Len(hops')].url = current
      BY <1>4, CallStep
    <2>4. Len(hops') # 0
      BY <1>0, <1>4, CallStep
    <2>5. Traced'
      BY <2>1, <2>2, <2>3, <2>4 DEF Traced
    <2>6. FetchedDescribesLastHop'
      BY <1>4, <2>1, CallStep DEF FetchedDescribesLastHop, Delivered
    <2> QED  BY <2>5, <2>6 DEF DescribeInv
  <1>5. CASE Headers
    <2>1. /\ pc = "headers" /\ UNCHANGED <<requested, hops>>
          /\ \/ pc' = "done" /\ result'.code # None
             \/ pc' = "complete" /\ UNCHANGED current
             \/ pc' = "hop"
      BY <1>5, HeadersStep DEF observed
    <2>2. Len(hops) # 0
      BY <1>0, <2>1 DEF LimitInv, Counted
    <2> QED  BY <2>1, <2>2 DEF DescribeInv, Traced, FetchedDescribesLastHop, Delivered
  <1>6. CASE Complete \/ Body \/ BodyFails
    <2>1. /\ pc \in {"complete", "body"} /\ pc' \in {"body", "done"}
          /\ UNCHANGED <<requested, current, redirects, hops>>
          /\ pc' = "done" => \/ result'.code # None
                             \/ /\ result'.artifact = Artifact
                                /\ response.size <= MAX_WIRE_BYTES
      BY <1>6, CompleteStep DEF session
    <2>2. Len(hops) = redirects + 1 /\ Len(hops) > 0
      BY <1>0, <2>1 DEF LimitInv, Counted
    <2>3. hops[1].url = requested /\ hops[Len(hops)].url = current
      BY <2>1, <2>2 DEF DescribeInv, Traced
    <2>4. Traced'
      BY <2>1, <2>2, <2>3 DEF Traced
    <2>5. FetchedDescribesLastHop'
      BY <2>1, <2>2, <2>3 DEF FetchedDescribesLastHop, Delivered, Artifact
    <2> QED  BY <2>4, <2>5 DEF DescribeInv
  <1>7. CASE UNCHANGED vars
    BY <1>7 DEF DescribeInv, Traced, FetchedDescribesLastHop, Delivered, vars
  <1> QED  BY <1>1, <1>2, <1>3, <1>4, <1>5, <1>6, <1>7 DEF Next

\* What is handed on describes the exchange: requested first, received over
\* the last connection, one redirect per connection before it, whole.
THEOREM FetchedIsDescribed == Spec => []FetchedDescribesLastHop
  <1>1. Init => LimitInv /\ DescribeInv
    BY FetchAssumption DEF Init, LimitInv, Counted, Measured, DescribeInv, Traced,
         FetchedDescribesLastHop, Delivered
  <1>2. DescribeInv => FetchedDescribesLastHop
    BY DEF DescribeInv
  <1> QED  BY InitType, NextType, NextLimits, NextDescribe, <1>1, <1>2, PTL DEF Spec
================================================================================
