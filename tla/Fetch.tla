--------------------------------- MODULE Fetch ---------------------------------
(***************************************************************************)
(* Fetcher::fetch of webfetch-fetch (fetch-worker/src/fetch.rs) with the   *)
(* resolution it pins connections to (resolve.rs): redirects followed by   *)
(* hand, each hop validated and resolved anew, one deadline, one header    *)
(* budget and one body limit for the whole request.                        *)
(*                                                                         *)
(* The network is not trusted: every lookup answers what it likes, however *)
(* often a name was asked before, and every server sends any status,       *)
(* location, headers, media type and body, as late as the HTTP client      *)
(* allows.  Which addresses and ports policy permits is a parameter.       *)
(***************************************************************************)
EXTENDS Naturals, Sequences

CONSTANTS
    Urls,
    Sound,            \* URLs check_destination accepts
    PortPermitted,    \* URLs whose port DestinationPolicy::permits_port accepts
    Addresses,
    Permitted,        \* addresses DestinationPolicy::permits accepts
    HeaderSizes,      \* header bytes of a response
    BodySizes,        \* wire bytes of a body
    MAX_REDIRECTS,
    MAX_HEADER_BYTES,
    MAX_WIRE_BYTES,
    Deadline,         \* FETCH_DEADLINE_SECONDS, in ticks
    MaxLookup,        \* longest time the system resolver takes, in ticks
    None

ASSUME FetchAssumption ==
    /\ Sound \subseteq Urls /\ PortPermitted \subseteq Urls /\ Permitted \subseteq Addresses
    /\ HeaderSizes \subseteq Nat /\ BodySizes \subseteq Nat
    /\ {MAX_REDIRECTS, MAX_HEADER_BYTES, MAX_WIRE_BYTES, Deadline, MaxLookup} \subseteq Nat
    /\ None \notin Urls

VARIABLES
    pc,
    requested,    \* what the caller asked for; None: not a URL at all
    current,      \* the URL of this hop
    redirects,
    headerBytes,  \* header_bytes
    left,         \* what is left of the HTTP client's global timeout
    pinned,       \* addresses of the ValidatedDestination
    response,     \* the response being judged
    result,       \* what fetch returned, None before
    (***********************************************************************)
    (* Observations: elapsed is the clock; no guard reads the others.      *)
    (***********************************************************************)
    elapsed,
    hops,         \* the connections made: URL, the lookup's answer, address
    received      \* header bytes of every response so far

vars == <<pc, requested, current, redirects, headerBytes, left, pinned, response, result,
          elapsed, hops, received>>
session == <<requested, current, redirects, headerBytes>>
observed == <<elapsed, hops, received>>

--------------------------------------------------------------------------------
\* 301, 302, 303, 307 or 308 with a location; target is what it joins to.
Redirections == [headers : HeaderSizes, redirect : {TRUE}, target : Urls \cup {None}]

\* Any other; handled: its media type and its coding are supported ones.
Documents == [headers : HeaderSizes, redirect : {FALSE}, handled : BOOLEAN, size : BodySizes]

Responses == Redirections \cup Documents

\* Codes a failed exchange is classified as, besides a timeout.
TransportCodes == {"response_limit_exceeded", "unsafe_source", "fetch_failed"}

Codes == TransportCodes \cup {"deadline_exceeded", "unsupported_content"}

Artifacts == [requested : Urls, final : Urls, redirects : Nat, size : BodySizes]

Results == [code : Codes, artifact : {None}] \cup [code : {None}, artifact : Artifacts]

ASSUME ResultAssumption ==
    None \notin Codes /\ None \notin Artifacts /\ None \notin Results /\ None \notin Responses

Init ==
    /\ pc = "start"
    /\ requested \in Urls \cup {None}
    /\ current = None
    /\ redirects = 0
    /\ headerBytes = 0
    /\ left = 0
    /\ pinned = {}
    /\ response = None
    /\ result = None
    /\ elapsed = 0
    /\ hops = <<>>
    /\ received = 0

Fail(code) == pc' = "done" /\ result' = [code |-> code, artifact |-> None]

Goto(next) == pc' = next /\ UNCHANGED result

\* destination_url: a URL of acceptable length that check_destination accepts.
Begin ==
    /\ pc = "start"
    /\ IF requested \in Sound
       THEN Goto("hop") /\ current' = requested
       ELSE Fail("unsafe_source") /\ UNCHANGED current
    /\ UNCHANGED <<requested, redirects, headerBytes, left, pinned, response, observed>>

\* Mutant: every hop gets the whole deadline.
HopFresh ==
    /\ pc = "hop"
    /\ Goto("resolve") /\ left' = Deadline
    /\ UNCHANGED <<session, pinned, response, observed>>

\* Mutant: the subtraction is not checked.
HopUnchecked ==
    /\ pc = "hop"
    /\ Goto("resolve") /\ left' = Deadline - elapsed
    /\ UNCHANGED <<session, pinned, response, observed>>

\* The top of the loop: what remains of the deadline becomes this hop's timeout.
Hop ==
    /\ pc = "hop"
    /\ IF elapsed >= Deadline
       THEN Fail("deadline_exceeded") /\ UNCHANGED left
       ELSE Goto("resolve") /\ left' = Deadline - elapsed
    /\ UNCHANGED <<session, pinned, response, observed>>

\* "Every answer must be permitted, not just the one that would be used."
Approves(answer) == answer \subseteq Permitted

\* Mutant: a lookup that fails is tried again.
ResolveRetries ==
    /\ pc = "resolve"
    /\ IF current \notin Sound \cap PortPermitted
       THEN Fail("unsafe_source") /\ UNCHANGED pinned
       ELSE \/ Goto("hop") /\ UNCHANGED pinned
            \/ \E answer \in SUBSET Addresses \ {{}} :
                 IF Approves(answer)
                 THEN Goto("call") /\ pinned' = answer
                 ELSE Fail("unsafe_source") /\ UNCHANGED pinned
    /\ UNCHANGED <<session, left, response, observed>>

\* ValidatedDestination::resolve.  The lookup blocks, outside any timeout.
Resolve ==
    /\ pc = "resolve"
    /\ IF current \notin Sound \cap PortPermitted
       THEN Fail("unsafe_source") /\ UNCHANGED <<pinned, elapsed>>
       ELSE \E wait \in 0..MaxLookup :
              /\ elapsed' = elapsed + wait
              /\ \/ Fail("fetch_failed") /\ UNCHANGED pinned
                 \/ \E answer \in SUBSET Addresses \ {{}} :
                      IF Approves(answer)
                      THEN Goto("call") /\ pinned' = answer
                      ELSE Fail("unsafe_source") /\ UNCHANGED pinned
    /\ UNCHANGED <<session, left, response, hops, received>>

\* Mutant: the client resolves the name again.
PinsNothing == Addresses

\* PinnedResolver: whatever the client asks for, these are the answers.
Pins == pinned

\* agent.get(..).call(): the client connects to an address it was given and
\* the response headers arrive, within the timeout.
Call ==
    /\ pc = "call"
    /\ \E address \in Pins, wait \in 0..left, r \in Responses :
         /\ elapsed' = elapsed + wait
         /\ left' = left - wait
         /\ response' = r
         /\ hops' = Append(hops, [url |-> current, answer |-> pinned, address |-> address])
         /\ received' = received + r.headers
    /\ Goto("headers")
    /\ UNCHANGED <<session, pinned>>

\* The call fails: refused, reset, too large a header, not in time.
CallFails ==
    /\ pc = "call"
    /\ \E address \in Pins :
         hops' = Append(hops, [url |-> current, answer |-> pinned, address |-> address])
    /\ \/ \E wait \in 0..left, code \in TransportCodes :
            Fail(code) /\ elapsed' = elapsed + wait
       \/ Fail("deadline_exceeded") /\ elapsed' = elapsed + left
    /\ left' = 0
    /\ UNCHANGED <<session, pinned, response, received>>

\* Mutant: each response is measured on its own.
HeaderTotalOfHop == response.headers

HeaderTotal == headerBytes + response.headers

\* Headers are measured across hops, then a redirect is followed to the top
\* of the loop, which judges its target like any other URL.
Headers ==
    /\ pc = "headers"
    /\ headerBytes' = HeaderTotal
    /\ IF HeaderTotal > MAX_HEADER_BYTES
       THEN Fail("response_limit_exceeded") /\ UNCHANGED <<redirects, current>>
       ELSE IF ~response.redirect
       THEN Goto("complete") /\ UNCHANGED <<redirects, current>>
       ELSE /\ redirects' = redirects + 1
            /\ IF redirects + 1 > MAX_REDIRECTS
               THEN Fail("response_limit_exceeded") /\ UNCHANGED current
               ELSE IF response.target = None
               THEN Fail("unsafe_source") /\ UNCHANGED current
               ELSE Goto("hop") /\ current' = response.target
    /\ UNCHANGED <<requested, left, pinned, response, observed>>

\* complete: the media type and the coding, before the body is read.
Complete ==
    /\ pc = "complete"
    /\ IF response.handled THEN Goto("body") ELSE Fail("unsupported_content")
    /\ UNCHANGED <<session, left, pinned, response, observed>>

\* Mutant: the artifact names the URL that was asked for.
ArtifactOfRequest ==
    [requested |-> requested, final |-> requested, redirects |-> redirects,
     size |-> response.size]

Artifact ==
    [requested |-> requested, final |-> current, redirects |-> redirects,
     size |-> response.size]

\* The body arrives whole within the timeout and the limit.
Body ==
    /\ pc = "body"
    /\ \E wait \in 0..left : elapsed' = elapsed + wait /\ left' = left - wait
    /\ IF response.size > MAX_WIRE_BYTES THEN Fail("response_limit_exceeded")
       ELSE pc' = "done" /\ result' = [code |-> None, artifact |-> Artifact]
    /\ UNCHANGED <<session, pinned, response, hops, received>>

\* It stalls, or the connection breaks.
BodyFails ==
    /\ pc = "body"
    /\ \/ \E wait \in 0..left : Fail("fetch_failed") /\ elapsed' = elapsed + wait
       \/ Fail("deadline_exceeded") /\ elapsed' = elapsed + left
    /\ left' = 0
    /\ UNCHANGED <<session, pinned, response, hops, received>>

Next ==
    \/ Begin \/ Hop \/ Resolve \/ Call \/ CallFails
    \/ Headers \/ Complete \/ Body \/ BodyFails

\* One thread; the resolver and the HTTP client return, the latter within its
\* timeout.
Spec == Init /\ [][Next]_vars /\ WF_vars(Next)

--------------------------------------------------------------------------------
(***************************************************************************)
(* Properties.                                                             *)
(***************************************************************************)
\* Every variable has its type.
TypeOK ==
    /\ pc \in {"start", "hop", "resolve", "call", "headers", "complete", "body", "done"}
    /\ requested \in Urls \cup {None}
    /\ current \in Urls \cup {None}
    /\ redirects \in 0..(MAX_REDIRECTS + 1)
    /\ headerBytes \in Nat
    /\ left \in 0..Deadline
    /\ pinned \subseteq Addresses
    /\ response \in Responses \cup {None}
    /\ result \in Results \cup {None}
    /\ elapsed \in Nat
    /\ hops \in Seq([url : Urls, answer : SUBSET Addresses, address : Addresses])
    /\ received \in Nat

\* A response was fetched.
Delivered == pc = "done" /\ result.code = None

\* "Every hop is re-validated": each connection of a request goes to a URL
\* and a port policy accepts, at an address out of the very lookup that was
\* judged for that hop, of which every other answer was permitted too,
\* whatever names answered on other hops or would answer next.
ConnectionsAreApproved ==
    \A n \in 1..Len(hops) :
        /\ hops[n].url \in Sound \cap PortPermitted
        /\ hops[n].address \in hops[n].answer
        /\ hops[n].answer \subseteq Permitted

\* The limits hold for a request and not for a hop: no more connections than
\* redirects allow and one, and no response is followed or stored once the
\* headers of all of them exceed their limit.
LimitsAreCumulative ==
    /\ Len(hops) <= MAX_REDIRECTS + 1
    /\ pc \in {"hop", "resolve", "call", "complete", "body"} \/ Delivered
         => received <= MAX_HEADER_BYTES

\* A fetched response describes what happened: it was asked for first, it
\* came over the last connection, and every other connection was a redirect.
FetchedDescribesLastHop ==
    Delivered =>
        /\ Len(hops) = result.artifact.redirects + 1
        /\ hops[1].url = result.artifact.requested
        /\ hops[Len(hops)].url = result.artifact.final
        /\ result.artifact.size <= MAX_WIRE_BYTES

\* However many hops there are, the network stage overruns its deadline by
\* one name lookup at most.
OverrunIsOneLookup == elapsed <= Deadline + MaxLookup

\* A fetch ends, with a response or a code.
FetchEnds == <>(pc = "done" /\ result # None)
================================================================================
