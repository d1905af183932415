------------------------------ MODULE Inspection -------------------------------
(***************************************************************************)
(* One execution of webfetch-inspect: inspector/src/main.rs, the pipeline  *)
(* it runs (pipeline.rs) over the states of session.rs, the scanner and    *)
(* its budget (detect.rs), decoding (decode.rs) and the conversion chain   *)
(* (convert.rs).                                                           *)
(*                                                                         *)
(* The response is a record of what the passes can tell apart: the size of *)
(* each form of it, which forms the rules match, what decoding and each    *)
(* converter make of it.  A string handed to the scanner is the sequence   *)
(* of its parts.  Time is one event, the deadline passing, which may fall  *)
(* between any two passes; a scan may fail or time out, an output file may *)
(* not be written, the process may be killed.                              *)
(***************************************************************************)
EXTENDS Naturals, Sequences, Envelope

CONSTANTS
    Pages,                 \* the responses the handoff may hold
    Policies,              \* the names rule bundles are installed under
    Torn,                  \* an output file that was not written to its end
    MAX_DECODED_BYTES,
    MAX_DECODE_EXPANSION,
    MIN_DECODE_CEILING,    \* 4096 in bounded_read
    MAX_SCAN_INPUT_BYTES,
    MAX_CONTENT_CHARS

\* The converters, in the order they are tried.
CHAIN == <<"native", "extracted", "basic">>
Converters == {"native", "extracted", "basic"}

\* The parts a scanned string is made of.
Parts == {"body", "url", "type", "text", "entities", "folded"} \cup Converters

\* What release scans: the fields a caller would receive.
Combined(content) == <<"url", "type", content>>

Strings == {<<p>> : p \in Parts} \cup {Combined(c) : c \in Converters \cup {"text"}}

\* The codes a fetch can end with.
FetchCodes == ErrorCode \ {"content_rejected", "inspection_failed"}

Page ==
    [handed    : FetchCodes \cup {"refused", "fetched"}, \* what Handoff::read returned
     media     : {"missing", "malformed", "unsupported", "html", "other"},
     format    : {"markdown", "text", "html"},
     coding    : {"identity", "deflated", "unknown"},
     intact    : BOOLEAN,               \* the stream is well formed as far as it is read
     plain     : Nat,                   \* bytes it expands to
     charset   : BOOLEAN,               \* those bytes are text in the charset
     converts  : [Converters -> {"none", "empty", "poor", "usable"}],
     size      : [Parts -> Nat],        \* bytes
     chars     : [Converters \cup {"text"} -> Nat],
     hits      : SUBSET Strings,        \* strings some rule matches
     stamp     : BOOLEAN,               \* retrieved_at parses
     described : BOOLEAN]               \* the other payload fields are valid

ASSUME InspectionAssumption ==
    /\ Pages \subseteq Page
    /\ None \notin Policies
    /\ {MAX_DECODED_BYTES, MAX_DECODE_EXPANSION, MIN_DECODE_CEILING,
        MAX_SCAN_INPUT_BYTES, MAX_CONTENT_CHARS} \subseteq Nat

VARIABLES
    page,       \* the response
    policy,     \* RuleBundle.policy_id
    pc,         \* the pass the process is at
    link,       \* the converter of CHAIN tried next
    candidate,  \* the conversion being scanned or released
    fallback,   \* the first poor but non-empty conversion
    remaining,  \* Detector.remaining_bytes
    scans,      \* Detector.scans
    telemetry,  \* what the run recorded about itself
    result,     \* what the pipeline returned: a Stop, data, or None before
    envelope,   \* what main is about to emit
    audit,      \* the line on stderr
    stored,     \* is the response body still in the handoff?
    out,        \* the envelope on stdout or in --out
    exit,       \* the exit code
    (***********************************************************************)
    (* Observations: no action's guard reads cleared or faults; late also  *)
    (* keeps the pass at which the deadline passed.                        *)
    (***********************************************************************)
    late,
    cleared,    \* the strings scanned in full without a match
    faults      \* scanner errors, timeouts and failed writes so far

session == <<link, candidate, fallback>>
detector == <<remaining, scans, cleared>>
reported == <<envelope, audit, stored, out, exit>>
vars == <<page, policy, pc, session, detector, telemetry, result, reported, late, faults>>

--------------------------------------------------------------------------------
(***************************************************************************)
(* Decoding.                                                               *)
(***************************************************************************)
\* The decoded size bounded_read accepts for the bytes that arrived.
Ceiling(wire) ==
    LET allowance == IF wire * MAX_DECODE_EXPANSION > MIN_DECODE_CEILING
                     THEN wire * MAX_DECODE_EXPANSION ELSE MIN_DECODE_CEILING
    IN IF allowance < MAX_DECODED_BYTES THEN allowance ELSE MAX_DECODED_BYTES

\* The code decode_content_encoding fails with, or None.
ContentEncodingError(p) ==
    IF p.coding = "unknown" THEN "unsupported_content"
    ELSE IF p.coding = "identity"
         THEN IF p.size["body"] > MAX_DECODED_BYTES THEN "response_limit_exceeded" ELSE None
    ELSE IF ~p.intact THEN "unsupported_content"
    ELSE IF p.plain > Ceiling(p.size["body"]) THEN "response_limit_exceeded"
    ELSE None

\* The code decoding the body to text fails with, or None.
DecodeError(p) ==
    IF ContentEncodingError(p) # None THEN ContentEncodingError(p)
    ELSE IF ~p.charset THEN "unsupported_content"
    ELSE None

--------------------------------------------------------------------------------
(***************************************************************************)
(* Stopping, scanning and deadlines.                                       *)
(***************************************************************************)
\* Why the pipeline stopped and what the inspection had concluded.
StopOf(code, status) == [stop |-> TRUE, code |-> code, status |-> status, matched |-> FALSE]
RejectedStop == [StopOf("content_rejected", "match") EXCEPT !.matched = TRUE]

Stop(code, status) ==
    /\ result' = StopOf(code, status)
    /\ pc' = "report"

ByteLength(s) ==
    IF Len(s) = 1 THEN page.size[s[1]]
    ELSE page.size[s[1]] + page.size[s[2]] + page.size[s[3]] + 2

\* Mutant: the budget is subtracted without a check.
ScanUnchecked(s) ==
    /\ remaining' = remaining - ByteLength(s)
    /\ scans' = scans + 1
    /\ s \notin page.hits
    /\ cleared' = cleared \cup {s}
    /\ UNCHANGED faults

\* Detector::scan and Inspection::scan found nothing in all of s.
ScanClears(s) ==
    /\ ByteLength(s) <= remaining
    /\ remaining' = remaining - ByteLength(s)
    /\ scans' = scans + 1
    /\ s \notin page.hits
    /\ cleared' = cleared \cup {s}
    /\ UNCHANGED faults

\* A scan that ends the response: over budget, which is not counted as a
\* scan; a scanner error or timeout; a match.
ScanStops(s) ==
    \/ /\ ByteLength(s) > remaining
       /\ Stop("inspection_failed", "failed")
       /\ UNCHANGED <<detector, faults>>
    \/ /\ ByteLength(s) <= remaining
       /\ remaining' = remaining - ByteLength(s)
       /\ scans' = scans + 1
       /\ \/ Stop("inspection_failed", "failed") /\ faults' = faults + 1
          \/ s \in page.hits /\ result' = RejectedStop /\ pc' = "report" /\ UNCHANGED faults
       /\ UNCHANGED cleared

\* The pass at `at` scans s and goes on to `next`.
ScanPass(at, s, next) ==
    /\ pc = at
    /\ \/ ScanClears(s) /\ pc' = next /\ UNCHANGED result
       \/ ScanStops(s)
    /\ UNCHANGED <<page, policy, session, telemetry, reported, late>>

IsLate == late # None

--------------------------------------------------------------------------------
(***************************************************************************)
(* The passes.                                                             *)
(***************************************************************************)
\* Mutant: the scan budget the design first proposed, half of this one.
InitProposedBudget ==
    /\ page \in Pages
    /\ policy \in Policies
    /\ pc = "start"
    /\ link = 1
    /\ candidate = None /\ fallback = None
    /\ remaining = MAX_SCAN_INPUT_BYTES \div 2 /\ scans = 0
    /\ telemetry = [received |-> FALSE, decoded |-> FALSE, method |-> None]
    /\ result = None /\ envelope = None /\ audit = None /\ stored = TRUE
    /\ out = None /\ exit = None
    /\ late = None /\ cleared = {} /\ faults = 0

Init ==
    /\ page \in Pages
    /\ policy \in Policies
    /\ pc = "start"
    /\ link = 1
    /\ candidate = None
    /\ fallback = None
    /\ remaining = MAX_SCAN_INPUT_BYTES
    /\ scans = 0
    /\ telemetry = [received |-> FALSE, decoded |-> FALSE, method |-> None]
    /\ result = None
    /\ envelope = None
    /\ audit = None
    /\ stored = TRUE
    /\ out = None
    /\ exit = None
    /\ late = None
    /\ cleared = {}
    /\ faults = 0

\* The key and the bundle load; the clock of the inspection starts.
Load ==
    /\ pc = "start"
    /\ pc' = "open"
    /\ UNCHANGED <<page, policy, session, detector, telemetry, result, reported, late, faults>>

\* The key, or else the bundle, is unusable: a fixed failure is emitted.
Unusable(code, field) ==
    /\ pc = "start"
    /\ envelope' = FailureEnvelope(code, field)
    /\ pc' = "emit_unusable"
    /\ UNCHANGED <<page, policy, session, detector, telemetry, result, audit, stored, out, exit, late, faults>>

\* Handoff::read, then Received::open.
Open ==
    /\ pc = "open"
    /\ IF page.handed = "refused" THEN Stop("internal_error", "not_run")
       ELSE IF page.handed # "fetched" THEN Stop(page.handed, "not_run")
       ELSE IF page.media \in {"missing", "malformed", "unsupported"}
            THEN Stop("unsupported_content", "not_run")
       ELSE pc' = "wire" /\ UNCHANGED result
    /\ telemetry' = [telemetry EXCEPT !.received = (page.handed = "fetched")]
    /\ UNCHANGED <<page, policy, session, detector, reported, late, faults>>

\* Received::scan_wire: the deadline, the body, the final URL, the media type,
\* then the two decoders.
WireDeadline ==
    /\ pc = "wire"
    /\ IF IsLate THEN Stop("deadline_exceeded", "not_run") ELSE pc' = "body" /\ UNCHANGED result
    /\ UNCHANGED <<page, policy, session, detector, telemetry, reported, late, faults>>

ScanBody == ScanPass("body", <<"body">>, "url")
ScanUrl == ScanPass("url", <<"url">>, "type")
ScanType == ScanPass("type", <<"type">>, "decode")

Decode ==
    /\ pc = "decode"
    /\ IF DecodeError(page) # None
       THEN Stop(DecodeError(page), "not_run") /\ UNCHANGED telemetry
       ELSE /\ pc' = "decoded"
            /\ telemetry' = [telemetry EXCEPT !.decoded = TRUE]
            /\ UNCHANGED result
    /\ UNCHANGED <<page, policy, session, detector, reported, late, faults>>

\* Decoded::scan_text: the deadline, the text, its two inspection-only views.
TextDeadline ==
    /\ pc = "decoded"
    /\ IF IsLate THEN Stop("deadline_exceeded", "failed") ELSE pc' = "text" /\ UNCHANGED result
    /\ UNCHANGED <<page, policy, session, detector, telemetry, reported, late, faults>>

ScanText == ScanPass("text", <<"text">>, "entities")
ScanEntities == ScanPass("entities", <<"entities">>, "folded")

\* Mutant: the folded view is produced and never scanned.
ScanFoldedSkipped ==
    /\ pc = "folded"
    /\ pc' = "convert"
    /\ UNCHANGED <<page, policy, session, detector, telemetry, result, reported, late, faults>>

ScanFolded == ScanPass("folded", <<"folded">>, "convert")

\* Normalized::convert, up to the scan of what it produced.  Inert source and
\* non-HTML text skip the chain.
Candidate(content, method) == [content |-> content, method |-> method]

ConvertWhole ==
    /\ pc = "convert"
    /\ \/ page.format = "html" /\ candidate' = Candidate("text", "source")
       \/ /\ page.format # "html" /\ page.media # "html"
          /\ candidate' = Candidate("text", "passthrough")
    /\ pc' = "whole"
    /\ UNCHANGED <<page, policy, link, fallback, detector, telemetry, result, reported, late, faults>>

InChain == pc = "convert" /\ page.format # "html" /\ page.media = "html"

\* Mutant: a converter that cannot convert is asked again.
ConvertNextStuck ==
    /\ InChain
    /\ link <= Len(CHAIN)
    /\ \/ page.converts[CHAIN[link]] = "none" /\ UNCHANGED <<pc, candidate>>
       \/ /\ page.converts[CHAIN[link]] # "none"
          /\ candidate' = Candidate(CHAIN[link], CHAIN[link])
          /\ pc' = "candidate"
    /\ UNCHANGED <<page, policy, link, fallback, detector, telemetry, result, reported, late, faults>>

ConvertNext ==
    /\ InChain
    /\ link <= Len(CHAIN)
    /\ \/ IsLate /\ Stop("deadline_exceeded", "failed") /\ UNCHANGED session
       \/ /\ ~IsLate
          /\ page.converts[CHAIN[link]] = "none"
          /\ link' = link + 1
          /\ UNCHANGED <<pc, candidate, fallback, result>>
       \/ /\ ~IsLate
          /\ page.converts[CHAIN[link]] # "none"
          /\ candidate' = Candidate(CHAIN[link], CHAIN[link])
          /\ pc' = "candidate"
          /\ UNCHANGED <<link, fallback, result>>
    /\ UNCHANGED <<page, policy, detector, telemetry, reported, late, faults>>

\* The candidate is scanned before its quality is considered.
ScanWhole == ScanPass("whole", <<candidate.content>>, "release")

ScanCandidate ==
    /\ pc = "candidate"
    /\ \/ /\ ScanClears(<<candidate.content>>)
          /\ UNCHANGED result
          /\ IF page.converts[candidate.content] = "usable"
             THEN pc' = "release" /\ UNCHANGED <<link, fallback>>
             ELSE /\ pc' = "convert"
                  /\ link' = link + 1
                  /\ fallback' = IF fallback = None /\ page.converts[candidate.content] = "poor"
                                 THEN candidate ELSE fallback
       \/ ScanStops(<<candidate.content>>) /\ UNCHANGED <<link, fallback>>
    /\ UNCHANGED <<page, policy, candidate, telemetry, reported, late>>

\* Every converter ran and none produced good output.
ConvertEnds ==
    /\ InChain
    /\ link > Len(CHAIN)
    /\ IF fallback = None
       THEN Stop("unsupported_content", "failed") /\ UNCHANGED candidate
       ELSE candidate' = fallback /\ pc' = "release" /\ UNCHANGED result
    /\ UNCHANGED <<page, policy, link, fallback, detector, telemetry, reported, late, faults>>

\* Mutant: the last pass begins whatever the clock says.
ReleaseLate ==
    /\ pc = "release"
    /\ pc' = "combined"
    /\ UNCHANGED <<page, policy, session, detector, telemetry, result, reported, late, faults>>

\* Inspected::release, up to its scan.
Release ==
    /\ pc = "release"
    /\ IF page.chars[candidate.content] > MAX_CONTENT_CHARS
       THEN Stop("response_limit_exceeded", "failed")
       ELSE IF ~page.stamp THEN Stop("internal_error", "failed")
       ELSE IF IsLate THEN Stop("deadline_exceeded", "failed")
       ELSE pc' = "combined" /\ UNCHANGED result
    /\ UNCHANGED <<page, policy, session, detector, telemetry, reported, late, faults>>

Data == [content |-> candidate.content, method |-> candidate.method, format |-> page.format]

\* WebFetchData::validate.
ValidData(data) ==
    /\ page.described /\ page.stamp
    /\ page.chars[data.content] <= MAX_CONTENT_CHARS
    /\ data.format = "html" => data.method = "source"

ScanCombined ==
    /\ pc = "combined"
    /\ \/ /\ ScanClears(Combined(candidate.content))
          /\ result' = [stop |-> FALSE, data |-> Data]
          /\ telemetry' = [telemetry EXCEPT !.method = candidate.method]
          /\ pc' = "report"
       \/ ScanStops(Combined(candidate.content)) /\ UNCHANGED telemetry
    /\ UNCHANGED <<page, policy, session, reported, late>>

--------------------------------------------------------------------------------
(***************************************************************************)
(* Reporting.                                                              *)
(***************************************************************************)
AuditOf(outcome, code, matched, method) ==
    [outcome |-> outcome, code |-> code, matched |-> matched, method |-> method,
     scans |-> scans, received |-> telemetry.received, decoded |-> telemetry.decoded]

\* Inspector::failure: an envelope the contract refuses becomes internal_error.
Failure(code, field) ==
    IF ValidEnvelope(FailureEnvelope(code, field), FALSE)
    THEN FailureEnvelope(code, field)
    ELSE FailureEnvelope("internal_error", NotRunField)

\* Mutant: the record of a failure keeps the telemetry of withheld content.
FailureAuditKeepsMethod(code, matched) ==
    AuditOf(StatusOf(code), code, matched, telemetry.method)

FailureAudit(code, matched) ==
    AuditOf(IF code = "content_rejected" THEN "rejected" ELSE "error", code, matched, None)

\* The rest of Inspector::inspect; main writes the audit line.
Report ==
    /\ pc = "report"
    /\ pc' = "remove"
    /\ IF result.stop
       THEN /\ envelope' = Failure(result.code, InspectionField(result.status,
                                    IF result.status = "not_run" THEN None ELSE policy))
            /\ audit' = FailureAudit(result.code, result.matched)
       ELSE LET ok == OkEnvelope(result.data, policy) IN
            IF ValidEnvelope(ok, ValidData(result.data))
            THEN /\ envelope' = ok
                 /\ audit' = AuditOf("ok", None, FALSE, telemetry.method)
            ELSE /\ envelope' = Failure("internal_error", NotRunField)
                 /\ audit' = FailureAudit("internal_error", FALSE)
    /\ UNCHANGED <<page, policy, session, detector, telemetry, result, stored, out, exit, late, faults>>

\* Mutant: the body is dropped as soon as it is in memory.
RemoveBodyEarly ==
    /\ pc \in {"wire", "remove"}
    /\ stored' \in {TRUE, FALSE}
    /\ pc' = IF pc = "remove" THEN "emit" ELSE "body"
    /\ UNCHANGED <<page, policy, session, detector, telemetry, result, envelope, audit, out, exit, late, faults>>

\* The body is dropped, unless --keep-artifact is given or the file system
\* keeps it.  The envelope is not written yet.
RemoveBody ==
    /\ pc = "remove"
    /\ stored' \in {TRUE, FALSE}
    /\ pc' = "emit"
    /\ UNCHANGED <<page, policy, session, detector, telemetry, result, envelope, audit, out, exit, late, faults>>

\* emit validates once more, writes, and the exit code follows.
Emit ==
    /\ pc \in {"emit", "emit_unusable"}
    /\ ValidEnvelope(envelope, envelope.data # None /\ ValidData(envelope.data))
    /\ out' = envelope
    /\ exit' = IF pc = "emit_unusable" THEN 2 ELSE IF envelope.status = "ok" THEN 0 ELSE 1
    /\ pc' = "exited"
    /\ UNCHANGED <<page, policy, session, detector, telemetry, result, envelope, audit, stored, late, faults>>

\* The envelope is invalid, or the file cannot be written or not to its end.
EmitFails ==
    /\ pc \in {"emit", "emit_unusable"}
    /\ out' \in {None, Torn}
    /\ exit' = 2
    /\ pc' = "exited"
    /\ faults' = faults + 1
    /\ UNCHANGED <<page, policy, session, detector, telemetry, result, envelope, audit, stored, late>>

Ended == {"exited", "killed"}

\* The process is killed, while it writes at the worst.
Killed ==
    /\ pc \notin Ended
    /\ out' \in IF pc \in {"emit", "emit_unusable"} THEN {None, Torn} ELSE {None}
    /\ pc' = "killed"
    /\ UNCHANGED <<page, policy, session, detector, telemetry, result, envelope, audit, stored, exit, late, faults>>

\* INSPECTION_DEADLINE_SECONDS have elapsed.
DeadlinePasses ==
    /\ pc \notin Ended \cup {"start", "remove", "emit", "emit_unusable"}
    /\ late = None
    /\ late' = pc
    /\ UNCHANGED <<page, policy, pc, session, detector, telemetry, result, reported, faults>>

Passes ==
    \/ Open \/ WireDeadline \/ ScanBody \/ ScanUrl \/ ScanType \/ Decode
    \/ TextDeadline \/ ScanText \/ ScanEntities \/ ScanFolded
    \/ ConvertWhole \/ ConvertNext \/ ConvertEnds \/ ScanWhole \/ ScanCandidate
    \/ Release \/ ScanCombined

Step ==
    \/ Load
    \/ Unusable("internal_error", NotRunField)
    \/ Unusable("inspection_failed", InspectionField("failed", None))
    \/ Passes
    \/ Report \/ RemoveBody \/ Emit \/ EmitFails

Next == Step \/ Killed \/ DeadlinePasses

\* The process is one thread that never waits: it takes its next step unless
\* it is killed.
Spec == Init /\ [][Next]_vars /\ WF_vars(Step)

--------------------------------------------------------------------------------
(***************************************************************************)
(* Properties.                                                             *)
(***************************************************************************)
PCs ==
    {"start", "open", "wire", "body", "url", "type", "decode", "decoded", "text",
     "entities", "folded", "convert", "whole", "candidate", "release", "combined",
     "report", "remove", "emit", "emit_unusable"} \cup Ended

Candidates ==
    [content : Converters, method : Converters]
        \cup [content : {"text"}, method : {"source", "passthrough"}]

Methods == Converters \cup {"source", "passthrough"}

\* What the pipeline returns, what main emits and what it logs.
Stops == [stop : {TRUE}, code : ErrorCode, status : InspectionStatus, matched : BOOLEAN]

Payloads ==
    [content : Converters \cup {"text"}, method : Methods, format : {"markdown", "text", "html"}]

Returns == [stop : {FALSE}, data : Payloads]

ToolErrors == [code : ErrorCode, message : ErrorCode]

Envelopes ==
    [envelope_version : {ENVELOPE_VERSION}, tool : {TOOL}, tool_version : {TOOL_VERSION},
     status : Status,
     inspection : [status : InspectionStatus, policy_id : Policies \cup {None}],
     data : Payloads \cup {None}, error : ToolErrors \cup {None}]

Audits ==
    [outcome : Status, code : ErrorCode \cup {None}, matched : BOOLEAN,
     method : Methods \cup {None}, scans : Nat, received : BOOLEAN, decoded : BOOLEAN]

ASSUME RecordAssumption ==
    None \notin Stops \cup Returns \cup Payloads \cup ToolErrors \cup Envelopes \cup Audits

\* Every variable has its type, and the scan budget never runs below zero.
TypeOK ==
    /\ page \in Page
    /\ policy \in Policies
    /\ pc \in PCs
    /\ link \in 1..(Len(CHAIN) + 1)
    /\ candidate \in Candidates \cup {None}
    /\ fallback \in Candidates \cup {None}
    /\ remaining \in 0..MAX_SCAN_INPUT_BYTES
    /\ scans \in Nat
    /\ telemetry \in [received : BOOLEAN, decoded : BOOLEAN, method : Methods \cup {None}]
    /\ result \in Stops \cup Returns \cup {None}
    /\ envelope \in Envelopes \cup {None}
    /\ audit \in Audits \cup {None}
    /\ stored \in BOOLEAN
    /\ out \in Envelopes \cup {None, Torn}
    /\ exit \in {0, 1, 2, None}
    /\ late \in PCs \cup {None}
    /\ cleared \subseteq Strings
    /\ faults \in Nat

Emitted == out \notin {None, Torn}
Released == Emitted /\ out.status = "ok"

\* The strings that must have been cleared before content may be returned.
Required(content) ==
    {<<"body">>, <<"url">>, <<"type">>, <<"text">>, <<"entities">>, <<"folded">>,
     <<content>>, Combined(content)}

\* What the converters before the one that won produced.
Discarded ==
    {<<CHAIN[i]>> : i \in {j \in 1..(link - 1) : page.converts[CHAIN[j]] # "none"}}

\* "Inspected::release is the only way to obtain a WebFetchData": content
\* reaches the output only when every required string, made of exactly the
\* fields returned, was scanned whole within the budget, and no rule matches
\* any of them or any conversion that was tried and discarded on the way.
ReleasedWasCleared ==
    Released => /\ Required(out.data.content) \subseteq cleared
                /\ page.format # "html" /\ page.media = "html" => Discarded \subseteq cleared
                /\ (Required(out.data.content) \cup Discarded) \cap page.hits = {}

\* Under a policy name the contract accepts, the audit line and the envelope
\* of a run tell the same story: the outcome, the code, that a rule matched,
\* and content-bearing telemetry only for content that is being returned.
AuditAgrees ==
    audit # None /\ policy \in ShapedPolicyIds =>
        /\ audit.outcome = envelope.status
        /\ audit.code = IF envelope.error = None THEN None ELSE envelope.error.code
        /\ audit.matched <=> envelope.inspection.status = "match"
        /\ audit.method = IF envelope.data = None THEN None ELSE envelope.data.method

\* The body is dropped before the envelope is written, and the write may fail:
\* whenever the body is gone, the outcome is on record all the same, and no
\* inspection of it is under way.
RemovedIsOnRecord ==
    ~stored => audit # None /\ envelope # None /\ pc \in {"emit"} \cup Ended

\* Content is returned only when the deadline had not passed by the time the
\* last required pass began.
ReleasedInTime == Released => late \in {None, "combined", "report"}

\* A clean response this build can decode and convert, on a process whose
\* scanner and output work and whose deadline does not pass.
Presentable ==
    /\ page.handed = "fetched" /\ page.media \in {"html", "other"}
    /\ DecodeError(page) = None
    /\ page.hits = {} /\ page.stamp /\ page.described /\ policy \in ShapedPolicyIds
    /\ \E c \in Converters : page.converts[c] \in {"poor", "usable"}
    /\ \A c \in DOMAIN page.chars : page.chars[c] <= MAX_CONTENT_CHARS
    /\ late = None /\ faults = 0

\* No form of the response is larger than a decoded body may be, and a first
\* or second conversion is usable.
Compact ==
    /\ \A p \in Parts : page.size[p] <= MAX_DECODED_BYTES
    /\ 2 * (page.size["url"] + page.size["type"]) + 2 <= MAX_DECODED_BYTES
    /\ "usable" \in {page.converts["native"], page.converts["extracted"]}

\* The scan budget is enough for every presentable response up to the body
\* limit whose forms do not grow and whose chain stops at its second link: an
\* inspection of one never ends in a refusal.
CompactPagesComplete ==
    Emitted /\ exit # 2 /\ Presentable /\ Compact => out.status = "ok"

\* Every inspection that is not killed exits, having answered or not.
InspectionEnds == <>(pc \in Ended)

\* "a page near the body limit still completes": every presentable response
\* within the wire, decoded and content limits is returned.
PagesWithinLimitsComplete ==
    Emitted /\ exit # 2 /\ Presentable => out.status = "ok"
================================================================================
