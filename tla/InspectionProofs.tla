--------------------------- MODULE InspectionProofs ----------------------------
(***************************************************************************)
(* What one inspection guarantees, for every response, every policy name,  *)
(* every set of matching strings, every limit, and a deadline or a failure *)
(* at any step.                                                            *)
(*                                                                         *)
(* TypeInv types the state and says what the process holds at each pass.   *)
(* ReleasedWasCleared follows from ClearedInv: what has been scanned when  *)
(* the process stands at a pass, and that a kept fallback and a discarded  *)
(* conversion were scanned when they were made.  ReleasedInTime follows    *)
(* from LateInv: past the release check only the last pass can be late.    *)
(* CompactPagesComplete follows from BudgetInv: while the response is one  *)
(* that is promised to be returned, the budget left at each pass is what   *)
(* the passes to come can cost.                                            *)
(***************************************************************************)
EXTENDS Inspection, TLAPS

\* The passes up to the end of the pipeline, in their order.
Before ==
    {"start", "open", "wire", "body", "url", "type", "decode", "decoded", "text",
     "entities", "folded"}
Choosing == {"convert", "whole", "candidate", "release", "combined"}
Done == {"remove", "emit"} \cup Ended

\* A stop whose status and match go with its code.
Consistent(stop) ==
    /\ stop \in Stops
    /\ stop.status \in Permits(stop.code)
    /\ stop.matched <=> stop.status = "match"

\* What the process holds at each pass.
Holds ==
    /\ pc \in {"whole", "candidate", "release", "combined"} => candidate \in Candidates
    /\ pc = "candidate" => link <= Len(CHAIN) /\ candidate = Candidate(CHAIN[link], CHAIN[link])
    /\ pc = "report" => result \in Stops \cup Returns
    /\ result \in Stops => Consistent(result)
    /\ result \in Returns =>
         pc \in {"report"} \cup Done /\ telemetry.method = result.data.method

\* What has been reported, and from what.
Told ==
    /\ pc \in {"emit", "remove"} => envelope # None /\ audit # None
    /\ pc = "emit_unusable" => envelope # None
    /\ audit # None => pc \in Done
    /\ envelope \in Envelopes /\ envelope.status = "ok" =>
         /\ pc \in Done
         /\ result \in Returns /\ envelope.data = result.data
    /\ out \notin {None, Torn} => out = envelope /\ pc \in Ended

TypeInv == TypeOK /\ Holds /\ Told

detectorTyped ==
    /\ remaining \in 0..MAX_SCAN_INPUT_BYTES /\ scans \in Nat
    /\ cleared \subseteq Strings /\ faults \in Nat

--------------------------------------------------------------------------------
(***************************************************************************)
(* The strings that are scanned.                                           *)
(***************************************************************************)
\* Every part is a string, and so is what release scans.
LEMMA StringsOfParts ==
    /\ \A p \in Parts : <<p>> \in Strings
    /\ \A c \in Converters \cup {"text"} : Combined(c) \in Strings
BY DEF Strings

\* The chain holds the converters.
LEMMA ChainTyped == Len(CHAIN) = 3 /\ \A i \in 1..3 : CHAIN[i] \in Converters
BY DEF CHAIN, Converters

\* The length of a string is a number of bytes.
LEMMA LengthTyped ==
    ASSUME TypeOK, NEW s \in Strings
    PROVE  ByteLength(s) \in Nat
<1>1. page.size \in [Parts -> Nat]
    BY DEF TypeOK, Page
<1>2. CASE s \in {<<p>> : p \in Parts}
    <2>1. PICK p \in Parts : s = <<p>>
        BY <1>2
    <2>2. Len(s) = 1 /\ s[1] = p
        BY <2>1
    <2> QED BY <1>1, <2>2 DEF ByteLength
<1>3. CASE s \in {Combined(c) : c \in Converters \cup {"text"}}
    <2>1. PICK c \in Converters \cup {"text"} : s = <<"url", "type", c>>
        BY <1>3 DEF Combined
    <2>2. Len(s) = 3 /\ s[1] = "url" /\ s[2] = "type" /\ s[3] = c
        BY <2>1
    <2>3. {"url", "type", c} \subseteq Parts
        BY DEF Parts
    <2> QED BY <1>1, <2>2, <2>3 DEF ByteLength
<1> QED BY <1>2, <1>3 DEF Strings

\* A scan that finds nothing leaves the budget and the observations typed.
LEMMA ClearsTyped ==
    ASSUME TypeOK, NEW s \in Strings, ScanClears(s)
    PROVE  detectorTyped' /\ cleared' = cleared \cup {s} /\ s \notin page.hits
<1>1. /\ remaining \in 0..MAX_SCAN_INPUT_BYTES /\ scans \in Nat /\ cleared \subseteq Strings
      /\ faults \in Nat /\ MAX_SCAN_INPUT_BYTES \in Nat /\ ByteLength(s) \in Nat
    BY LengthTyped, InspectionAssumption DEF TypeOK
<1> QED BY <1>1 DEF ScanClears, detectorTyped

\* A match is reported as one.
LEMMA RejectedConsistent == Consistent(RejectedStop)
<1> DEFINE r == StopOf("content_rejected", "match")
<1>1. r \in Stops /\ r.code = "content_rejected" /\ r.status = "match"
    BY DEF StopOf, Stops, ErrorCode, InspectionStatus
<1>2. RejectedStop = [r EXCEPT !.matched = TRUE]
    BY DEF RejectedStop
<1> HIDE DEF r
<1> QED BY <1>1, <1>2 DEF Consistent, Stops, Permits

\* A scan that ends the response stops with a code that fits.
LEMMA StopsTyped ==
    ASSUME TypeOK, NEW s \in Strings, ScanStops(s)
    PROVE  /\ detectorTyped' /\ cleared' = cleared /\ pc' = "report"
           /\ Consistent(result')
<1>1. /\ remaining \in 0..MAX_SCAN_INPUT_BYTES /\ scans \in Nat /\ cleared \subseteq Strings
      /\ faults \in Nat /\ MAX_SCAN_INPUT_BYTES \in Nat /\ ByteLength(s) \in Nat
    BY LengthTyped, InspectionAssumption DEF TypeOK
<1>2. detectorTyped' /\ cleared' = cleared /\ pc' = "report"
    BY <1>1 DEF ScanStops, Stop, detectorTyped, detector
<1>3. result' = StopOf("inspection_failed", "failed") \/ result' = RejectedStop
    BY DEF ScanStops, Stop
<1>4. Consistent(StopOf("inspection_failed", "failed"))
    BY DEF Consistent, StopOf, Stops, Permits, ErrorCode, InspectionStatus
<1>5. Consistent(RejectedStop)
    BY RejectedConsistent
<1> QED BY <1>2, <1>3, <1>4, <1>5

\* A stop of the pipeline itself.
LEMMA StopConsistent ==
    ASSUME NEW code \in ErrorCode \ {"content_rejected"}, NEW status \in {"not_run", "failed"},
           code = "inspection_failed" => status = "failed", Stop(code, status)
    PROVE  Consistent(result') /\ pc' = "report"
BY DEF Stop, StopOf, Consistent, Stops, Permits, ErrorCode, InspectionStatus

\* A stop is not a return.
LEMMA StopsNotReturns == ASSUME NEW r, Consistent(r) PROVE r \notin Returns /\ r \in Stops
BY DEF Consistent, Stops, Returns

--------------------------------------------------------------------------------
(***************************************************************************)
(* Types, and what the process holds.                                      *)
(***************************************************************************)
\* Up to the report nothing is emitted.
LEMMA NothingTold ==
    ASSUME TypeInv, pc \in Before \cup Choosing \cup {"report"},
           pc' \in Before \cup Choosing \cup {"report"},
           UNCHANGED <<envelope, audit, out>>
    PROVE  Told'
BY DEF TypeInv, Told, Before, Choosing, Done, Ended

\* A pass that moves on, or stops with a code that fits, keeps the types.
LEMMA MovesTyped ==
    ASSUME TypeInv, pc \in Before \cup Choosing, pc' \in PCs,
           UNCHANGED <<page, policy, session, reported>>,
           detectorTyped', late' \in PCs \cup {None},
           telemetry' \in [received : BOOLEAN, decoded : BOOLEAN, method : Methods \cup {None}],
           \/ /\ pc' \in Before \cup {"convert"} /\ UNCHANGED result
           \/ /\ pc' = "release" /\ pc \in {"whole", "candidate"} /\ UNCHANGED result
           \/ /\ pc' = "combined" /\ pc = "release" /\ UNCHANGED result
           \/ /\ pc' = "report" /\ Consistent(result')
    PROVE  TypeInv'
<1>1. result' \in Stops \cup Returns \cup {None}
    BY DEF TypeInv, TypeOK, Consistent
<1>2. TypeOK'
    BY <1>1 DEF TypeInv, TypeOK, session, reported, detectorTyped
<1>3. result \notin Returns
    BY DEF TypeInv, Holds, Before, Choosing, Done, Ended
<1>4. Holds'
    BY <1>3, StopsNotReturns
       DEF TypeInv, Holds, Before, Choosing, Done, Ended, session, Consistent
<1>5. Told'
    BY NothingTold DEF reported, Before, Choosing
<1> QED BY <1>2, <1>4, <1>5 DEF TypeInv

\* So does every pass over one string.
LEMMA ScanPassTyped ==
    ASSUME TypeInv, NEW at \in {"body", "url", "type", "text", "entities", "folded", "whole"},
           NEW s \in Strings,
           NEW next \in {"url", "type", "decode", "entities", "folded", "convert", "release"},
           next = "release" => at = "whole", ScanPass(at, s, next)
    PROVE  TypeInv'
<1>1. /\ pc = at /\ UNCHANGED <<page, policy, session, telemetry, reported, late>>
      /\ TypeOK
    BY DEF ScanPass, TypeInv
<1>2. telemetry' \in [received : BOOLEAN, decoded : BOOLEAN, method : Methods \cup {None}]
    BY <1>1 DEF TypeOK
<1>3. CASE ScanClears(s) /\ pc' = next /\ UNCHANGED result
    BY <1>1, <1>2, <1>3, ClearsTyped, MovesTyped DEF TypeOK, Before, Choosing, PCs
<1>4. CASE ScanStops(s)
    BY <1>1, <1>2, <1>4, StopsTyped, MovesTyped DEF TypeOK, Before, Choosing, PCs
<1> QED BY <1>3, <1>4 DEF ScanPass

\* The passes that scan nothing, up to the conversion.
LEMMA EarlyTyped ==
    ASSUME TypeInv, Load \/ Open \/ WireDeadline \/ Decode \/ TextDeadline \/ Release
    PROVE  TypeInv'
<1>0. TypeOK /\ detectorTyped
    BY DEF TypeInv, TypeOK, detectorTyped
<1> DEFINE Telemetries == [received : BOOLEAN, decoded : BOOLEAN, method : Methods \cup {None}]
<1>1. CASE Load
    BY <1>0, <1>1, MovesTyped
       DEF Load, TypeOK, detectorTyped, detector, Before, PCs
<1>2. CASE Open
    <2>1. /\ UNCHANGED <<page, policy, session, detector, reported, late, faults>>
          /\ pc = "open" /\ telemetry' = [telemetry EXCEPT !.received = (page.handed = "fetched")]
        BY <1>2 DEF Open
    <2>2. telemetry' \in Telemetries
        BY <1>0, <2>1 DEF TypeOK
    <2>3. page.handed \in FetchCodes \cup {"refused", "fetched"}
        BY <1>0 DEF TypeOK, Page
    <2>4. \/ pc' = "wire" /\ UNCHANGED result
          \/ pc' = "report" /\ Consistent(result')
        BY <1>2, <2>3, StopConsistent DEF Open, FetchCodes, ErrorCode
    <2> QED BY <1>0, <2>1, <2>2, <2>4, MovesTyped
            DEF TypeOK, detectorTyped, detector, Before, PCs
<1>3. CASE WireDeadline
    <2>1. \/ pc' = "body" /\ UNCHANGED result
          \/ pc' = "report" /\ Consistent(result')
        BY <1>3, StopConsistent DEF WireDeadline, ErrorCode
    <2> QED BY <1>0, <1>3, <2>1, MovesTyped
            DEF WireDeadline, TypeOK, detectorTyped, detector, Before, PCs
<1>4. CASE Decode
    <2>1. /\ UNCHANGED <<page, policy, session, detector, reported, late, faults>>
          /\ pc = "decode"
          /\ telemetry' = telemetry \/ telemetry' = [telemetry EXCEPT !.decoded = TRUE]
        BY <1>4 DEF Decode
    <2>2. telemetry' \in Telemetries
        BY <1>0, <2>1 DEF TypeOK
    <2>3. DecodeError(page) \in {"unsupported_content", "response_limit_exceeded", None}
        BY DEF DecodeError, ContentEncodingError
    <2>4. \/ pc' = "decoded" /\ UNCHANGED result
          \/ pc' = "report" /\ Consistent(result')
        BY <1>4, <2>3, StopConsistent DEF Decode, ErrorCode
    <2> QED BY <1>0, <2>1, <2>2, <2>4, MovesTyped
            DEF TypeOK, detectorTyped, detector, Before, PCs
<1>5. CASE TextDeadline
    <2>1. \/ pc' = "text" /\ UNCHANGED result
          \/ pc' = "report" /\ Consistent(result')
        BY <1>5, StopConsistent DEF TextDeadline, ErrorCode
    <2> QED BY <1>0, <1>5, <2>1, MovesTyped
            DEF TextDeadline, TypeOK, detectorTyped, detector, Before, PCs
<1>6. CASE Release
    <2>1. \/ pc' = "combined" /\ UNCHANGED result
          \/ pc' = "report" /\ Consistent(result')
        BY <1>6, StopConsistent DEF Release, ErrorCode
    <2> QED BY <1>0, <1>6, <2>1, MovesTyped
            DEF Release, TypeOK, detectorTyped, detector, Choosing, PCs
<1> QED BY <1>1, <1>2, <1>3, <1>4, <1>5, <1>6

\* The passes that scan one form of the response each.
LEMMA ScansTyped ==
    ASSUME TypeInv, \/ ScanBody \/ ScanUrl \/ ScanType \/ ScanText \/ ScanEntities
                    \/ ScanFolded \/ ScanWhole
    PROVE  TypeInv'
<1>1. CASE ScanBody \/ ScanUrl \/ ScanType \/ ScanText \/ ScanEntities \/ ScanFolded
    BY <1>1, ScanPassTyped, StringsOfParts
       DEF ScanBody, ScanUrl, ScanType, ScanText, ScanEntities, ScanFolded, Parts
<1>2. CASE ScanWhole
    <2>1. <<candidate.content>> \in Strings
        BY <1>2, StringsOfParts
           DEF ScanWhole, ScanPass, TypeInv, Holds, Candidates, Parts, Converters
    <2> QED BY <1>2, <2>1, ScanPassTyped DEF ScanWhole
<1> QED BY <1>1, <1>2

\* Choosing a conversion.
LEMMA ChoosesTyped ==
    ASSUME TypeInv, ConvertWhole \/ ConvertNext \/ ConvertEnds
    PROVE  TypeInv'
<1>1. /\ TypeOK /\ pc = "convert"
      /\ UNCHANGED <<page, policy, detector, telemetry, reported, late, faults>>
    BY DEF ConvertWhole, ConvertNext, ConvertEnds, InChain, TypeInv
<1>2. /\ link' \in 1..(Len(CHAIN) + 1)
      /\ candidate' \in Candidates \cup {None} /\ fallback' \in Candidates \cup {None}
      /\ \/ pc' = "report" /\ Consistent(result')
         \/ /\ UNCHANGED result
            /\ \/ pc' = "convert"
               \/ pc' \in {"whole", "release"} /\ candidate' \in Candidates
               \/ /\ pc' = "candidate" /\ link' <= Len(CHAIN)
                  /\ candidate' = Candidate(CHAIN[link'], CHAIN[link'])
                  /\ candidate' \in Candidates
    <2>1. CASE ConvertWhole
        BY <1>1, <2>1 DEF ConvertWhole, Candidate, Candidates, TypeOK
    <2>2. CASE ConvertNext
        <3>1. link \in 1..3 /\ Candidate(CHAIN[link], CHAIN[link]) \in Candidates
            BY <1>1, <2>2, ChainTyped DEF ConvertNext, TypeOK, Candidate, Candidates
        <3>2. CASE IsLate /\ Stop("deadline_exceeded", "failed") /\ UNCHANGED session
            BY <1>1, <3>2, StopConsistent DEF session, TypeOK, ErrorCode
        <3>3. CASE link' = link + 1 /\ UNCHANGED <<pc, candidate, fallback, result>>
            BY <1>1, <3>1, <3>3, ChainTyped DEF TypeOK
        <3>4. CASE /\ candidate' = Candidate(CHAIN[link], CHAIN[link]) /\ pc' = "candidate"
                   /\ UNCHANGED <<link, fallback, result>>
            BY <1>1, <3>1, <3>4, ChainTyped DEF TypeOK
        <3> QED BY <2>2, <3>2, <3>3, <3>4 DEF ConvertNext
    <2>3. CASE ConvertEnds
        <3>1. CASE fallback = None
            BY <1>1, <2>3, <3>1, StopConsistent DEF ConvertEnds, TypeOK, ErrorCode
        <3>2. CASE fallback # None
            BY <1>1, <2>3, <3>2 DEF ConvertEnds, TypeOK
        <3> QED BY <3>1, <3>2
    <2> QED BY <2>1, <2>2, <2>3
<1>3. result' \in Stops \cup Returns \cup {None}
    BY <1>1, <1>2 DEF TypeOK, Consistent
<1>4. TypeOK'
    <2>1. pc' \in PCs
        BY <1>2 DEF PCs
    <2> QED BY <1>1, <1>2, <1>3, <2>1 DEF TypeOK, detector, reported
<1>5. result \notin Returns
    BY <1>1 DEF TypeInv, Holds, Done, Ended
<1>6. Holds'
    BY <1>1, <1>2, <1>5, StopsNotReturns DEF TypeInv, Holds, Consistent
<1>7. Told'
    BY <1>1, <1>2, NothingTold DEF reported, Choosing
<1> QED BY <1>4, <1>6, <1>7 DEF TypeInv

\* A conversion is scanned, and kept, released or passed over.
LEMMA CandidateTyped == ASSUME TypeInv, ScanCandidate PROVE TypeInv'
<1>1. /\ TypeOK /\ pc = "candidate" /\ candidate \in Candidates /\ link \in 1..3
      /\ UNCHANGED <<page, policy, candidate, telemetry, reported, late>>
    BY ChainTyped DEF ScanCandidate, TypeInv, TypeOK, Holds
<1>2. <<candidate.content>> \in Strings
    BY <1>1, StringsOfParts DEF Candidates, Parts, Converters
<1>3. CASE ScanStops(<<candidate.content>>) /\ UNCHANGED <<link, fallback>>
    BY <1>1, <1>2, <1>3, StopsTyped, MovesTyped DEF TypeOK, session, Choosing, PCs
<1>4. CASE /\ ScanClears(<<candidate.content>>) /\ UNCHANGED <<result, link, fallback>>
           /\ pc' = "release"
    BY <1>1, <1>2, <1>4, ClearsTyped, MovesTyped DEF TypeOK, session, Choosing, PCs
<1>5. CASE /\ ScanClears(<<candidate.content>>) /\ UNCHANGED result
           /\ pc' = "convert" /\ link' = link + 1 /\ fallback' \in {candidate, fallback}
    <2>1. detectorTyped'
        BY <1>1, <1>2, <1>5, ClearsTyped
    <2>2. TypeOK'
        BY <1>1, <1>5, <2>1, ChainTyped DEF TypeOK, detectorTyped, reported, PCs
    <2>3. Holds'
        BY <1>1, <1>5 DEF TypeInv, Holds, Consistent, Done, Ended
    <2>4. Told'
        BY <1>1, <1>5, NothingTold DEF reported, Choosing
    <2> QED BY <2>2, <2>3, <2>4 DEF TypeInv
<1> QED BY <1>3, <1>4, <1>5 DEF ScanCandidate

\* The last scan returns what was scanned.
LEMMA CombinedTyped == ASSUME TypeInv, ScanCombined PROVE TypeInv'
<1>1. /\ TypeOK /\ pc = "combined" /\ candidate \in Candidates
      /\ UNCHANGED <<page, policy, session, reported, late>>
    BY DEF ScanCombined, TypeInv, Holds
<1>2. candidate.content \in Converters \cup {"text"} /\ candidate.method \in Methods
    BY <1>1 DEF Candidates, Methods
<1>3. Combined(candidate.content) \in Strings
    BY <1>2, StringsOfParts
<1>4. CASE ScanStops(Combined(candidate.content)) /\ UNCHANGED telemetry
    BY <1>1, <1>3, <1>4, StopsTyped, MovesTyped DEF TypeOK, Choosing, PCs
<1>5. CASE /\ ScanClears(Combined(candidate.content))
           /\ result' = [stop |-> FALSE, data |-> Data]
           /\ telemetry' = [telemetry EXCEPT !.method = candidate.method] /\ pc' = "report"
    <2>1. detectorTyped'
        BY <1>1, <1>3, <1>5, ClearsTyped
    <2>2. Data \in Payloads /\ Data.method = candidate.method
        BY <1>1, <1>2 DEF Data, Payloads, TypeOK, Page
    <2>3. result' \in Returns /\ result'.data = Data
        BY <1>5, <2>2 DEF Returns
    <2>4. /\ telemetry' \in [received : BOOLEAN, decoded : BOOLEAN, method : Methods \cup {None}]
          /\ telemetry'.method = candidate.method
        BY <1>1, <1>2, <1>5 DEF TypeOK
    <2>5. TypeOK'
        BY <1>1, <1>5, <2>1, <2>3, <2>4 DEF TypeOK, detectorTyped, session, reported, PCs
    <2>6. Holds'
        BY <1>1, <1>5, <2>2, <2>3, <2>4 DEF Holds, Stops, Returns
    <2>7. Told'
        BY <1>1, <1>5, NothingTold DEF reported, Choosing
    <2> QED BY <2>5, <2>6, <2>7 DEF TypeInv
<1> QED BY <1>4, <1>5 DEF ScanCombined

\* The two envelopes.
LEMMA FailureTyped ==
    ASSUME NEW code \in ErrorCode, NEW field,
           field \in [status : InspectionStatus, policy_id : Policies \cup {None}]
    PROVE  /\ FailureEnvelope(code, field) \in Envelopes
           /\ FailureEnvelope(code, field).status = StatusOf(code)
           /\ FailureEnvelope(code, field).inspection = field
           /\ FailureEnvelope(code, field).data = None
           /\ FailureEnvelope(code, field).error.code = code
           /\ FailureEnvelope(code, field).error \in ToolErrors
           /\ StatusOf(code) \in {"rejected", "error"}
<1>1. ToolError(code) \in ToolErrors /\ ToolError(code).code = code
    BY DEF ToolError, ToolErrors
<1>2. StatusOf(code) \in {"rejected", "error"}
    BY DEF StatusOf
<1> QED BY <1>1, <1>2 DEF FailureEnvelope, Envelopes, Status

LEMMA OkTyped ==
    ASSUME NEW data \in Payloads, NEW id \in Policies
    PROVE  /\ OkEnvelope(data, id) \in Envelopes
           /\ OkEnvelope(data, id).status = "ok" /\ OkEnvelope(data, id).data = data
           /\ OkEnvelope(data, id).error = None
           /\ OkEnvelope(data, id).inspection.status = "no_match"
BY DEF OkEnvelope, Envelopes, Status, InspectionField, InspectionStatus

\* What an inspector's failure says, whether or not its first form is valid.
LEMMA FailsTyped ==
    ASSUME NEW code \in ErrorCode, NEW field,
           field \in [status : InspectionStatus, policy_id : Policies \cup {None}]
    PROVE  Failure(code, field) \in Envelopes /\ Failure(code, field).status # "ok"
<1>1. NotRunField \in [status : InspectionStatus, policy_id : Policies \cup {None}]
    BY DEF NotRunField, InspectionField, InspectionStatus
<1>2. "internal_error" \in ErrorCode
    BY DEF ErrorCode
<1>3. \A c \in ErrorCode :
      \A f \in [status : InspectionStatus, policy_id : Policies \cup {None}] :
          FailureEnvelope(c, f) \in Envelopes /\ FailureEnvelope(c, f).status # "ok"
    BY FailureTyped
<1> QED BY <1>1, <1>2, <1>3 DEF Failure

\* The report: an envelope and an audit line.
LEMMA ReportTyped == ASSUME TypeInv, Report PROVE TypeInv'
<1>1. /\ TypeOK /\ pc = "report" /\ pc' = "remove" /\ result \in Stops \cup Returns
      /\ UNCHANGED <<page, policy, session, detector, telemetry, result, stored, out, exit, late, faults>>
      /\ policy \in Policies
    BY DEF Report, TypeInv, Holds, TypeOK
<1>2. "internal_error" \in ErrorCode
      /\ NotRunField \in [status : InspectionStatus, policy_id : Policies \cup {None}]
    BY DEF ErrorCode, NotRunField, InspectionField, InspectionStatus
<1>3. \A code \in ErrorCode : \A matched \in BOOLEAN : FailureAudit(code, matched) \in Audits
    BY <1>1 DEF FailureAudit, AuditOf, Audits, Status, TypeOK
<1>4. /\ envelope' \in Envelopes /\ audit' \in Audits
      /\ envelope'.status = "ok" => result \in Returns /\ envelope'.data = result.data
    <2>1. CASE result \in Stops
        <3> DEFINE field == InspectionField(result.status,
                                            IF result.status = "not_run" THEN None ELSE policy)
        <3>1. /\ result.stop = TRUE /\ result.code \in ErrorCode /\ result.matched \in BOOLEAN
              /\ result.status \in InspectionStatus
            BY <2>1 DEF Stops
        <3>2. field \in [status : InspectionStatus, policy_id : Policies \cup {None}]
            BY <1>1, <3>1 DEF InspectionField
        <3>3. /\ envelope' = Failure(result.code, field)
              /\ audit' = FailureAudit(result.code, result.matched)
            BY <3>1 DEF Report
        <3> QED BY <1>3, <3>1, <3>2, <3>3, FailsTyped
    <2>2. CASE result \in Returns
        <3>1. result.stop = FALSE /\ result.data \in Payloads
            BY <2>2 DEF Returns
        <3>2. \/ /\ envelope' = OkEnvelope(result.data, policy)
                 /\ audit' = AuditOf("ok", None, FALSE, telemetry.method)
              \/ /\ envelope' = Failure("internal_error", NotRunField)
                 /\ audit' = FailureAudit("internal_error", FALSE)
            BY <3>1 DEF Report
        <3>3. AuditOf("ok", None, FALSE, telemetry.method) \in Audits
            BY <1>1 DEF AuditOf, Audits, Status, TypeOK
        <3>4. /\ Failure("internal_error", NotRunField) \in Envelopes
              /\ Failure("internal_error", NotRunField).status # "ok"
              /\ FailureAudit("internal_error", FALSE) \in Audits
            BY <1>2, <1>3, FailsTyped
        <3>5. /\ OkEnvelope(result.data, policy) \in Envelopes
              /\ OkEnvelope(result.data, policy).data = result.data
            BY <1>1, <3>1, OkTyped
        <3> QED BY <2>2, <3>2, <3>3, <3>4, <3>5
    <2> QED BY <1>1, <2>1, <2>2
<1>5. TypeOK'
    BY <1>1, <1>4 DEF TypeOK, session, detector, PCs
<1>6. Holds'
    BY <1>1 DEF TypeInv, Holds, Consistent, Done
<1>7. Told'
    BY <1>1, <1>4, RecordAssumption DEF TypeInv, Told, Done, Ended
<1> QED BY <1>5, <1>6, <1>7 DEF TypeInv

\* The ends, good and bad, and what runs beside the passes.
LEMMA EndsTyped ==
    ASSUME TypeInv, \/ Unusable("internal_error", NotRunField)
                    \/ Unusable("inspection_failed", InspectionField("failed", None))
                    \/ RemoveBody \/ Emit \/ EmitFails \/ Killed \/ DeadlinePasses
    PROVE  TypeInv'
<1>0. TypeOK
    BY DEF TypeInv
<1>1. ASSUME NEW code \in {"internal_error", "inspection_failed"},
             NEW field \in [status : InspectionStatus, policy_id : Policies \cup {None}],
             Unusable(code, field)
      PROVE  TypeInv'
    <2>1. code \in ErrorCode
        BY DEF ErrorCode
    <2>2. /\ envelope' \in Envelopes /\ envelope'.status # "ok"
          /\ pc = "start" /\ pc' = "emit_unusable"
          /\ UNCHANGED <<page, policy, session, detector, telemetry, result, audit, stored, out,
                         exit, late, faults>>
        BY <1>1, <2>1, FailureTyped DEF Unusable
    <2>3. TypeOK'
        BY <1>0, <2>2 DEF TypeOK, session, detector, PCs
    <2>4. Holds'
        BY <2>2 DEF TypeInv, Holds, Consistent, Done, Ended
    <2>5. Told'
        BY <2>2, RecordAssumption DEF TypeInv, Told, Done, Ended
    <2> QED BY <2>3, <2>4, <2>5 DEF TypeInv
<1>2. /\ NotRunField \in [status : InspectionStatus, policy_id : Policies \cup {None}]
      /\ InspectionField("failed", None)
            \in [status : InspectionStatus, policy_id : Policies \cup {None}]
    BY DEF NotRunField, InspectionField, InspectionStatus
<1>3. CASE RemoveBody
    <2>1. TypeOK'
        <3>1. stored' \in BOOLEAN
            BY <1>3 DEF RemoveBody
        <3>2. /\ pc' \in PCs
              /\ UNCHANGED <<page, policy, session, detector, telemetry, result, envelope, audit,
                             out, exit, late, faults>>
            BY <1>3 DEF RemoveBody, PCs
        <3> QED BY <1>0, <3>1, <3>2 DEF TypeOK, session, detector
    <2>2. Holds' /\ Told'
        BY <1>3 DEF RemoveBody, TypeInv, Holds, Told, Consistent, Done, Ended
    <2> QED BY <2>1, <2>2 DEF TypeInv
<1>4. CASE Emit
    <2>1. envelope \in Envelopes
        BY <1>0, <1>4 DEF Emit, TypeInv, Told, TypeOK
    <2>2. TypeOK'
        BY <1>0, <1>4, <2>1 DEF Emit, TypeOK, session, detector, PCs, Ended
    <2>3. Holds' /\ Told'
        BY <1>4 DEF Emit, TypeInv, Holds, Told, Consistent, Done, Ended
    <2> QED BY <2>2, <2>3 DEF TypeInv
<1>5. CASE EmitFails
    <2>1. TypeOK'
        BY <1>0, <1>5 DEF EmitFails, TypeOK, session, detector, PCs, Ended
    <2>2. Holds' /\ Told'
        BY <1>5 DEF EmitFails, TypeInv, Holds, Told, Consistent, Done, Ended
    <2> QED BY <2>1, <2>2 DEF TypeInv
<1>6. CASE Killed
    <2>1. out' \in {None, Torn}
        BY <1>6 DEF Killed
    <2>2. TypeOK'
        BY <1>0, <1>6, <2>1 DEF Killed, TypeOK, session, detector, PCs, Ended
    <2>3. Holds' /\ Told'
        BY <1>6, <2>1 DEF Killed, TypeInv, Holds, Told, Consistent, Done, Ended
    <2> QED BY <2>2, <2>3 DEF TypeInv
<1>7. CASE DeadlinePasses
    <2>1. TypeOK'
        BY <1>0, <1>7 DEF DeadlinePasses, TypeOK, session, detector, reported
    <2>2. Holds' /\ Told'
        BY <1>7 DEF DeadlinePasses, TypeInv, Holds, Told, Consistent, session, reported
    <2> QED BY <2>1, <2>2 DEF TypeInv
<1> QED BY <1>1, <1>2, <1>3, <1>4, <1>5, <1>6, <1>7

\* The types are inductive.
LEMMA NextTyped == TypeInv /\ [Next]_vars => TypeInv'
<1> SUFFICES ASSUME TypeInv, [Next]_vars PROVE TypeInv'
    OBVIOUS
<1>1. CASE UNCHANGED vars
    BY <1>1 DEF vars, session, detector, reported, TypeInv, TypeOK, Holds, Told, Consistent
<1>2. CASE Passes
    BY <1>2, EarlyTyped, ScansTyped, ChoosesTyped, CandidateTyped, CombinedTyped DEF Passes
<1>3. CASE Step /\ ~Passes
    BY <1>3, EarlyTyped, ReportTyped, EndsTyped DEF Step
<1>4. CASE Killed \/ DeadlinePasses
    BY <1>4, EndsTyped
<1> QED BY <1>1, <1>2, <1>3, <1>4 DEF Next

LEMMA InitTyped == Init => TypeInv
<1> SUFFICES ASSUME Init PROVE TypeInv
    OBVIOUS
<1>1. TypeOK
    BY InspectionAssumption, ChainTyped DEF Init, TypeOK, PCs
<1>2. Holds
    BY RecordAssumption DEF Init, Holds, Stops, Returns
<1>3. Told
    BY RecordAssumption DEF Init, Told
<1> QED BY <1>1, <1>2, <1>3 DEF TypeInv

LEMMA AlwaysTyped == Spec => []TypeInv
BY InitTyped, NextTyped, PTL DEF Spec

\* Every variable of the inspection keeps its type for every response; in
\* particular the scan budget never goes below zero.
THEOREM TypeCorrect == Spec => []TypeOK
<1>1. TypeInv => TypeOK
    BY DEF TypeInv
<1> QED BY <1>1, AlwaysTyped, PTL

--------------------------------------------------------------------------------
(***************************************************************************)
(* What has been scanned.                                                  *)
(***************************************************************************)
\* The forms of the response scanned by the time a pass begins.
Progress ==
    /\ pc \in {"url", "type", "decode", "decoded", "text", "entities", "folded"} \cup Choosing
         => <<"body">> \in cleared
    /\ pc \in {"type", "decode", "decoded", "text", "entities", "folded"} \cup Choosing
         => <<"url">> \in cleared
    /\ pc \in {"decode", "decoded", "text", "entities", "folded"} \cup Choosing
         => <<"type">> \in cleared
    /\ pc \in {"entities", "folded"} \cup Choosing => <<"text">> \in cleared
    /\ pc \in {"folded"} \cup Choosing => <<"entities">> \in cleared
    /\ pc \in Choosing => <<"folded">> \in cleared

\* What every converter passed over produced.
Tried ==
    \A i \in 1..(link - 1) : page.converts[CHAIN[i]] # "none" => <<CHAIN[i]>> \in cleared

ClearedInv ==
    /\ Progress /\ Tried
    /\ pc \in {"release", "combined"} => <<candidate.content>> \in cleared
    /\ fallback # None => <<fallback.content>> \in cleared
    /\ \A s \in cleared : s \notin page.hits
    /\ result \in Returns => Required(result.data.content) \subseteq cleared

\* A stop returns no content.
LEMMA StopReturnsNothing ==
    ASSUME NEW code, NEW status, Stop(code, status)
    PROVE  result' \notin Returns /\ pc' = "report"
BY DEF Stop, StopOf, Returns

\* Steps that scan nothing.
LEMMA QuietCleared ==
    ASSUME TypeInv, ClearedInv, UNCHANGED <<page, cleared, session>>,
           \/ pc' \in {"report", "open", "wire", "body", "emit_unusable"} \cup Done
           \/ pc' = pc
           \/ pc = "decode" /\ pc' = "decoded"
           \/ pc = "decoded" /\ pc' = "text"
           \/ pc = "release" /\ pc' = "combined",
           UNCHANGED result \/ result' \notin Returns
    PROVE  ClearedInv'
<1>1. Progress'
    BY DEF ClearedInv, Progress, Choosing, Done, Ended
<1>2. Tried'
    BY DEF ClearedInv, Tried, session
<1>3. pc' \in {"release", "combined"} => <<candidate'.content>> \in cleared'
    BY DEF ClearedInv, session, Done, Ended
<1> QED BY <1>1, <1>2, <1>3 DEF ClearedInv, session, Required

\* The passes over the forms of the response, in their order.
LEMMA ScanPassCleared ==
    ASSUME TypeInv, ClearedInv, NEW at, NEW s \in Strings, NEW next, ScanPass(at, s, next),
           \/ at = "body" /\ s = <<"body">> /\ next = "url"
           \/ at = "url" /\ s = <<"url">> /\ next = "type"
           \/ at = "type" /\ s = <<"type">> /\ next = "decode"
           \/ at = "text" /\ s = <<"text">> /\ next = "entities"
           \/ at = "entities" /\ s = <<"entities">> /\ next = "folded"
           \/ at = "folded" /\ s = <<"folded">> /\ next = "convert"
           \/ at = "whole" /\ s = <<candidate.content>> /\ next = "release"
    PROVE  ClearedInv'
<1>0. TypeOK /\ pc = at /\ UNCHANGED <<page, session>>
    BY DEF ScanPass, TypeInv
<1>1. CASE ScanClears(s) /\ pc' = next /\ UNCHANGED result
    <2>1. cleared' = cleared \cup {s} /\ s \notin page.hits
        BY <1>0, <1>1, ClearsTyped
    <2>2. Progress'
        BY <1>0, <1>1, <2>1 DEF ClearedInv, Progress, Choosing
    <2>3. Tried'
        BY <1>0, <2>1 DEF ClearedInv, Tried, session
    <2> QED BY <1>0, <1>1, <2>1, <2>2, <2>3 DEF ClearedInv, session, Required
<1>2. CASE ScanStops(s)
    <2>1. cleared' = cleared /\ pc' = "report" /\ result' \notin Returns
        BY <1>0, <1>2, StopsTyped, StopsNotReturns
    <2> QED BY <1>0, <2>1, QuietCleared
<1> QED BY <1>1, <1>2 DEF ScanPass

\* A conversion goes to be scanned; a kept fallback was.
LEMMA ChoosesCleared ==
    ASSUME TypeInv, ClearedInv, ConvertWhole \/ ConvertNext \/ ConvertEnds
    PROVE  ClearedInv'
<1>0. /\ TypeOK /\ pc = "convert" /\ UNCHANGED <<page, cleared>>
      /\ link \in 1..4
    BY ChainTyped DEF ConvertWhole, ConvertNext, ConvertEnds, InChain, detector, TypeInv, TypeOK
<1>1. /\ pc' \in Choosing \cup {"report"}
      /\ link' = link \/ (link' = link + 1 /\ page.converts[CHAIN[link]] = "none")
      /\ UNCHANGED fallback
      /\ pc' = "release" => candidate' = fallback /\ fallback # None
      /\ pc' # "combined"
      /\ UNCHANGED result \/ result' \notin Returns
    <2>1. CASE ConvertWhole
        BY <2>1 DEF ConvertWhole, Choosing
    <2>2. CASE ConvertNext
        <3>1. CASE IsLate /\ Stop("deadline_exceeded", "failed") /\ UNCHANGED session
            BY <3>1, StopReturnsNothing DEF session
        <3> QED BY <1>0, <2>2, <3>1 DEF ConvertNext, Choosing
    <2>3. CASE ConvertEnds
        <3>1. CASE fallback = None
            BY <2>3, <3>1, StopReturnsNothing DEF ConvertEnds
        <3> QED BY <2>3, <3>1 DEF ConvertEnds, Choosing
    <2> QED BY <2>1, <2>2, <2>3
<1>2. Progress'
    BY <1>0, <1>1 DEF ClearedInv, Progress, Choosing
<1>3. Tried'
    BY <1>0, <1>1 DEF ClearedInv, Tried
<1> QED BY <1>0, <1>1, <1>2, <1>3 DEF ClearedInv, Required

\* What is kept, released or passed over has been scanned.
LEMMA CandidateCleared == ASSUME TypeInv, ClearedInv, ScanCandidate PROVE ClearedInv'
<1>1. /\ TypeOK /\ pc = "candidate" /\ candidate \in Candidates /\ link \in 1..3
      /\ candidate.content = CHAIN[link]
      /\ UNCHANGED <<page, candidate>>
    BY ChainTyped DEF ScanCandidate, TypeInv, TypeOK, Holds, Candidate
<1>2. <<candidate.content>> \in Strings
    BY <1>1, StringsOfParts DEF Candidates, Parts, Converters
<1>3. CASE ScanStops(<<candidate.content>>) /\ UNCHANGED <<link, fallback>>
    <2>1. cleared' = cleared /\ pc' = "report" /\ result' \notin Returns
        BY <1>1, <1>2, <1>3, StopsTyped, StopsNotReturns
    <2> QED BY <1>1, <1>3, <2>1, QuietCleared DEF session
<1>4. CASE /\ ScanClears(<<candidate.content>>) /\ UNCHANGED result
           /\ pc' \in {"release", "convert"}
           /\ link' \in {link, link + 1} /\ fallback' \in {candidate, fallback}
    <2>1. /\ cleared' = cleared \cup {<<candidate.content>>}
          /\ <<candidate.content>> \notin page.hits
        BY <1>1, <1>2, <1>4, ClearsTyped
    <2>2. Progress'
        BY <1>1, <1>4, <2>1 DEF ClearedInv, Progress, Choosing
    <2>3. ASSUME NEW i \in 1..(link' - 1), page'.converts[CHAIN[i]] # "none"
          PROVE  <<CHAIN[i]>> \in cleared'
        <3>1. CASE i = link
            BY <1>1, <2>1, <3>1
        <3>2. CASE i # link
            <4>1. link \in 1..3 /\ (link' = link \/ link' = link + 1)
                BY <1>1, <1>4
            <4>2. i \in 1..(link - 1)
                BY <2>3, <3>2, <4>1
            <4> QED BY <1>1, <2>1, <2>3, <4>2 DEF ClearedInv, Tried
        <3> QED BY <3>1, <3>2
    <2>4. Tried'
        BY <2>3 DEF Tried
    <2> QED BY <1>1, <1>4, <2>1, <2>2, <2>4 DEF ClearedInv, Required
<1> QED BY <1>3, <1>4 DEF ScanCandidate

\* The last scan completes what content requires.
LEMMA CombinedCleared == ASSUME TypeInv, ClearedInv, ScanCombined PROVE ClearedInv'
<1>1. /\ TypeOK /\ pc = "combined" /\ candidate \in Candidates
      /\ UNCHANGED <<page, session>>
    BY DEF ScanCombined, TypeInv, Holds
<1>2. Combined(candidate.content) \in Strings
    BY <1>1, StringsOfParts DEF Candidates
<1>3. CASE ScanStops(Combined(candidate.content))
    <2>1. cleared' = cleared /\ pc' = "report" /\ result' \notin Returns
        BY <1>1, <1>2, <1>3, StopsTyped, StopsNotReturns
    <2> QED BY <1>1, <2>1, QuietCleared
<1>4. CASE /\ ScanClears(Combined(candidate.content))
           /\ result' = [stop |-> FALSE, data |-> Data] /\ pc' = "report"
    <2>1. /\ cleared' = cleared \cup {Combined(candidate.content)}
          /\ Combined(candidate.content) \notin page.hits
        BY <1>1, <1>2, <1>4, ClearsTyped
    <2>2. Progress'
        BY <1>4, <2>1 DEF Progress, Choosing
    <2>3. Tried'
        BY <1>1, <2>1 DEF ClearedInv, Tried, session
    <2>4. result'.data.content = candidate.content
        BY <1>4 DEF Data
    <2>5. Required(candidate.content) \subseteq cleared'
        BY <1>1, <2>1 DEF ClearedInv, Progress, Choosing, Required
    <2> QED BY <1>1, <1>4, <2>1, <2>2, <2>3, <2>4, <2>5 DEF ClearedInv, session, Required
<1> QED BY <1>3, <1>4 DEF ScanCombined

\* What has been scanned stays so.
LEMMA NextCleared == TypeInv /\ ClearedInv /\ [Next]_vars => ClearedInv'
<1> SUFFICES ASSUME TypeInv, ClearedInv, [Next]_vars PROVE ClearedInv'
    OBVIOUS
<1>1. CASE \/ UNCHANGED vars \/ Load \/ Report \/ RemoveBody \/ Emit \/ EmitFails
           \/ Killed \/ DeadlinePasses
           \/ Unusable("internal_error", NotRunField)
           \/ Unusable("inspection_failed", InspectionField("failed", None))
    BY <1>1, QuietCleared
       DEF vars, session, detector, Load, Report, RemoveBody, Emit, EmitFails, Killed,
           DeadlinePasses, Unusable, Done, Ended
<1>2. CASE Open \/ WireDeadline \/ Decode \/ TextDeadline \/ Release
    <2>1. CASE Open
        BY <2>1, QuietCleared, StopReturnsNothing DEF Open, detector
    <2>2. CASE WireDeadline
        BY <2>2, QuietCleared, StopReturnsNothing DEF WireDeadline, detector
    <2>3. CASE Decode
        BY <2>3, QuietCleared, StopReturnsNothing DEF Decode, detector
    <2>4. CASE TextDeadline
        BY <2>4, QuietCleared, StopReturnsNothing DEF TextDeadline, detector
    <2>5. CASE Release
        BY <2>5, QuietCleared, StopReturnsNothing DEF Release, detector
    <2> QED BY <1>2, <2>1, <2>2, <2>3, <2>4, <2>5
<1>3. CASE ScanBody \/ ScanUrl \/ ScanType \/ ScanText \/ ScanEntities \/ ScanFolded
    BY <1>3, ScanPassCleared, StringsOfParts
       DEF ScanBody, ScanUrl, ScanType, ScanText, ScanEntities, ScanFolded, Parts
<1>4. CASE ScanWhole
    <2>1. <<candidate.content>> \in Strings
        BY <1>4, StringsOfParts
           DEF ScanWhole, ScanPass, TypeInv, Holds, Candidates, Parts, Converters
    <2> QED BY <1>4, <2>1, ScanPassCleared DEF ScanWhole
<1> QED BY <1>1, <1>2, <1>3, <1>4, ChoosesCleared, CandidateCleared, CombinedCleared
        DEF Next, Step, Passes

LEMMA InitCleared == Init => ClearedInv
<1> SUFFICES ASSUME Init PROVE ClearedInv
    OBVIOUS
<1>1. result \notin Returns /\ link = 1 /\ pc = "start" /\ fallback = None /\ cleared = {}
    BY RecordAssumption DEF Init
<1> QED BY <1>1 DEF ClearedInv, Progress, Tried, Choosing

LEMMA AlwaysCleared == Spec => []ClearedInv
<1>1. Init => ClearedInv
    BY InitCleared
<1>2. TypeInv /\ ClearedInv /\ [Next]_vars => ClearedInv'
    BY NextCleared
<1> QED BY <1>1, <1>2, AlwaysTyped, PTL DEF Spec

\* What is emitted as content is what the pipeline returned.
LEMMA ReleasedReturns ==
    ASSUME TypeInv, Released
    PROVE  out.data = result.data /\ result \in Returns /\ pc \in Ended /\ out = envelope
BY DEF TypeInv, Told, TypeOK, Released, Emitted

\* Content is emitted only when each string it requires, and each conversion
\* discarded on the way, was scanned whole and matched by no rule.
THEOREM ReleasedCleared == Spec => []ReleasedWasCleared
<1>1. TypeInv /\ ClearedInv => ReleasedWasCleared
    <2> SUFFICES ASSUME TypeInv, ClearedInv, Released
                 PROVE  /\ Required(out.data.content) \subseteq cleared
                        /\ Discarded \subseteq cleared
                        /\ (Required(out.data.content) \cup Discarded) \cap page.hits = {}
        BY DEF ReleasedWasCleared
    <2>1. Required(out.data.content) \subseteq cleared
        BY ReleasedReturns DEF ClearedInv
    <2>2. Discarded \subseteq cleared
        BY DEF Discarded, ClearedInv, Tried
    <2> QED BY <2>1, <2>2 DEF ClearedInv
<1> QED BY <1>1, AlwaysTyped, AlwaysCleared, PTL

--------------------------------------------------------------------------------
(***************************************************************************)
(* The deadline.                                                           *)
(***************************************************************************)
\* The last scan began in time, and so did the one content was returned by.
LateInv ==
    /\ pc = "combined" => late \in {None, "combined"}
    /\ result \in Returns => late \in {None, "combined", "report"}

\* A scan that ends the response returns no content.
LEMMA ScanStopsReturnNothing ==
    ASSUME NEW s, ScanStops(s)
    PROVE  result' \notin Returns /\ pc' = "report"
<1>1. RejectedStop \notin Returns
    BY StopsNotReturns, RejectedConsistent
<1> QED BY <1>1, StopReturnsNothing DEF ScanStops

LEMMA ScanPassReturnsNothing ==
    ASSUME NEW at, NEW s, NEW next, ScanPass(at, s, next)
    PROVE  /\ UNCHANGED result \/ result' \notin Returns
           /\ pc' \in {next, "report"} /\ UNCHANGED late
BY ScanStopsReturnNothing DEF ScanPass

\* Only the last scan returns content, only release leads to it, and only the
\* deadline itself makes a process late.
LEMMA OnlyTheLastReturns ==
    ASSUME TypeInv, [Next]_vars, ~ScanCombined, ~DeadlinePasses
    PROVE  /\ UNCHANGED result \/ result' \notin Returns
           /\ Release \/ UNCHANGED pc \/ pc' # "combined"
           /\ UNCHANGED late
<1>1. CASE \/ UNCHANGED vars \/ Load \/ Report \/ RemoveBody \/ Emit \/ EmitFails \/ Killed
           \/ Unusable("internal_error", NotRunField)
           \/ Unusable("inspection_failed", InspectionField("failed", None))
    BY <1>1 DEF vars, Load, Report, RemoveBody, Emit, EmitFails, Killed, Unusable
<1>2. CASE Open \/ WireDeadline \/ Decode \/ TextDeadline \/ Release
    BY <1>2, StopReturnsNothing DEF Open, WireDeadline, Decode, TextDeadline, Release
<1>3. CASE \/ ScanBody \/ ScanUrl \/ ScanType \/ ScanText \/ ScanEntities \/ ScanFolded
           \/ ScanWhole
    BY <1>3, ScanPassReturnsNothing
       DEF ScanBody, ScanUrl, ScanType, ScanText, ScanEntities, ScanFolded, ScanWhole
<1>4. CASE ConvertWhole \/ ConvertNext \/ ConvertEnds
    BY <1>4, StopReturnsNothing DEF ConvertWhole, ConvertNext, ConvertEnds, InChain
<1>5. CASE ScanCandidate
    BY <1>5, ScanStopsReturnNothing DEF ScanCandidate
<1> QED BY <1>1, <1>2, <1>3, <1>4, <1>5 DEF Next, Step, Passes

LEMMA NextLate == TypeInv /\ LateInv /\ [Next]_vars => LateInv'
<1> SUFFICES ASSUME TypeInv, LateInv, [Next]_vars PROVE LateInv'
    OBVIOUS
<1>1. CASE DeadlinePasses
    <2>1. result \in Returns => pc = "report"
        BY <1>1 DEF DeadlinePasses, TypeInv, Holds, Done
    <2> QED BY <1>1, <2>1 DEF DeadlinePasses, LateInv
<1>2. CASE ScanCombined
    <2>1. /\ pc = "combined" /\ pc' = "report" /\ UNCHANGED late
        BY <1>2, ScanStopsReturnNothing DEF ScanCombined
    <2> QED BY <2>1 DEF LateInv
<1>3. CASE Release
    <2>1. /\ pc' = "combined" => late = None
          /\ UNCHANGED late /\ (UNCHANGED result \/ result' \notin Returns)
        BY <1>3, StopReturnsNothing DEF Release, IsLate, Stop
    <2> QED BY <2>1 DEF LateInv
<1>4. CASE ~DeadlinePasses /\ ~ScanCombined /\ ~Release
    BY <1>4, OnlyTheLastReturns DEF LateInv
<1> QED BY <1>1, <1>2, <1>3, <1>4

\* Content is emitted only when the deadline had not passed by the time the
\* last scan began.
THEOREM ReleaseInTime == Spec => []ReleasedInTime
<1>1. Init => LateInv
    BY RecordAssumption DEF Init, LateInv
<1>2. TypeInv /\ LateInv /\ [Next]_vars => LateInv'
    BY NextLate
<1>3. TypeInv /\ LateInv => ReleasedInTime
    BY ReleasedReturns DEF ReleasedInTime, LateInv
<1> QED BY <1>1, <1>2, <1>3, AlwaysTyped, PTL DEF Spec

--------------------------------------------------------------------------------
(***************************************************************************)
(* The record of an inspection.                                            *)
(***************************************************************************)
\* The body goes only when the outcome is on record, and nothing is taken off
\* the record.
LEMMA NextRemoved == TypeInv /\ RemovedIsOnRecord /\ [Next]_vars => RemovedIsOnRecord'
<1> SUFFICES ASSUME TypeInv, RemovedIsOnRecord, [Next]_vars PROVE RemovedIsOnRecord'
    OBVIOUS
<1>1. CASE RemoveBody
    BY <1>1 DEF RemoveBody, TypeInv, Told, RemovedIsOnRecord
<1>2. CASE Emit \/ EmitFails \/ Killed \/ DeadlinePasses \/ UNCHANGED vars
    BY <1>2 DEF Emit, EmitFails, Killed, DeadlinePasses, vars, reported, RemovedIsOnRecord, Ended
<1>3. CASE \/ Load \/ Report \/ Passes
           \/ Unusable("internal_error", NotRunField)
           \/ Unusable("inspection_failed", InspectionField("failed", None))
    <2>1. pc \notin {"emit"} \cup Ended /\ UNCHANGED stored
        BY <1>3
           DEF Load, Report, Unusable, Passes, Open, WireDeadline, Decode, TextDeadline, Release,
               ScanBody, ScanUrl, ScanType, ScanText, ScanEntities, ScanFolded, ScanWhole, ScanPass,
               ConvertWhole, ConvertNext, ConvertEnds, InChain, ScanCandidate, ScanCombined,
               reported, Ended
    <2> QED BY <2>1 DEF RemovedIsOnRecord
<1> QED BY <1>1, <1>2, <1>3 DEF Next, Step

\* Whenever the response body is gone, its outcome is on record and no pass
\* over it is under way.
THEOREM RemovedRecorded == Spec => []RemovedIsOnRecord
<1>1. Init => RemovedIsOnRecord
    BY DEF Init, RemovedIsOnRecord
<1>2. TypeInv /\ RemovedIsOnRecord /\ [Next]_vars => RemovedIsOnRecord'
    BY NextRemoved
<1> QED BY <1>1, <1>2, AlwaysTyped, PTL DEF Spec

\* Under a policy name the contract accepts, a consistent stop has a valid
\* envelope of its own.
LEMMA FailureValid ==
    ASSUME NEW stop, Consistent(stop), policy \in Policies, policy \in ShapedPolicyIds,
           NEW field,
           field = InspectionField(stop.status, IF stop.status = "not_run" THEN None ELSE policy)
    PROVE  Failure(stop.code, field) = FailureEnvelope(stop.code, field)
<1>1. /\ stop.code \in ErrorCode /\ stop.status \in InspectionStatus
      /\ stop.status \in Permits(stop.code)
    BY DEF Consistent, Stops
<1>2. /\ field.status = stop.status
      /\ field.policy_id = IF stop.status = "not_run" THEN None ELSE policy
      /\ field \in [status : InspectionStatus, policy_id : Policies \cup {None}]
    BY <1>1 DEF InspectionField
<1> DEFINE e == FailureEnvelope(stop.code, field)
<1>3. /\ e.envelope_version = ENVELOPE_VERSION /\ e.tool = TOOL
      /\ e.tool_version = TOOL_VERSION /\ e.error.message = e.error.code
    BY DEF FailureEnvelope, ToolError
<1>4. /\ e.status = StatusOf(stop.code) /\ e.status # "ok" /\ e.inspection = field
      /\ e.data = None /\ e.error.code = stop.code /\ e.error # None
    BY <1>1, <1>2, FailureTyped, RecordAssumption
<1> HIDE DEF e
<1>5. policy # None
    BY InspectionAssumption
<1>6. IF e.inspection.policy_id # None
      THEN e.inspection.policy_id \in ShapedPolicyIds
      ELSE e.inspection.status # "match"
    BY <1>2, <1>4, <1>5
<1>7. ValidEnvelope(e, FALSE)
    BY <1>1, <1>2, <1>3, <1>4, <1>6 DEF ValidEnvelope
<1> QED BY <1>7 DEF Failure, e

\* The report writes an audit line that agrees with its envelope.
LEMMA ReportAgrees == ASSUME TypeInv, Report, policy \in ShapedPolicyIds PROVE AuditAgrees'
<1>1. /\ TypeOK /\ result \in Stops \cup Returns /\ policy \in Policies /\ UNCHANGED policy
    BY DEF Report, TypeInv, Holds, TypeOK
<1>2. CASE result \in Stops
    <2> DEFINE field == InspectionField(result.status,
                                        IF result.status = "not_run" THEN None ELSE policy)
    <2>1. /\ Consistent(result) /\ result.stop = TRUE /\ result.code \in ErrorCode
          /\ result.status \in InspectionStatus
          /\ result.matched <=> result.status = "match"
        BY <1>2 DEF TypeInv, Holds, Consistent, Stops
    <2>2. /\ envelope' = Failure(result.code, field)
          /\ audit' = FailureAudit(result.code, result.matched)
        BY <2>1 DEF Report
    <2>3. field.status = result.status
          /\ field \in [status : InspectionStatus, policy_id : Policies \cup {None}]
        BY <1>1, <2>1 DEF InspectionField
    <2>4. Failure(result.code, field) = FailureEnvelope(result.code, field)
        BY <1>1, <2>1, FailureValid
    <2> HIDE DEF field
    <2>5. /\ envelope'.status = StatusOf(result.code) /\ envelope'.data = None
          /\ envelope'.inspection.status = result.status
          /\ envelope'.error.code = result.code /\ envelope'.error # None
        BY <2>1, <2>2, <2>3, <2>4, FailureTyped, RecordAssumption
    <2>6. /\ audit'.outcome = StatusOf(result.code) /\ audit'.code = result.code
          /\ audit'.matched = result.matched /\ audit'.method = None
        BY <2>2 DEF FailureAudit, AuditOf, StatusOf
    <2> QED BY <2>1, <2>5, <2>6 DEF AuditAgrees
<1>3. CASE result \in Returns
    <2>1. /\ result.stop = FALSE /\ result.data \in Payloads
          /\ telemetry.method = result.data.method
        BY <1>3 DEF TypeInv, Holds, Returns
    <2>2. CASE /\ envelope' = OkEnvelope(result.data, policy)
               /\ audit' = AuditOf("ok", None, FALSE, telemetry.method)
        <3>1. /\ envelope'.status = "ok" /\ envelope'.data = result.data
              /\ envelope'.error = None /\ envelope'.inspection.status = "no_match"
              /\ envelope'.data # None
            BY <1>1, <2>1, <2>2, OkTyped, RecordAssumption
        <3>2. /\ audit'.outcome = "ok" /\ audit'.code = None /\ audit'.matched = FALSE
              /\ audit'.method = telemetry.method
            BY <2>2 DEF AuditOf
        <3> QED BY <2>1, <3>1, <3>2 DEF AuditAgrees
    <2>3. CASE /\ envelope' = Failure("internal_error", NotRunField)
               /\ audit' = FailureAudit("internal_error", FALSE)
        <3>1. envelope' = FailureEnvelope("internal_error", NotRunField)
            BY <2>3 DEF Failure
        <3>2. /\ "internal_error" \in ErrorCode /\ NotRunField.status = "not_run"
              /\ NotRunField \in [status : InspectionStatus, policy_id : Policies \cup {None}]
            BY DEF ErrorCode, NotRunField, InspectionField, InspectionStatus
        <3>3. /\ envelope'.status = "error" /\ envelope'.data = None
              /\ envelope'.inspection.status = "not_run"
              /\ envelope'.error.code = "internal_error" /\ envelope'.error # None
            BY <3>1, <3>2, FailureTyped, RecordAssumption DEF StatusOf
        <3>4. /\ audit'.outcome = "error" /\ audit'.code = "internal_error"
              /\ audit'.matched = FALSE /\ audit'.method = None
            BY <2>3 DEF FailureAudit, AuditOf
        <3> QED BY <3>3, <3>4 DEF AuditAgrees
    <2> QED BY <2>1, <2>2, <2>3 DEF Report
<1> QED BY <1>1, <1>2, <1>3

LEMMA NextAgrees == TypeInv /\ AuditAgrees /\ [Next]_vars => AuditAgrees'
<1> SUFFICES ASSUME TypeInv, AuditAgrees, [Next]_vars PROVE AuditAgrees'
    OBVIOUS
<1>1. CASE Report
    <2>1. UNCHANGED policy
        BY <1>1 DEF Report
    <2> QED BY <1>1, <2>1, ReportAgrees DEF AuditAgrees
<1>2. CASE \/ Unusable("internal_error", NotRunField)
           \/ Unusable("inspection_failed", InspectionField("failed", None))
    BY <1>2 DEF Unusable, TypeInv, Told, Done, Ended, AuditAgrees
<1>3. CASE \/ Load \/ RemoveBody \/ Emit \/ EmitFails \/ Killed \/ DeadlinePasses \/ Passes
           \/ UNCHANGED vars
    <2>1. UNCHANGED <<policy, envelope, audit>>
        BY <1>3
           DEF Load, RemoveBody, Emit, EmitFails, Killed, DeadlinePasses, vars, reported, Passes,
               Open, WireDeadline, Decode, TextDeadline, Release,
               ScanBody, ScanUrl, ScanType, ScanText, ScanEntities, ScanFolded, ScanWhole, ScanPass,
               ConvertWhole, ConvertNext, ConvertEnds, ScanCandidate, ScanCombined
    <2> QED BY <2>1 DEF AuditAgrees
<1> QED BY <1>1, <1>2, <1>3 DEF Next, Step

\* The audit line and the envelope of an inspection tell the same story.
THEOREM AuditConsistent == Spec => []AuditAgrees
<1>1. Init => AuditAgrees
    BY DEF Init, AuditAgrees
<1>2. TypeInv /\ AuditAgrees /\ [Next]_vars => AuditAgrees'
    BY NextAgrees
<1> QED BY <1>1, <1>2, AlwaysTyped, PTL DEF Spec

--------------------------------------------------------------------------------
(***************************************************************************)
(* The scan budget.  For a presentable and compact response what is left   *)
(* of it at each pass pays for the scans still to come.                    *)
(***************************************************************************)
Promised == Presentable /\ Compact

Sized(p) == page.size[p]
Limit == MAX_DECODED_BYTES

\* Enough budget at every pass.
Affords ==
    /\ pc \in {"start", "open", "wire", "body"} => remaining >= 8 * Limit
    /\ pc = "url" => remaining >= 7 * Limit
    /\ pc = "type" => remaining + Sized("url") >= 7 * Limit
    /\ pc \in {"decode", "decoded", "text"}
         => remaining + Sized("url") + Sized("type") >= 7 * Limit
    /\ pc = "entities" => remaining + Sized("url") + Sized("type") >= 6 * Limit
    /\ pc = "folded" => remaining + Sized("url") + Sized("type") >= 5 * Limit
    /\ pc = "whole" => remaining + Sized("url") + Sized("type") >= 3 * Limit
    /\ pc \in {"convert", "candidate"} =>
         remaining + Sized("url") + Sized("type") >= (IF link = 1 THEN 4 * Limit ELSE 3 * Limit)
    /\ pc \in {"release", "combined"} => remaining + Sized("url") + Sized("type") >= 2 * Limit

\* The chain stops at its second link, and inert source is not converted.
Chain ==
    /\ pc \in Before => link = 1
    /\ pc \in {"convert", "candidate"} =>
         link = 1 \/ (link = 2 /\ page.converts["extracted"] = "usable")
    /\ pc = "candidate" => page.format # "html"
    /\ pc \in {"whole", "release", "combined"} =>
         (page.format = "html" => candidate.method = "source")

\* The pipeline returns valid data, and that is what is reported.
Presents ==
    /\ result \notin Stops
    /\ result \in Returns => ValidData(result.data)
    /\ pc \in {"remove", "emit"} => envelope.status = "ok"
    /\ Emitted /\ exit # 2 => out.status = "ok"

BudgetInv == Promised => Affords /\ Chain /\ Presents

\* A response that keeps its promise kept it before.
LEMMA PromisedBefore ==
    ASSUME TypeInv, [Next]_vars, Promised'
    PROVE  /\ Promised /\ UNCHANGED <<page, policy>> /\ late = None /\ UNCHANGED faults
           /\ page.size \in [Parts -> Nat] /\ Limit \in Nat
<1>1. UNCHANGED <<page, policy>>
    BY DEF Next, Step, Passes, vars, Load, Unusable, Open, WireDeadline, ScanBody, ScanUrl, ScanType,
           Decode, TextDeadline, ScanText, ScanEntities, ScanFolded, ScanWhole, ScanPass,
           ConvertWhole, ConvertNext, ConvertEnds, ScanCandidate, Release, ScanCombined, Report,
           RemoveBody, Emit, EmitFails, Killed, DeadlinePasses
<1>2. faults' = faults \/ faults' = faults + 1
    <2>1. \A s : ScanClears(s) \/ ScanStops(s) => faults' = faults \/ faults' = faults + 1
        BY DEF ScanClears, ScanStops
    <2> QED BY <2>1
           DEF Next, Step, Passes, vars, Load, Unusable, Open, WireDeadline, ScanBody, ScanUrl,
               ScanType, Decode, TextDeadline, ScanText, ScanEntities, ScanFolded, ScanWhole,
               ScanPass, ConvertWhole, ConvertNext, ConvertEnds, ScanCandidate, Release,
               ScanCombined, Report, RemoveBody, Emit, EmitFails, Killed, DeadlinePasses
<1>3. faults \in Nat /\ faults' = 0
    BY DEF TypeInv, TypeOK, Promised, Presentable
<1>4. UNCHANGED faults
    BY <1>2, <1>3
<1>5. late = None
    <2>1. late' = late \/ late = None
        BY ScanPassReturnsNothing
           DEF Next, Step, Passes, vars, Load, Unusable, Open, WireDeadline, ScanBody, ScanUrl,
               ScanType, Decode, TextDeadline, ScanText, ScanEntities, ScanFolded, ScanWhole,
               ConvertWhole, ConvertNext, ConvertEnds, ScanCandidate, Release,
               ScanCombined, Report, RemoveBody, Emit, EmitFails, Killed, DeadlinePasses
    <2> QED BY <2>1 DEF Promised, Presentable
<1>6. Promised
    BY <1>1, <1>4, <1>5 DEF Promised, Presentable, Compact, DecodeError, ContentEncodingError
<1> QED BY <1>1, <1>4, <1>5, <1>6, InspectionAssumption DEF TypeInv, TypeOK, Page, Limit

\* A scan the budget pays for finds nothing in a clean response.
LEMMA PromisedScan ==
    ASSUME TypeInv, [Next]_vars, Promised', NEW s \in Strings, ByteLength(s) <= remaining,
           ScanClears(s) \/ ScanStops(s)
    PROVE  ScanClears(s) /\ ~ScanStops(s) /\ remaining' = remaining - ByteLength(s)
<1>1. /\ page.hits = {} /\ UNCHANGED faults /\ faults \in Nat
      /\ remaining \in Nat /\ ByteLength(s) \in Nat
    BY PromisedBefore, LengthTyped, InspectionAssumption
       DEF Promised, Presentable, TypeInv, TypeOK
<1>2. ~ScanStops(s)
    BY <1>1 DEF ScanStops
<1> QED BY <1>2 DEF ScanClears

\* The length of one part, and of what release scans.
LEMMA Lengths ==
    /\ \A p \in Parts : ByteLength(<<p>>) = Sized(p)
    /\ \A c \in Converters \cup {"text"} :
          ByteLength(Combined(c)) = Sized("url") + Sized("type") + Sized(c) + 2
BY DEF ByteLength, Combined, Sized

\* What a step of a promised response starts from.
LEMMA PromisedState ==
    ASSUME TypeInv, BudgetInv, [Next]_vars, Promised'
    PROVE  /\ Affords /\ Chain /\ Presents
           /\ UNCHANGED <<page, policy>> /\ late = None /\ ~IsLate
           /\ Limit \in Nat /\ remaining \in Nat /\ \A p \in Parts : Sized(p) \in 0..Limit
           /\ UNCHANGED Sized("url") /\ UNCHANGED Sized("type")
           /\ 2 * (Sized("url") + Sized("type")) + 2 <= Limit
<1>1. /\ Promised /\ UNCHANGED <<page, policy>> /\ late = None
      /\ page.size \in [Parts -> Nat] /\ Limit \in Nat
    BY PromisedBefore
<1>2. remaining \in Nat
    BY InspectionAssumption DEF TypeInv, TypeOK
<1>3. /\ \A p \in Parts : Sized(p) \in 0..Limit
      /\ 2 * (Sized("url") + Sized("type")) + 2 <= Limit
    BY <1>1 DEF Promised, Compact, Sized, Limit
<1> QED BY <1>1, <1>2, <1>3 DEF BudgetInv, IsLate, Sized

\* The passes that scan nothing let a promised response through.
LEMMA EarlyBudget ==
    ASSUME TypeInv, BudgetInv, [Next]_vars, Promised',
           Load \/ Open \/ WireDeadline \/ Decode \/ TextDeadline \/ Release
    PROVE  Affords' /\ Chain' /\ Presents'
<1>1. /\ Affords /\ Chain /\ Presents /\ UNCHANGED page /\ ~IsLate
      /\ UNCHANGED Sized("url") /\ UNCHANGED Sized("type") /\ Promised
    BY PromisedState, PromisedBefore
<1>2. /\ UNCHANGED <<remaining, link, candidate, result, envelope, out, exit>>
      /\ <<pc, pc'>> \in {<<"start", "open">>, <<"open", "wire">>, <<"wire", "body">>,
                         <<"decode", "decoded">>, <<"decoded", "text">>, <<"release", "combined">>}
    <2>1. CASE Load
        BY <2>1 DEF Load, session, detector, reported
    <2>2. CASE Open
        BY <1>1, <2>2 DEF Open, session, detector, reported, Promised, Presentable
    <2>3. CASE WireDeadline
        BY <1>1, <2>3 DEF WireDeadline, session, detector, reported
    <2>4. CASE Decode
        BY <1>1, <2>4 DEF Decode, session, detector, reported, Promised, Presentable
    <2>5. CASE TextDeadline
        BY <1>1, <2>5 DEF TextDeadline, session, detector, reported
    <2>6. CASE Release
        <3>1. candidate \in Candidates /\ page.chars \in [Converters \cup {"text"} -> Nat]
            BY <2>6 DEF Release, TypeInv, TypeOK, Holds, Page
        <3>2. page.chars[candidate.content] <= MAX_CONTENT_CHARS /\ page.stamp
            BY <1>1, <3>1 DEF Promised, Presentable, Candidates
        <3>3. page.chars[candidate.content] \in Nat /\ MAX_CONTENT_CHARS \in Nat
            BY <3>1, InspectionAssumption DEF Candidates
        <3> QED BY <1>1, <2>6, <3>2, <3>3 DEF Release, session, detector, reported
    <2> QED BY <2>1, <2>2, <2>3, <2>4, <2>5, <2>6
<1>3. Affords'
    BY <1>1, <1>2 DEF Affords
<1>4. Chain'
    BY <1>1, <1>2 DEF Chain, Before
<1>5. Presents'
    BY <1>1, <1>2 DEF Presents, Emitted, ValidData
<1> QED BY <1>3, <1>4, <1>5

\* The scans of the forms of the response are paid for.
LEMMA FormsBudget ==
    ASSUME TypeInv, BudgetInv, [Next]_vars, Promised',
           ScanBody \/ ScanUrl \/ ScanType \/ ScanText \/ ScanEntities \/ ScanFolded
    PROVE  Affords' /\ Chain' /\ Presents'
<1>1. /\ Affords /\ Chain /\ Presents /\ UNCHANGED page
      /\ Limit \in Nat /\ remaining \in Nat
      /\ UNCHANGED Sized("url") /\ UNCHANGED Sized("type")
      /\ 2 * (Sized("url") + Sized("type")) + 2 <= Limit
      /\ \A p \in Parts : Sized(p) \in 0..Limit
    BY PromisedState
<1>2. {"body", "url", "type", "text", "entities", "folded"} \subseteq Parts
    BY DEF Parts
<1>3. ASSUME NEW at, NEW p \in Parts, NEW next, ScanPass(at, <<p>>, next),
             Sized(p) <= remaining
      PROVE  /\ pc = at /\ pc' = next /\ remaining' = remaining - Sized(p)
             /\ UNCHANGED <<link, candidate, result, envelope, out, exit>>
    <2>1. ByteLength(<<p>>) = Sized(p) /\ <<p>> \in Strings
        BY Lengths, StringsOfParts
    <2>2. /\ ~ScanStops(<<p>>) /\ remaining' = remaining - Sized(p)
        BY <1>3, <2>1, PromisedScan DEF ScanPass
    <2> QED BY <1>3, <2>2 DEF ScanPass, session, reported
<1>4. ASSUME UNCHANGED <<link, candidate, result, envelope, out, exit>>, Affords',
             pc \in Before, pc' \in Before \cup {"convert"}
      PROVE  Affords' /\ Chain' /\ Presents'
    BY <1>1, <1>4 DEF Chain, Presents, Emitted, ValidData, Before
<1>5. CASE ScanBody
    <2>1. /\ pc = "body" /\ pc' = "url" /\ remaining' = remaining - Sized("body")
          /\ UNCHANGED <<link, candidate, result, envelope, out, exit>>
        <3>1. pc = "body"
            BY <1>5 DEF ScanBody, ScanPass
        <3> QED BY <1>1, <1>2, <1>3, <1>5, <3>1 DEF ScanBody, Affords
    <2>2. Affords'
        BY <1>1, <1>2, <2>1 DEF Affords
    <2> QED BY <1>4, <2>1, <2>2 DEF Before
<1>6. CASE ScanUrl
    <2>1. /\ pc = "url" /\ pc' = "type" /\ remaining' = remaining - Sized("url")
          /\ UNCHANGED <<link, candidate, result, envelope, out, exit>>
        <3>1. pc = "url"
            BY <1>6 DEF ScanUrl, ScanPass
        <3> QED BY <1>1, <1>2, <1>3, <1>6, <3>1 DEF ScanUrl, Affords
    <2>2. Affords'
        BY <1>1, <1>2, <2>1 DEF Affords
    <2> QED BY <1>4, <2>1, <2>2 DEF Before
<1>7. CASE ScanType
    <2>1. /\ pc = "type" /\ pc' = "decode" /\ remaining' = remaining - Sized("type")
          /\ UNCHANGED <<link, candidate, result, envelope, out, exit>>
        <3>1. pc = "type"
            BY <1>7 DEF ScanType, ScanPass
        <3> QED BY <1>1, <1>2, <1>3, <1>7, <3>1 DEF ScanType, Affords
    <2>2. Affords'
        BY <1>1, <1>2, <2>1 DEF Affords
    <2> QED BY <1>4, <2>1, <2>2 DEF Before
<1>8. CASE ScanText
    <2>1. /\ pc = "text" /\ pc' = "entities" /\ remaining' = remaining - Sized("text")
          /\ UNCHANGED <<link, candidate, result, envelope, out, exit>>
        <3>1. pc = "text"
            BY <1>8 DEF ScanText, ScanPass
        <3> QED BY <1>1, <1>2, <1>3, <1>8, <3>1 DEF ScanText, Affords
    <2>2. Affords'
        BY <1>1, <1>2, <2>1 DEF Affords
    <2> QED BY <1>4, <2>1, <2>2 DEF Before
<1>9. CASE ScanEntities
    <2>1. /\ pc = "entities" /\ pc' = "folded" /\ remaining' = remaining - Sized("entities")
          /\ UNCHANGED <<link, candidate, result, envelope, out, exit>>
        <3>1. pc = "entities"
            BY <1>9 DEF ScanEntities, ScanPass
        <3> QED BY <1>1, <1>2, <1>3, <1>9, <3>1 DEF ScanEntities, Affords
    <2>2. Affords'
        BY <1>1, <1>2, <2>1 DEF Affords
    <2> QED BY <1>4, <2>1, <2>2 DEF Before
<1>10. CASE ScanFolded
    <2>1. /\ pc = "folded" /\ pc' = "convert" /\ remaining' = remaining - Sized("folded")
          /\ UNCHANGED <<link, candidate, result, envelope, out, exit>>
        <3>1. pc = "folded"
            BY <1>10 DEF ScanFolded, ScanPass
        <3> QED BY <1>1, <1>2, <1>3, <1>10, <3>1 DEF ScanFolded, Affords
    <2>2. link' = 1
        BY <1>1, <2>1 DEF Chain, Before
    <2>3. Affords'
        BY <1>1, <1>2, <2>1, <2>2 DEF Affords
    <2> QED BY <1>4, <2>1, <2>3 DEF Before
<1> QED BY <1>5, <1>6, <1>7, <1>8, <1>9, <1>10

\* Choosing a conversion costs nothing, and the chain does not run out.
LEMMA ChoosesBudget ==
    ASSUME TypeInv, BudgetInv, [Next]_vars, Promised', ConvertWhole \/ ConvertNext \/ ConvertEnds
    PROVE  Affords' /\ Chain' /\ Presents'
<1>1. /\ Affords /\ Chain /\ Presents /\ UNCHANGED page /\ ~IsLate
      /\ Limit \in Nat /\ remaining \in Nat
      /\ UNCHANGED Sized("url") /\ UNCHANGED Sized("type") /\ Promised
      /\ Sized("url") \in Nat /\ Sized("type") \in Nat
    BY PromisedState, PromisedBefore DEF Parts
<1>2. /\ pc = "convert" /\ UNCHANGED <<remaining, envelope, out, exit>>
      /\ link = 1 \/ (link = 2 /\ page.converts["extracted"] = "usable")
    BY <1>1 DEF ConvertWhole, ConvertNext, ConvertEnds, InChain, detector, reported, Chain
<1>3. CHAIN[1] = "native" /\ CHAIN[2] = "extracted" /\ Len(CHAIN) = 3
    BY DEF CHAIN
<1>4. /\ UNCHANGED result
      /\ \/ /\ pc' = "whole" /\ UNCHANGED link
            /\ page.format = "html" => candidate'.method = "source"
         \/ pc' = "candidate" /\ UNCHANGED link /\ page.format # "html"
         \/ pc' = "convert" /\ link = 1 /\ link' = 2 /\ page.converts["extracted"] = "usable"
    <2>1. CASE ConvertWhole
        BY <2>1 DEF ConvertWhole, Candidate
    <2>2. CASE ConvertNext
        <3>1. page.converts[CHAIN[link]] = "none" =>
                  link = 1 /\ page.converts["extracted"] = "usable"
            BY <1>1, <1>2, <1>3 DEF Promised, Compact
        <3> QED BY <1>1, <1>2, <2>2, <3>1 DEF ConvertNext, InChain
    <2>3. CASE ConvertEnds
        BY <1>2, <1>3, <2>3 DEF ConvertEnds
    <2> QED BY <2>1, <2>2, <2>3
<1>5. Affords'
    BY <1>1, <1>2, <1>4 DEF Affords
<1>6. Chain'
    BY <1>1, <1>2, <1>4 DEF Chain, Before
<1>7. Presents'
    BY <1>1, <1>2, <1>4 DEF Presents, Emitted, ValidData
<1> QED BY <1>5, <1>6, <1>7

\* Nor do the scans of conversions exceed the budget.
LEMMA ContentBudget ==
    ASSUME TypeInv, BudgetInv, [Next]_vars, Promised', ScanWhole \/ ScanCandidate
    PROVE  Affords' /\ Chain' /\ Presents'
<1>1. /\ Affords /\ Chain /\ Presents /\ UNCHANGED page
      /\ Limit \in Nat /\ remaining \in Nat /\ Promised
      /\ UNCHANGED Sized("url") /\ UNCHANGED Sized("type")
      /\ 2 * (Sized("url") + Sized("type")) + 2 <= Limit
      /\ \A p \in Parts : Sized(p) \in 0..Limit
    BY PromisedState, PromisedBefore
<1>2. /\ candidate \in Candidates /\ pc \in {"whole", "candidate"}
      /\ candidate.content \in Parts /\ {"url", "type"} \subseteq Parts
    BY DEF ScanWhole, ScanCandidate, ScanPass, TypeInv, Holds, Candidates, Parts, Converters
<1> DEFINE c == candidate.content
<1>3. /\ ByteLength(<<c>>) = Sized(c) /\ <<c>> \in Strings /\ Sized(c) \in 0..Limit
      /\ Sized(c) <= remaining
    BY <1>1, <1>2, Lengths, StringsOfParts DEF Affords, Chain
<1>4. /\ ~ScanStops(<<c>>) /\ remaining' = remaining - Sized(c)
      /\ UNCHANGED <<candidate, envelope, out, exit>>
    BY <1>3, PromisedScan DEF ScanWhole, ScanCandidate, ScanPass, session, reported
<1>5. CASE ScanWhole
    <2>1. pc = "whole" /\ pc' = "release" /\ UNCHANGED <<link, result>>
        BY <1>4, <1>5 DEF ScanWhole, ScanPass, session
    <2>2. Affords'
        BY <1>1, <1>2, <1>3, <1>4, <2>1 DEF Affords
    <2>3. Chain' /\ Presents'
        BY <1>1, <1>4, <2>1 DEF Chain, Presents, Emitted, ValidData, Before
    <2> QED BY <2>2, <2>3
<1>6. CASE ScanCandidate
    <2>1. /\ pc = "candidate" /\ UNCHANGED result /\ page.format # "html"
          /\ link = 1 \/ (link = 2 /\ page.converts["extracted"] = "usable")
          /\ c = CHAIN[link]
        BY <1>1, <1>4, <1>6 DEF ScanCandidate, Chain, TypeInv, Holds, Candidate
    <2>2. CHAIN[1] = "native" /\ CHAIN[2] = "extracted"
        BY DEF CHAIN
    <2>3. \/ pc' = "release" /\ UNCHANGED link
          \/ pc' = "convert" /\ link = 1 /\ link' = 2 /\ page.converts["extracted"] = "usable"
        <3>1. page.converts[c] # "usable" => link = 1 /\ page.converts["extracted"] = "usable"
            BY <1>1, <2>1, <2>2 DEF Promised, Compact
        <3> QED BY <1>4, <1>6, <2>1, <3>1 DEF ScanCandidate
    <2>4. Affords'
        BY <1>1, <1>2, <1>3, <1>4, <2>1, <2>3 DEF Affords
    <2>5. Chain' /\ Presents'
        BY <1>1, <1>4, <2>1, <2>3 DEF Chain, Presents, Emitted, ValidData, Before
    <2> QED BY <2>4, <2>5
<1> QED BY <1>5, <1>6

\* The last scan is paid for, and what it returns is valid.
LEMMA CombinedBudget ==
    ASSUME TypeInv, BudgetInv, [Next]_vars, Promised', ScanCombined
    PROVE  Affords' /\ Chain' /\ Presents'
<1>1. /\ Affords /\ Chain /\ Presents /\ UNCHANGED page
      /\ Limit \in Nat /\ remaining \in Nat /\ Promised
      /\ 2 * (Sized("url") + Sized("type")) + 2 <= Limit
      /\ \A p \in Parts : Sized(p) \in 0..Limit
    BY PromisedState, PromisedBefore
<1>2. /\ candidate \in Candidates /\ pc = "combined"
      /\ candidate.content \in Parts /\ candidate.content \in Converters \cup {"text"}
      /\ {"url", "type"} \subseteq Parts
      /\ UNCHANGED <<session, envelope, out, exit>>
    BY DEF ScanCombined, TypeInv, Holds, Candidates, Parts, Converters, reported
<1> DEFINE c == candidate.content
<1>3. /\ ByteLength(Combined(c)) = Sized("url") + Sized("type") + Sized(c) + 2
      /\ Combined(c) \in Strings /\ Sized(c) \in 0..Limit
    BY <1>1, <1>2, Lengths, StringsOfParts
<1>4. ByteLength(Combined(c)) <= remaining
    BY <1>1, <1>2, <1>3 DEF Affords
<1>5. /\ result' = [stop |-> FALSE, data |-> Data] /\ pc' = "report"
    BY <1>3, <1>4, PromisedScan DEF ScanCombined
<1>6. result' \notin Stops /\ result'.data = Data
    BY <1>5 DEF Stops
<1>7. ValidData(Data)
    <2>1. /\ Data.content = c /\ Data.method = candidate.method /\ Data.format = page.format
        BY DEF Data
    <2>2. page.chars \in [Converters \cup {"text"} -> Nat]
        BY DEF TypeInv, TypeOK, Page
    <2> QED BY <1>1, <1>2, <2>1, <2>2 DEF ValidData, Promised, Presentable, Chain
<1>8. ValidData(Data)'
    BY <1>1, <1>2, <1>7 DEF ValidData, Data, session
<1>9. Presents'
    <2>1. result'.data = Data'
        BY <1>1, <1>2, <1>6 DEF Data, session
    <2> QED BY <1>1, <1>2, <1>5, <1>6, <1>8, <2>1 DEF Presents, Emitted, ValidData, Data, session
<1>10. Affords' /\ Chain'
    BY <1>5 DEF Affords, Chain, Before
<1> QED BY <1>9, <1>10

\* A promised response is reported as it was returned, and emitted so.
LEMMA ReportBudget ==
    ASSUME TypeInv, BudgetInv, [Next]_vars, Promised', Report
    PROVE  Affords' /\ Chain' /\ Presents'
<1>1. /\ Affords /\ Chain /\ Presents /\ UNCHANGED <<page, policy>> /\ Promised
    BY PromisedState, PromisedBefore
<1>2. /\ pc = "report" /\ pc' = "remove" /\ UNCHANGED <<result, out, exit>>
      /\ result \in Returns /\ ValidData(result.data) /\ policy \in Policies
      /\ policy \in ShapedPolicyIds
    BY <1>1 DEF Report, TypeInv, TypeOK, Holds, Presents, Promised, Presentable
<1>3. result.stop = FALSE /\ result.data \in Payloads
    BY <1>2 DEF Returns
<1> DEFINE e == OkEnvelope(result.data, policy)
<1>4. /\ e.envelope_version = ENVELOPE_VERSION /\ e.tool = TOOL /\ e.tool_version = TOOL_VERSION
      /\ e.inspection.policy_id = policy
    BY DEF OkEnvelope, InspectionField
<1>5. /\ e.status = "ok" /\ e.data = result.data /\ e.data # None /\ e.error = None
      /\ e.inspection.status = "no_match"
    BY <1>2, <1>3, OkTyped, RecordAssumption
<1> HIDE DEF e
<1>6. e.inspection.policy_id # None /\ e.inspection.policy_id \in ShapedPolicyIds
    BY <1>2, <1>4, InspectionAssumption
<1> DEFINE valid == ValidData(result.data)
<1>7. ValidEnvelope(e, valid)
    <2>1. valid
        BY <1>2
    <2> HIDE DEF valid
    <2> QED BY <2>1, <1>4, <1>5, <1>6, Zenon DEF ValidEnvelope
<1>8. envelope' = e
    BY <1>3, <1>7 DEF Report, e
<1>9. Presents'
    BY <1>1, <1>2, <1>5, <1>8 DEF Presents, Emitted, ValidData
<1>10. Affords' /\ Chain'
    BY <1>2 DEF Affords, Chain, Before
<1> QED BY <1>9, <1>10

\* The ends.
LEMMA EndsBudget ==
    ASSUME TypeInv, BudgetInv, [Next]_vars, Promised',
           \/ Unusable("internal_error", NotRunField)
           \/ Unusable("inspection_failed", InspectionField("failed", None))
           \/ RemoveBody \/ Emit \/ EmitFails \/ Killed \/ DeadlinePasses \/ UNCHANGED vars
    PROVE  Affords' /\ Chain' /\ Presents'
<1>1. /\ Affords /\ Chain /\ Presents /\ UNCHANGED <<page, policy>> /\ UNCHANGED faults
      /\ faults \in Nat
    BY PromisedState, PromisedBefore DEF TypeInv, TypeOK
<1>2. UNCHANGED result
    BY DEF Unusable, RemoveBody, Emit, EmitFails, Killed, DeadlinePasses, vars
<1>3. CASE UNCHANGED <<pc, remaining, link, candidate, envelope, out, exit>>
    <2>1. Affords'
        BY <1>1, <1>3 DEF Affords, Sized, Limit
    <2>2. Chain'
        BY <1>1, <1>3 DEF Chain
    <2>3. Presents'
        BY <1>1, <1>2, <1>3 DEF Presents, Emitted, ValidData
    <2> QED BY <2>1, <2>2, <2>3
<1>4. CASE \/ Unusable("internal_error", NotRunField)
           \/ Unusable("inspection_failed", InspectionField("failed", None))
           \/ RemoveBody \/ Emit \/ EmitFails \/ Killed
    <2>1. pc' \in {"emit_unusable", "emit"} \cup Ended
        BY <1>4 DEF Unusable, RemoveBody, Emit, EmitFails, Killed, Ended
    <2>2. Affords' /\ Chain'
        BY <2>1 DEF Affords, Chain, Before, Ended
    <2>3. result' \notin Stops /\ (result \in Returns => ValidData(result.data))'
        BY <1>1, <1>2 DEF Presents, ValidData
    <2>4. (pc' \in {"remove", "emit"} => envelope'.status = "ok")
        <3>1. pc' \in {"remove", "emit"} => pc = "remove" /\ envelope' = envelope
            BY <1>4 DEF Unusable, RemoveBody, Emit, EmitFails, Killed, Ended
        <3> QED BY <1>1, <3>1 DEF Presents
    <2>5. Emitted' /\ exit' # 2 => out'.status = "ok"
        <3>1. CASE Emit
            BY <1>1, <3>1 DEF Emit, Presents
        <3>2. CASE EmitFails \/ Killed
            BY <3>2 DEF EmitFails, Killed, Emitted
        <3>3. CASE Unusable("internal_error", NotRunField) \/ RemoveBody
                   \/ Unusable("inspection_failed", InspectionField("failed", None))
            BY <1>1, <3>3 DEF Unusable, RemoveBody, Presents, Emitted
        <3> QED BY <1>4, <3>1, <3>2, <3>3
    <2>6. Presents'
        BY <2>3, <2>4, <2>5 DEF Presents
    <2> QED BY <2>2, <2>6
<1>5. DeadlinePasses \/ UNCHANGED vars
        => UNCHANGED <<pc, remaining, link, candidate, envelope, out, exit>>
    BY DEF DeadlinePasses, vars, session, detector, reported
<1> QED BY <1>3, <1>4, <1>5

\* A promised response always has the budget it needs.
LEMMA NextBudget == TypeInv /\ BudgetInv /\ [Next]_vars => BudgetInv'
<1> SUFFICES ASSUME TypeInv, BudgetInv, [Next]_vars, Promised'
             PROVE  Affords' /\ Chain' /\ Presents'
    BY DEF BudgetInv
<1> QED BY EarlyBudget, FormsBudget, ChoosesBudget, ContentBudget, CombinedBudget, ReportBudget,
           EndsBudget
        DEF Next, Step, Passes

LEMMA InitBudget ==
    ASSUME MAX_SCAN_INPUT_BYTES = 8 * MAX_DECODED_BYTES, Init
    PROVE  BudgetInv
<1>1. /\ pc = "start" /\ link = 1 /\ remaining = 8 * Limit /\ Limit \in Nat
      /\ result \notin Stops \cup Returns /\ out = None
    BY RecordAssumption, InspectionAssumption DEF Init, Limit
<1> QED BY <1>1 DEF BudgetInv, Affords, Chain, Presents, Emitted

\* Where the scan budget is eight decoded bodies, as limits.rs has it, every
\* presentable response whose forms do not grow and whose chain stops at its
\* second link is returned.
THEOREM CompactComplete ==
    ASSUME MAX_SCAN_INPUT_BYTES = 8 * MAX_DECODED_BYTES
    PROVE  Spec => []CompactPagesComplete
<1>1. Init => BudgetInv
    BY InitBudget
<1>2. TypeInv /\ BudgetInv /\ [Next]_vars => BudgetInv'
    BY NextBudget
<1>3. BudgetInv => CompactPagesComplete
    BY DEF BudgetInv, Presents, Promised, CompactPagesComplete
<1> QED BY <1>1, <1>2, <1>3, AlwaysTyped, PTL DEF Spec

================================================================================
