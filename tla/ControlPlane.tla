----------------------------- MODULE ControlPlane ------------------------------
(***************************************************************************)
(* The two gates of a web_fetch:v1 result.  The inspector writes only what *)
(* the Rust contracts accept (Envelope, and AcceptsData here), the control *)
(* plane admits only what ai_jobs accepts: ai_jobs/envelope.py and         *)
(* tools/web_fetch.py over the helpers of contracts.py.                    *)
(*                                                                         *)
(* A field of the payload is the record of what either gate can tell about *)
(* it.  The JSON has the fields of its type: both gates refuse a missing   *)
(* or an unknown one.                                                      *)
(***************************************************************************)
EXTENDS Envelope

CONSTANTS
    MAX_URL_CHARS,
    MAX_CONTENT_TYPE_CHARS,
    MAX_CONTENT

Method == {"native", "extracted", "basic", "passthrough", "source"}

Data ==
    [source_id    : [prefixed : BOOLEAN, digits : Nat, ascii : BOOLEAN],
     final_url    : [bytes : Nat, chars : Nat, plain : BOOLEAN],
     http_status  : Nat,
     content_type : [length : Nat, printable : BOOLEAN, blank : BOOLEAN],
     retrieved_at : {"rfc3339", "leap", "date", "words"},
     format       : {"markdown", "text", "html"},
     method       : Method,
     content      : [chars : Nat, stripped : Nat]]

--------------------------------------------------------------------------------
(***************************************************************************)
(* The inspector's side.                                                   *)
(***************************************************************************)
\* is_source_id
IsSourceId(id) == id.prefixed /\ id.digits \in 1..32 /\ id.ascii

\* WebFetchData::validate.  Lengths are of bytes, but for the content.
AcceptsData(data) ==
    /\ IsSourceId(data.source_id)
    /\ data.final_url.bytes <= MAX_URL_CHARS
    /\ data.final_url.plain
    /\ data.http_status \in 100..599
    /\ data.content_type.length \in 1..MAX_CONTENT_TYPE_CHARS
    /\ data.content_type.printable
    /\ data.retrieved_at \in {"rfc3339", "leap"}
    /\ data.content.chars <= MAX_CONTENT
    /\ data.format = "html" => data.method = "source"

\* What release fills in itself: the media type is rebuilt from parts that are
\* not empty, the timestamp is formatted from the value that was parsed.
Built(data) == ~data.content_type.blank /\ data.retrieved_at = "rfc3339"

--------------------------------------------------------------------------------
(***************************************************************************)
(* The control plane's side.                                               *)
(***************************************************************************)
\* Mutant: a string of the maximum length is too long.
require_string_short(length, blank, maximum) == ~blank /\ length < maximum

\* require_string, of a string that is this long once it is stripped.
require_string(length, blank, maximum) == ~blank /\ length <= maximum

\* WebFetchData.from_dict.  isdigit is true of digits of any script; what
\* fromisoformat reads includes dates and excludes the sixtieth second.
AdmitsData(data) ==
    /\ require_string(7 + data.source_id.digits, FALSE, 64)
    /\ data.source_id.prefixed /\ data.source_id.digits > 0
    /\ require_string(data.final_url.chars, FALSE, MAX_URL_CHARS)
    /\ data.final_url.plain
    /\ data.http_status \in 100..599
    /\ require_string(data.content_type.length, data.content_type.blank, MAX_CONTENT_TYPE_CHARS)
    /\ data.content_type.printable
    /\ data.retrieved_at \in {"rfc3339", "date"}
    /\ data.content.stripped <= MAX_CONTENT
    /\ data.format = "html" => data.method = "source"

status_for(code) == IF code \in {"content_rejected"} THEN "rejected" ELSE "error"

\* _PERMITTED_INSPECTION over its default.
PermittedInspection(code) ==
    CASE code = "content_rejected" -> {"match"}
      [] code = "inspection_failed" -> {"failed"}
      [] OTHER -> {"not_run", "failed"}

\* Mutant: a failure is not checked for the policy its inspection names.
check_unnamed(e, payload) ==
    IF e.status = "ok"
    THEN /\ e.data # None /\ e.error = None
         /\ e.inspection.status = "no_match" /\ e.inspection.policy_id # None
         /\ payload
    ELSE /\ e.data = None /\ e.error # None
         /\ status_for(e.error.code) = e.status
         /\ e.inspection.status \in PermittedInspection(e.error.code)

\* _check
check(e, payload) ==
    IF e.status = "ok"
    THEN /\ e.data # None /\ e.error = None
         /\ e.inspection.status = "no_match" /\ e.inspection.policy_id # None
         /\ payload
    ELSE /\ e.data = None /\ e.error # None
         /\ status_for(e.error.code) = e.status
         /\ e.inspection.status \in PermittedInspection(e.error.code)
         /\ e.inspection.status = "match" => e.inspection.policy_id # None

\* Inspection.from_dict and EnvelopeError.from_dict.
ParsesInspection(field) ==
    field.policy_id # None => field.policy_id \in ShapedPolicyIds
ParsesError(error) == error # None => error.message = error.code

\* Envelope.from_dict for web_fetch:v1.
AdmitsEnvelope(e, payload) ==
    /\ e.envelope_version = ENVELOPE_VERSION
    /\ e.tool = TOOL /\ e.tool_version = TOOL_VERSION
    /\ ParsesInspection(e.inspection)
    /\ ParsesError(e.error)
    /\ check(e, payload)
================================================================================
