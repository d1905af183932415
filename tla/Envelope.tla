------------------------------- MODULE Envelope --------------------------------
(***************************************************************************)
(* The tool-result envelope, version 1 (contracts/src/envelope.rs): the    *)
(* control fields every result carries, how a success and a failure are    *)
(* built, and the gate both ends of the wire apply.  Messages are fixed    *)
(* per code, so a message stands for the code it belongs to.               *)
(***************************************************************************)
EXTENDS Naturals

CONSTANTS
    None,            \* a null field
    ShapedPolicyIds  \* the identifiers validate_policy_id accepts

ENVELOPE_VERSION == 1
TOOL == "web_fetch"
TOOL_VERSION == 1

Status == {"ok", "rejected", "error"}

InspectionStatus == {"no_match", "match", "failed", "not_run"}

ErrorCode ==
    {"content_rejected", "inspection_failed", "unsafe_source", "unsupported_content",
     "response_limit_exceeded", "fetch_failed", "deadline_exceeded", "internal_error"}

\* The status a code is reported under.
StatusOf(code) == IF code = "content_rejected" THEN "rejected" ELSE "error"

\* The inspection statuses a code may accompany.
Permits(code) ==
    IF code = "content_rejected" THEN {"match"}
    ELSE IF code = "inspection_failed" THEN {"failed"}
    ELSE {"not_run", "failed"}

InspectionField(status, policy) == [status |-> status, policy_id |-> policy]
NotRunField == InspectionField("not_run", None)

ToolError(code) == [code |-> code, message |-> code]

\* Envelope::validate; payload is whether the data passes its own validation.
ValidEnvelope(e, payload) ==
    /\ e.envelope_version = ENVELOPE_VERSION
    /\ e.tool = TOOL /\ e.tool_version = TOOL_VERSION
    /\ \/ /\ e.status = "ok" /\ e.data # None /\ e.error = None
          /\ e.inspection.status = "no_match"
          /\ e.inspection.policy_id # None
          /\ payload
       \/ /\ e.status # "ok" /\ e.data = None /\ e.error # None
          /\ StatusOf(e.error.code) = e.status
          /\ e.error.message = e.error.code
          /\ e.inspection.status \in Permits(e.error.code)
    /\ IF e.inspection.policy_id # None
       THEN e.inspection.policy_id \in ShapedPolicyIds
       ELSE e.inspection.status # "match"

OkEnvelope(data, policy) ==
    [envelope_version |-> ENVELOPE_VERSION, tool |-> TOOL, tool_version |-> TOOL_VERSION,
     status |-> "ok", inspection |-> InspectionField("no_match", policy),
     data |-> data, error |-> None]

FailureEnvelope(code, field) ==
    [envelope_version |-> ENVELOPE_VERSION, tool |-> TOOL, tool_version |-> TOOL_VERSION,
     status |-> StatusOf(code), inspection |-> field,
     data |-> None, error |-> ToolError(code)]
================================================================================
