--------------------------------- MODULE Rules ---------------------------------
(***************************************************************************)
(* The pure rules against what they promise: the verdict on a destination  *)
(* address, the two gates of a result, and the form in which an entry of   *)
(* the memory is written and read back.  One step hands one input to one   *)
(* rule.                                                                   *)
(***************************************************************************)
EXTENDS Policy, ControlPlane, Frontmatter

CONSTANTS
    Addresses,  \* addresses that spell no other, to be asked about
    Files,      \* policy files
    Envelopes,  \* results as either gate reads them
    Payloads,   \* their data
    Entries     \* entries of the memory

ASSUME RulesAssumption ==
    /\ \A address \in Addresses : address \in Address /\ Plain(address)
    /\ \A file \in Files : \A range \in file.denied : range = Malformed \/ Parsed(range)
    /\ \A data \in Payloads :
         /\ data \in Data
         /\ data.final_url.chars <= data.final_url.bytes
         /\ data.content.stripped <= data.content.chars
    /\ \A entry \in Entries : Written(entry)
    /\ MAX_URL_CHARS \in Nat /\ MAX_CONTENT_TYPE_CHARS \in Nat /\ MAX_CONTENT \in Nat

VARIABLE input  \* what a rule is asked about, None before

Init == input = None

CheckAddress ==
    /\ input = None
    /\ \E address \in Addresses, file \in Files :
        \E spelled \in SpellingsOf(address) :
            input' = [kind |-> "address", plain |-> address, spelled |-> spelled, file |-> file]

CheckEnvelope ==
    /\ input = None
    /\ \E e \in Envelopes, valid \in BOOLEAN :
        input' = [kind |-> "envelope", payload |-> valid, envelope |-> e]

CheckData ==
    /\ input = None
    /\ \E data \in Payloads : input' = [kind |-> "data", data |-> data]

CheckEntry ==
    /\ input = None
    /\ \E entry \in Entries : input' = [kind |-> "entry", entry |-> entry]

Next == CheckAddress \/ CheckEnvelope \/ CheckData \/ CheckEntry

Spec == Init /\ [][Next]_input

--------------------------------------------------------------------------------
\* "One classification for every spelling": under a policy that loads, an
\* address is permitted exactly when the address it spells is in no denied
\* range written for its family and is public, or is loopback and the policy
\* is a test one - bit by bit, whatever the prefix.
VerdictIsOfPlainAddress ==
    input # None /\ input.kind = "address" /\ Loads(input.file) =>
        (permits(input.file, input.spelled)
            <=> ReferenceVerdict(input.file, input.plain))

\* "Both sides enforce the same rules": given one verdict on the payload, the
\* gate of the control plane admits exactly the envelopes the inspector's gate
\* lets out.
GatesAgree ==
    input # None /\ input.kind = "envelope" =>
        (ValidEnvelope(input.envelope, input.payload)
            <=> AdmitsEnvelope(input.envelope, input.payload))

\* A payload the inspector builds and its contracts accept is one the control
\* plane admits: a result that passed inspection is not refused behind it over
\* the two gates' different measures of length, digits and dates.
WrittenIsAdmitted ==
    input # None /\ input.kind = "data" =>
        (Built(input.data) /\ AcceptsData(input.data) => AdmitsData(input.data))

\* An entry whose values are single lines is read back as it was written,
\* whatever quotes, escapes, colons or delimiters its values and its content
\* are made of.
RoundTrip ==
    input # None /\ input.kind = "entry" =>
        LET read == loads(dumps(input.entry.meta, input.entry.body)) IN
        ~read.bad /\ read.meta = input.entry.meta /\ read.body = input.entry.body
================================================================================
