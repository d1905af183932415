-------------------------------- MODULE MCRules --------------------------------
(***************************************************************************)
(* Small instances of Rules for TLC.                                       *)
(***************************************************************************)
EXTENDS Rules, FiniteSetsExt, Bitwise

\* A masked number is the conjunction of its bits with those of the mask:
\* 0xffu8 << last, 0xfe00 and 0xffc0 in policy.rs.
ASSUME MaskedIsBitwise ==
    /\ \A octet \in Octet, last \in 0..8 : Masked(octet, last) = octet & ((255 * 2 ^ last) % 256)
    /\ \A head \in Octet, tail \in {0, 1, 63, 64, 127, 128, 191, 192, 255} :
         LET segment == head * 256 + tail IN
         /\ Masked(segment, 9) = segment & 65024
         /\ Masked(segment, 6) = segment & 65472

--------------------------------------------------------------------------------
(***************************************************************************)
(* Destination policies: ranges with and without a part of an octet, with  *)
(* bits set below the prefix, of prefix 0, of both families, one that is   *)
(* an IPv4 range in its IPv6 spelling, one that is malformed.              *)
(***************************************************************************)
Ranges4 ==
    {Cidr(<<10, 42, 0, 0>>, 16), Cidr(<<93, 184, 216, 34>>, 27), Cidr(<<93, 184, 217, 34>>, 32),
     Cidr(<<128, 0, 0, 0>>, 1), Cidr(<<127, 0, 0, 0>>, 30), Cidr(<<8, 8, 8, 8>>, 0)}

Ranges6 ==
    {Cidr(V6Net(<<38, 6, 40>>), 21), Cidr(Zeros(15) \o <<1>>, 128), Cidr(Zeros(16), 0),
     Cidr(Mapped \o <<93, 184, 216, 0>>, 120)}

Ranges == Ranges4 \cup Ranges6 \cup {Cidr(<<10, 0, 0, 0>>, 33)}

MCFiles ==
    [version : {1}, profile : {"production", "test"},
     denied : kSubset(1, Ranges) \cup {{Cidr(<<10, 42, 0, 0>>, 16), r} : r \in Ranges}]
    \cup [version : {1, 2}, profile : {"production"}, denied : {{}} \cup kSubset(1, Ranges4)]

MCAddresses ==
    {a \in UNION {EdgesOf(s[1], s[2]) : s \in Special4 \cup Special6}
           \cup UNION {EdgesOf(r.network, r.prefix) : r \in Ranges \ {Malformed}} : Plain(a)}

--------------------------------------------------------------------------------
(***************************************************************************)
(* Results: every combination of control fields, and payloads around the   *)
(* bounds of either gate.                                                  *)
(***************************************************************************)
MCEnvelopes ==
    [envelope_version : {1, 2}, tool : {TOOL}, tool_version : {1, 2}, status : Status,
     inspection : [status : InspectionStatus, policy_id : {None, "shaped", "unshaped"}],
     data : {None, "data"},
     error : {None} \cup [code : ErrorCode, message : ErrorCode]]

Sample ==
    [source_id |-> [prefixed |-> TRUE, digits |-> 1, ascii |-> TRUE],
     final_url |-> [bytes |-> 2, chars |-> 2, plain |-> TRUE],
     http_status |-> 200,
     content_type |-> [length |-> 2, printable |-> TRUE, blank |-> FALSE],
     retrieved_at |-> "rfc3339", format |-> "markdown", method |-> "native",
     content |-> [chars |-> 2, stripped |-> 2]]

\* Around the bounds of the names, and of the content.
MCPayloads ==
    {[Sample EXCEPT !.source_id = id, !.final_url = url, !.content_type = type,
                    !.retrieved_at = stamp] :
        id \in [prefixed : BOOLEAN, digits : {0, 1, 32, 33, 57, 58}, ascii : BOOLEAN],
        url \in {u \in [bytes : {MAX_URL_CHARS, MAX_URL_CHARS + 1}, chars : {1, MAX_URL_CHARS},
                        plain : BOOLEAN] : u.chars <= u.bytes},
        type \in {t \in [length : {0, 1, MAX_CONTENT_TYPE_CHARS, MAX_CONTENT_TYPE_CHARS + 1},
                         printable : BOOLEAN, blank : BOOLEAN] : t.blank \/ t.length > 0},
        stamp \in {"rfc3339", "leap", "date", "words"}}
    \cup
    {[Sample EXCEPT !.http_status = status, !.format = format, !.method = method,
                    !.content = content] :
        status \in {99, 100, 599, 600}, format \in {"markdown", "text", "html"},
        method \in Method,
        content \in {c \in [chars : {0, MAX_CONTENT, MAX_CONTENT + 1}, stripped : 0..MAX_CONTENT + 1] :
                        c.stripped \in {c.chars, c.chars - 1}}}

--------------------------------------------------------------------------------
(***************************************************************************)
(* Entries: one value of every shape, a list of values, a body of lines    *)
(* that look like front matter.                                            *)
(***************************************************************************)
Special == {"bs", "dq", "sq", "sp", ":", "-", "[", "x"}
MCChar == Special \cup {"]", "i", "d", "t", "a", "g", "s"}

Tags == {<<>>, <<"x">>, <<"-", "sp", "dq">>, <<":", "bs">>, <<"[", "]">>}
BodyLines == {<<>>, DELIM, <<"-", "sp", "x">>, <<"x", ":", "sp", "x">>, <<"sp", "x", "bs">>}
Bodies == {b \in SeqOf(BodyLines, 3) : b # <<>> => b[1] # <<>> /\ b[Len(b)] # <<>>}

Meta(value, tags) ==
    <<<<<<"i", "d">>, Scalar(value)>>,
      <<<<"t", "a", "g", "s">>, List(tags)>>,
      <<<<"a", "t">>, Scalar(value)>>>>

MCEntries ==
    {[meta |-> Meta(value, tags), body |-> <<DELIM>>] :
        value \in SeqOf(Special, 3), tags \in SeqOf(Tags, 1)}
    \cup
    {[meta |-> Meta(<<"x">>, tags), body |-> body] : tags \in SeqOf(Tags, 2), body \in Bodies}
================================================================================
