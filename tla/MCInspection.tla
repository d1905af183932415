----------------------------- MODULE MCInspection ------------------------------
(***************************************************************************)
(* Responses for TLC.  Sizes are in units of an eighth of a decoded body:  *)
(* the limits keep their proportions (8 units of body, 64 of scan budget). *)
(***************************************************************************)
EXTENDS Inspection

Converts(n, e, b) ==
    [c \in Converters |-> IF c = "native" THEN n ELSE IF c = "extracted" THEN e ELSE b]

Uniform(size) == [p \in Parts |-> IF p \in {"url", "type"} THEN 1 ELSE size]

Plain ==
    [handed |-> "fetched", media |-> "html", format |-> "markdown", coding |-> "identity",
     intact |-> TRUE, plain |-> 2, charset |-> TRUE,
     converts |-> Converts("usable", "usable", "usable"), size |-> Uniform(2),
     chars |-> [c \in Converters \cup {"text"} |-> 2], hits |-> {}, stamp |-> TRUE,
     described |-> TRUE]

Results == {"none", "empty", "poor", "usable"}
AtMostOneHit == {{}} \cup {{s} : s \in Strings}

\* Every outcome of the chain, with a match in at most one string.
ChainPages ==
    {[Plain EXCEPT !.converts = Converts(n, e, b), !.hits = h] :
        n \in Results, e \in Results, b \in Results, h \in AtMostOneHit}

\* Every handoff answer, media type and format.
MediaPages ==
    {[Plain EXCEPT !.handed = a, !.media = m, !.format = f, !.hits = h] :
        a \in FetchCodes \cup {"refused", "fetched"},
        m \in {"missing", "malformed", "unsupported", "html", "other"},
        f \in {"markdown", "text", "html"}, h \in {{}, {<<"text">>}}}

\* Codings, expansions and charsets around their bounds.
DecodePages ==
    {[Plain EXCEPT !.coding = c, !.intact = i, !.plain = n, !.charset = t, !.size["body"] = b] :
        c \in {"identity", "deflated", "unknown"}, i \in BOOLEAN, n \in {1, 4, 5, 8, 9},
        t \in BOOLEAN, b \in {0, 2, 8, 9}}

\* Responses at the body limit, growing or not, with one to three conversions.
LimitPages ==
    {[Plain EXCEPT !.media = m, !.converts = Converts(n, e, "usable"),
                   !.size = [Uniform(8) EXCEPT !["text"] = t, !["native"] = c],
                   !.chars["text"] = k, !.stamp = s, !.described = d] :
        m \in {"html", "other"}, n \in Results, e \in Results, t \in {8, 16}, c \in {0, 8, 9},
        k \in {8, 9}, s \in BOOLEAN, d \in BOOLEAN}

\* Responses of which no form grows: not even with every conversion tried.
Usual == {"none", "poor", "usable"}
ClosePages ==
    {[Plain EXCEPT !.converts = Converts(n, e, b), !.size = Uniform(8)] :
        n \in Usual, e \in Usual, b \in Usual}

AllPages == ChainPages \cup MediaPages \cup DecodePages \cup LimitPages
================================================================================
