------------------------------ MODULE RulesProofs ------------------------------
(***************************************************************************)
(* The two gates of a result agree on every envelope, and a result that    *)
(* passed the inspector's contracts is admitted, for every limit; every    *)
(* entry of the memory is read back as it was written.                     *)
(***************************************************************************)
EXTENDS Rules, SequenceTheorems, WellFoundedInduction, TLAPS

--------------------------------------------------------------------------------
(***************************************************************************)
(* The two gates of a result.                                              *)
(***************************************************************************)
\* Both sides report a code under one status and beside the same inspections.
LEMMA CodesAgree ==
    ASSUME NEW code
    PROVE  /\ status_for(code) = StatusOf(code)
           /\ PermittedInspection(code) = Permits(code)
<1>1. status_for(code) = StatusOf(code)
  BY DEF status_for, StatusOf
<1>2. CASE code = "content_rejected"
  BY <1>1, <1>2, Zenon DEF PermittedInspection, Permits
<1>3. CASE code = "inspection_failed"
  BY <1>1, <1>3 DEF PermittedInspection, Permits
<1>4. CASE code \notin {"content_rejected", "inspection_failed"}
  BY <1>1, <1>4 DEF PermittedInspection, Permits
<1> QED
  BY <1>2, <1>3, <1>4

\* "Both sides enforce the same rules" (ai_jobs/envelope.py): given one verdict
\* on the payload, Envelope.from_dict of the control plane admits exactly the
\* envelopes Envelope::validate of the inspector lets out, whatever the fields
\* hold.
THEOREM OneGate ==
    ASSUME NEW e, NEW payload \in BOOLEAN
    PROVE  ValidEnvelope(e, payload) <=> AdmitsEnvelope(e, payload)
<1>1. CASE e.status = "ok"
  BY <1>1 DEF ValidEnvelope, AdmitsEnvelope, ParsesInspection, ParsesError, check
<1>2. CASE e.status # "ok"
  <2>1. /\ status_for(e.error.code) = StatusOf(e.error.code)
        /\ PermittedInspection(e.error.code) = Permits(e.error.code)
    BY CodesAgree
  <2> QED
    BY <1>2, <2>1 DEF ValidEnvelope, AdmitsEnvelope, ParsesInspection, ParsesError, check
<1> QED
  BY <1>1, <1>2

\* A payload the inspector builds and WebFetchData::validate accepts is one
\* WebFetchData.from_dict accepts, although the one counts bytes, ASCII digits
\* and RFC 3339 and the other characters, digits and ISO 8601: a character has
\* at least a byte, and stripping a text makes it no longer.
THEOREM WrittenDataAdmitted ==
    ASSUME NEW data \in Data, Built(data), AcceptsData(data),
           data.final_url.chars <= data.final_url.bytes,
           data.content.stripped <= data.content.chars,
           MAX_URL_CHARS \in Nat, MAX_CONTENT_TYPE_CHARS \in Nat, MAX_CONTENT \in Nat
    PROVE  AdmitsData(data)
<1>1. /\ data.source_id.digits \in Nat /\ data.final_url.bytes \in Nat
      /\ data.final_url.chars \in Nat /\ data.content_type.length \in Nat
      /\ data.content.chars \in Nat /\ data.content.stripped \in Nat
  BY DEF Data
<1>2. require_string(7 + data.source_id.digits, FALSE, 64) /\ data.source_id.digits > 0
  BY <1>1 DEF AcceptsData, IsSourceId, require_string
<1>3. require_string(data.final_url.chars, FALSE, MAX_URL_CHARS)
  BY <1>1 DEF AcceptsData, require_string
<1>4. require_string(data.content_type.length, data.content_type.blank, MAX_CONTENT_TYPE_CHARS)
  BY <1>1 DEF AcceptsData, Built, require_string
<1>5. data.content.stripped <= MAX_CONTENT
  BY <1>1 DEF AcceptsData
<1> QED
  BY <1>2, <1>3, <1>4, <1>5 DEF AdmitsData, AcceptsData, Built, IsSourceId

\* A result that passed inspection is not lost between the process that released
\* it and the control plane: Envelope.from_dict admits the success that
\* Envelope::ok builds around it.
THEOREM ResultAdmitted ==
    ASSUME NEW data \in Data, data # None, Built(data), AcceptsData(data),
           data.final_url.chars <= data.final_url.bytes,
           data.content.stripped <= data.content.chars,
           MAX_URL_CHARS \in Nat, MAX_CONTENT_TYPE_CHARS \in Nat, MAX_CONTENT \in Nat,
           NEW policy \in ShapedPolicyIds, policy # None
    PROVE  AdmitsEnvelope(OkEnvelope(data, policy), AdmitsData(data))
<1> DEFINE e == OkEnvelope(data, policy)
<1>1. AdmitsData(data)
  BY WrittenDataAdmitted
<1>2. /\ e.envelope_version = ENVELOPE_VERSION /\ e.tool = TOOL /\ e.tool_version = TOOL_VERSION
      /\ e.status = "ok" /\ e.data = data /\ e.error = None
      /\ e.inspection.status = "no_match" /\ e.inspection.policy_id = policy
  BY DEF OkEnvelope, InspectionField
<1> HIDE DEF e
<1>3. AdmitsEnvelope(e, TRUE)
  BY <1>2 DEF AdmitsEnvelope, ParsesInspection, ParsesError, check
<1>4. AdmitsEnvelope(e, AdmitsData(data)) <=> AdmitsEnvelope(e, TRUE)
  BY <1>1 DEF AdmitsEnvelope, check
<1> QED
  BY <1>3, <1>4 DEF e

\* A failure is not lost either: Envelope.from_dict admits what
\* Envelope::failure builds of any code, beside an inspection the code permits
\* that names its policy if it found a match.
THEOREM FailureAdmitted ==
    ASSUME NEW code \in ErrorCode, ToolError(code) # None,
           NEW status \in Permits(code),
           NEW policy \in ShapedPolicyIds \cup {None}, status = "match" => policy # None,
           NEW payload \in BOOLEAN
    PROVE  AdmitsEnvelope(FailureEnvelope(code, InspectionField(status, policy)), payload)
<1> DEFINE e == FailureEnvelope(code, InspectionField(status, policy))
<1>1. /\ e.envelope_version = ENVELOPE_VERSION /\ e.tool = TOOL /\ e.tool_version = TOOL_VERSION
      /\ e.status = StatusOf(code) /\ e.data = None /\ e.error = ToolError(code)
      /\ e.inspection.status = status /\ e.inspection.policy_id = policy
  BY DEF FailureEnvelope, InspectionField
<1>2. e.error.code = code /\ e.error.message = code /\ e.error # None
  BY <1>1 DEF ToolError
<1>3. status_for(code) = StatusOf(code) /\ PermittedInspection(code) = Permits(code)
  BY CodesAgree
<1>4. StatusOf(code) # "ok"
  BY DEF StatusOf
<1> HIDE DEF e
<1>5. AdmitsEnvelope(e, payload)
  BY <1>1, <1>2, <1>3, <1>4 DEF AdmitsEnvelope, ParsesInspection, ParsesError, check
<1> QED
  BY <1>5 DEF e

--------------------------------------------------------------------------------
\* Of every envelope a gate is asked about.
THEOREM GatesAlwaysAgree == Spec => []GatesAgree
<1>1. Init => GatesAgree
  BY DEF Init, GatesAgree
<1>2. GatesAgree /\ [Next]_input => GatesAgree'
  <2> SUFFICES ASSUME GatesAgree, [Next]_input
               PROVE  GatesAgree'
    OBVIOUS
  <2>1. CASE CheckEnvelope
    <3>1. PICK e \in Envelopes, valid \in BOOLEAN :
            input' = [kind |-> "envelope", payload |-> valid, envelope |-> e]
      BY <2>1 DEF CheckEnvelope
    <3>2. input'.payload = valid /\ input'.envelope = e
      BY <3>1
    <3>3. ValidEnvelope(e, valid) <=> AdmitsEnvelope(e, valid)
      BY OneGate
    <3> QED
      BY <3>2, <3>3 DEF GatesAgree
  <2>2. CASE CheckAddress \/ CheckData \/ CheckEntry
    <3>1. input'.kind # "envelope"
      BY <2>2 DEF CheckAddress, CheckData, CheckEntry
    <3> QED
      BY <3>1 DEF GatesAgree
  <2>3. CASE UNCHANGED input
    BY <2>3 DEF GatesAgree
  <2> QED
    BY <2>1, <2>2, <2>3 DEF Next
<1> QED
  BY <1>1, <1>2, PTL DEF Spec

\* Of every payload a gate is asked about.
THEOREM WrittenAlwaysAdmitted == Spec => []WrittenIsAdmitted
<1>1. Init => WrittenIsAdmitted
  BY DEF Init, WrittenIsAdmitted
<1>2. WrittenIsAdmitted /\ [Next]_input => WrittenIsAdmitted'
  <2> SUFFICES ASSUME WrittenIsAdmitted, [Next]_input
               PROVE  WrittenIsAdmitted'
    OBVIOUS
  <2>1. CASE CheckData
    <3>1. PICK data \in Payloads : input' = [kind |-> "data", data |-> data]
      BY <2>1 DEF CheckData
    <3>2. input'.data = data
      BY <3>1
    <3>3. /\ data \in Data
          /\ data.final_url.chars <= data.final_url.bytes
          /\ data.content.stripped <= data.content.chars
          /\ MAX_URL_CHARS \in Nat /\ MAX_CONTENT_TYPE_CHARS \in Nat /\ MAX_CONTENT \in Nat
      BY RulesAssumption
    <3>4. Built(data) /\ AcceptsData(data) => AdmitsData(data)
      BY <3>3, WrittenDataAdmitted
    <3> QED
      BY <3>2, <3>4 DEF WrittenIsAdmitted
  <2>2. CASE CheckAddress \/ CheckEnvelope \/ CheckEntry
    <3>1. input'.kind # "data"
      BY <2>2 DEF CheckAddress, CheckEnvelope, CheckEntry
    <3> QED
      BY <3>1 DEF WrittenIsAdmitted
  <2>3. CASE UNCHANGED input
    BY <2>3 DEF WrittenIsAdmitted
  <2> QED
    BY <2>1, <2>2, <2>3 DEF Next
<1> QED
  BY <1>1, <1>2, PTL DEF Spec

--------------------------------------------------------------------------------
(***************************************************************************)
(* The form of an entry.  The reader is recursive: what its functions      *)
(* compute is found with the least number at which it would be wrong.      *)
(* Then, outwards: the characters of a quoted value, the line of a key or  *)
(* of an item, the lines of a key, the front matter, the entry.            *)
(***************************************************************************)
\* A set of numbers that is not empty has a least one: what stands in for
\* induction over the recursion of the reader.
LEMMA LeastElement ==
    ASSUME NEW T, T \subseteq Nat, T # {}
    PROVE  \E n \in T : \A m \in T : n <= m
<1>1. \E R : IsWellFoundedOn(R, Nat) /\ \A x, y \in Nat : x < y => <<x, y>> \in R
  <2> DEFINE Less == OpToRel(<, Nat)
  <2>1. IsWellFoundedOn(Less, Nat)
    BY NatLessThanWellFounded
  <2>2. \A x, y \in Nat : x < y => <<x, y>> \in Less
    BY DEF OpToRel
  <2> HIDE DEF Less
  <2> QED
    BY <2>1, <2>2
<1>2. PICK R : IsWellFoundedOn(R, Nat) /\ \A x, y \in Nat : x < y => <<x, y>> \in R
  BY <1>1
<1>3. PICK n \in T : \A m \in T : ~(<<m, n>> \in R)
  <2>1. IsWellFoundedOn(R, Nat)
    BY <1>2
  <2> QED
    BY <2>1, WFMin, Zenon
<1>4. ASSUME NEW m \in T
      PROVE  n <= m
  <2>1. m \in Nat /\ n \in Nat
    OBVIOUS
  <2>2. ~(m < n)
    BY <1>2, <1>3, <2>1
  <2> QED
    BY <2>1, <2>2
<1> QED
  BY <1>4

\* A set that has zero and with each number below a bound the next one has
\* all numbers up to the bound.
LEMMA Upward ==
    ASSUME NEW S, NEW bound \in Nat, 0 \in S, \A n \in 0 .. bound - 1 : n \in S => n + 1 \in S
    PROVE  \A n \in 0..bound : n \in S
<1> SUFFICES ASSUME NEW k \in 0..bound, k \notin S
             PROVE  FALSE
  OBVIOUS
<1> DEFINE Bad == {n \in 0..bound : n \notin S}
<1>1. Bad \subseteq Nat /\ Bad # {}
  OBVIOUS
<1>2. \E m \in Bad : \A n \in Bad : m <= n
  <2> HIDE DEF Bad
  <2> QED
    BY <1>1, LeastElement, Zenon
<1>3. PICK m \in Bad : \A n \in Bad : m <= n
  BY <1>2
<1>4. m # 0 /\ m \in 0..bound /\ m \notin S
  OBVIOUS
<1>5. m - 1 \in 0 .. bound - 1 /\ m - 1 \notin Bad
  BY <1>3, <1>4
<1>6. m - 1 \in S
  BY <1>5
<1>7. (m - 1) + 1 \in S
  BY <1>5, <1>6
<1> QED
  BY <1>4, <1>7

--------------------------------------------------------------------------------
\* Nothing has been taken of a value.
Nothing == [escaped |-> FALSE, out |-> <<>>]

\* Taken is what its recursion says.
LEMMA Taking ==
    ASSUME NEW body, Len(body) \in Nat
    PROVE  /\ Taken(body)[0] = Nothing
           /\ \A n \in 1..Len(body) : Taken(body)[n] = Take(Taken(body)[n - 1], body[n])
<1> DEFINE Ends(f, n) == IF n = 0 THEN Nothing ELSE Take(f[n - 1], body[n])
           Good == {k \in Nat : \E f : f = [n \in 0..k |-> Ends(f, n)]}
<1>1. 0 \in Good
  <2> DEFINE f == [n \in 0..0 |-> Nothing]
  <2>1. f = [n \in 0..0 |-> Ends(f, n)]
    <3> HIDE DEF Nothing
    <3> QED
      OBVIOUS
  <2>2. \E h : h = [n \in 0..0 |-> Ends(h, n)]
    <3> HIDE DEF f
    <3> QED
      BY <2>1
  <2> QED
    BY <2>2
<1>2. ASSUME NEW k \in 0 .. Len(body) - 1, k \in Good
      PROVE  k + 1 \in Good
  <2>1. PICK f : f = [n \in 0..k |-> Ends(f, n)]
    BY <1>2
  <2> DEFINE g == [n \in 0..k + 1 |-> IF n <= k THEN f[n] ELSE Take(f[k], body[k + 1])]
  <2>2. ASSUME NEW n \in 0..k + 1
        PROVE  g[n] = Ends(g, n)
    <3>1. CASE n = 0
      <4>1. g[0] = f[0] /\ f[0] = Nothing
        BY <2>1
      <4> QED
        BY <3>1, <4>1
    <3>2. CASE n \in 1..k
      <4>1. g[n] = f[n] /\ f[n] = Take(f[n - 1], body[n]) /\ g[n - 1] = f[n - 1]
        BY <2>1, <3>2
      <4> QED
        BY <3>2, <4>1
    <3>3. CASE n = k + 1
      <4>1. g[n] = Take(f[k], body[k + 1]) /\ n - 1 = k /\ g[k] = f[k] /\ n # 0
        BY <3>3
      <4> QED
        BY <3>3, <4>1
    <3> QED
      BY <3>1, <3>2, <3>3
  <2>3. g = [n \in 0..k + 1 |-> Ends(g, n)]
    BY <2>2
  <2>4. \E h : h = [n \in 0..k + 1 |-> Ends(h, n)]
    <3> HIDE DEF g
    <3> QED
      BY <2>3
  <2> QED
    BY <2>4
<1>3. Len(body) \in Good
  <2> HIDE DEF Good
  <2>1. \A k \in 0..Len(body) : k \in Good
    BY <1>1, <1>2, Upward, Zenon
  <2> QED
    BY <2>1
<1>4. \E f : f = [n \in 0..Len(body) |-> Ends(f, n)]
  BY <1>3
<1> DEFINE t == Taken(body)
<1>5. t = [n \in 0..Len(body) |-> Ends(t, n)]
  BY <1>4 DEF Taken, Nothing
<1> HIDE DEF t
<1> QED
  BY <1>5 DEF t

--------------------------------------------------------------------------------
\* Where each part of a flattened sequence begins: at[i] characters or lines
\* come before and with part i.
Placed(flat, parts, at) ==
    /\ at \in [0..Len(parts) -> Nat]
    /\ at[0] = 0
    /\ at[Len(parts)] = Len(flat)
    /\ \A i \in 1..Len(parts) :
         /\ at[i] = at[i - 1] + Len(parts[i])
         /\ at[i] <= Len(flat)
         /\ \A k \in 1..Len(parts[i]) : flat[at[i - 1] + k] = parts[i][k]

\* One text after another.
Joined(s, t) == s \o t

\* FlattenSeq joins one part after the other: f[i] is the text of the first i.
LEMMA Concatenating ==
    ASSUME NEW T, NEW parts \in Seq(Seq(T)), parts # <<>>
    PROVE  \E f : /\ f \in [1..Len(parts) -> Seq(T)]
                  /\ f[1] = parts[1]
                  /\ \A i \in 2..Len(parts) : f[i] = Joined(f[i - 1], parts[i])
                  /\ FlattenSeq(parts) = f[Len(parts)]
<1> DEFINE N == Len(parts)
           Ends(f, n) == IF n = 1 THEN parts[1] ELSE Joined(f[n - 1], parts[n])
           Good == {k \in Nat : k = 0 \/ \E f : f = [n \in 1..k |-> Ends(f, n)]}
<1>0. N \in Nat /\ N >= 1 /\ \A i \in 1..N : parts[i] \in Seq(T)
  BY EmptySeq, ElementOfSeq
<1> HIDE DEF N
<1>1. 0 \in Good
  OBVIOUS
<1>2. ASSUME NEW k \in 0 .. N - 1, k \in Good
      PROVE  k + 1 \in Good
  <2>1. CASE k = 0
    <3> DEFINE f == [n \in 1..1 |-> parts[1]]
    <3>1. f = [n \in 1..1 |-> Ends(f, n)]
      OBVIOUS
    <3>2. \E h : h = [n \in 1..1 |-> Ends(h, n)]
      <4> HIDE DEF f
      <4> QED
        BY <3>1
    <3> QED
      BY <2>1, <3>2
  <2>2. CASE k # 0
    <3>1. PICK f : f = [n \in 1..k |-> Ends(f, n)]
      BY <1>2, <2>2
    <3> DEFINE g == [n \in 1..k + 1 |-> IF n <= k THEN f[n] ELSE Joined(f[k], parts[k + 1])]
    <3>2. ASSUME NEW n \in 1..k + 1
          PROVE  g[n] = Ends(g, n)
      <4>1. CASE n = 1
        <5>1. g[1] = f[1] /\ f[1] = parts[1]
          BY <2>2, <3>1
        <5> QED
          BY <4>1, <5>1
      <4>2. CASE n \in 2..k
        <5>1. g[n] = f[n] /\ f[n] = Joined(f[n - 1], parts[n]) /\ g[n - 1] = f[n - 1]
          BY <3>1, <4>2
        <5> QED
          BY <4>2, <5>1
      <4>3. CASE n = k + 1
        <5>1. g[n] = Joined(f[k], parts[k + 1]) /\ n - 1 = k /\ g[k] = f[k] /\ n # 1
          BY <2>2, <4>3
        <5> QED
          BY <4>3, <5>1
      <4> QED
        BY <4>1, <4>2, <4>3
    <3>3. g = [n \in 1..k + 1 |-> Ends(g, n)]
      BY <3>2
    <3>4. \E h : h = [n \in 1..k + 1 |-> Ends(h, n)]
      <4> HIDE DEF g
      <4> QED
        BY <3>3
    <3> QED
      BY <3>4
  <2> QED
    BY <2>1, <2>2
<1>3. N \in Good
  <2> HIDE DEF Good, N
  <2>1. \A k \in 0..N : k \in Good
    BY <1>0, <1>1, <1>2, Upward, Zenon
  <2> QED
    BY <1>0, <2>1
<1>4. \E f : f = [n \in 1..N |-> Ends(f, n)]
  BY <1>0, <1>3
<1> DEFINE t == CHOOSE f : f = [i \in 1..Len(parts) |-> IF i = 1 THEN parts[i] ELSE f[i - 1] \o parts[i]]
<1>5. t = [n \in 1..N |-> Ends(t, n)]
  <2>1. \A f : [n \in 1..N |-> Ends(f, n)] = [n \in 1..N |-> IF n = 1 THEN parts[n] ELSE f[n - 1] \o parts[n]]
    <3> HIDE DEF t
    <3> QED
      BY DEF Joined
  <2>2. PICK f : f = [n \in 1..N |-> Ends(f, n)]
    BY <1>4
  <2>3. f = [n \in 1..N |-> IF n = 1 THEN parts[n] ELSE f[n - 1] \o parts[n]]
    BY <2>1, <2>2
  <2>4. t = [n \in 1..N |-> IF n = 1 THEN parts[n] ELSE t[n - 1] \o parts[n]]
    BY <2>3, Zenon DEF N
  <2> QED
    BY <2>1, <2>4, Zenon
<1>6. FlattenSeq(parts) = t[N]
  <2>1. Len(parts) # 0
    BY <1>0 DEF N
  <2> QED
    BY <2>1, Zenon DEF FlattenSeq, N
<1> HIDE DEF t
<1>7. t[1] = parts[1] /\ \A i \in 2..N : t[i] = Joined(t[i - 1], parts[i])
  BY <1>0, <1>5
<1>8. \A i \in 0..N : i \in {k \in Nat : k >= 1 /\ k <= N => t[k] \in Seq(T)}
  <2> DEFINE S == {k \in Nat : k >= 1 /\ k <= N => t[k] \in Seq(T)}
  <2>1. 0 \in S
    OBVIOUS
  <2>2. ASSUME NEW k \in 0 .. N - 1, k \in S
        PROVE  k + 1 \in S
    <3>1. CASE k = 0
      BY <1>0, <1>7, <3>1
    <3>2. CASE k # 0
      <4>1. t[k + 1] = Joined(t[k], parts[k + 1]) /\ t[k] \in Seq(T) /\ parts[k + 1] \in Seq(T)
        BY <1>0, <1>7, <2>2, <3>2
      <4>2. Joined(t[k], parts[k + 1]) \in Seq(T)
        BY <4>1, ConcatProperties DEF Joined
      <4> QED
        BY <4>1, <4>2
    <3> QED
      BY <3>1, <3>2
  <2> HIDE DEF S, N
  <2>3. \A i \in 0..N : i \in S
    BY <1>0, <2>1, <2>2, Upward, Zenon
  <2> QED
    BY <2>3 DEF S
<1>9. t \in [1..N -> Seq(T)]
  <2>1. \A i \in 1..N : t[i] \in Seq(T)
    BY <1>0, <1>8
  <2> QED
    BY <1>5, <2>1
<1> QED
  BY <1>6, <1>7, <1>9, Zenon DEF N

\* Positions in a text of a and then b.
LEMMA Positions ==
    ASSUME NEW a \in Nat, NEW b \in Nat
    PROVE  /\ \A m \in 1..a : m \in 1..a + b /\ m <= a
           /\ \A k \in 1..b : a + k \in 1..a + b /\ ~(a + k <= a) /\ (a + k) - a = k
           /\ \A c \in Nat : a + b <= c => \A k \in 1..b : a + k \in 1..c
OBVIOUS

\* Text f[j] of the first j parts is text f[j - 1] and part j: at[j] is its
\* length.
Laid(f, parts, at, len, N) ==
    /\ N \in Nat /\ N >= 1
    /\ len \in [1..N -> Nat]
    /\ at \in [0..N -> Nat]
    /\ at[0] = 0
    /\ \A i \in 1..N : at[i] = at[i - 1] + len[i]
    /\ \A k \in 1..len[1] : f[1][k] = parts[1][k]
    /\ \A j \in 1 .. N - 1 : /\ \A m \in 1..at[j] : f[j + 1][m] = f[j][m]
                             /\ \A k \in 1..len[j + 1] : f[j + 1][at[j] + k] = parts[j + 1][k]

\* Parts that are laid one after the other stay where they were laid.
LEMMA Laying ==
    ASSUME NEW f, NEW parts, NEW at, NEW len, NEW N, Laid(f, parts, at, len, N)
    PROVE  \A i \in 1..N : at[i] <= at[N] /\ \A k \in 1..len[i] : f[N][at[i - 1] + k] = parts[i][k]
<1> USE DEF Laid
<1> DEFINE In(j, i) == at[i] <= at[j] /\ \A k \in 1..len[i] : f[j][at[i - 1] + k] = parts[i][k]
           S == {n \in Nat : \A i \in 1..n : In(n, i)}
<1>1. 0 \in S
  OBVIOUS
<1>2. ASSUME NEW n \in 0 .. N - 1, n \in S
      PROVE  n + 1 \in S
  <2>1. n \in Nat /\ n + 1 \in 1..N
    OBVIOUS
  <2>2. at[n] \in Nat /\ at[n + 1] \in Nat /\ len[n + 1] \in Nat /\ at[n + 1] = at[n] + len[n + 1]
    <3>1. (n + 1) - 1 = n /\ n \in 0..N /\ n + 1 \in 0..N
      BY <2>1
    <3> QED
      BY <2>1, <3>1
  <2>3. In(n + 1, n + 1)
    <3>1. ASSUME NEW k \in 1..len[n + 1]
          PROVE  f[n + 1][at[n] + k] = parts[n + 1][k]
      <4>1. CASE n = 0
        BY <4>1
      <4>2. CASE n # 0
        <5>1. n \in 1 .. N - 1
          BY <4>2
        <5> QED
          BY <5>1
      <4> QED
        BY <4>1, <4>2
    <3>2. (n + 1) - 1 = n
      BY <2>1
    <3> QED
      BY <2>2, <3>1, <3>2
  <2>4. ASSUME NEW i \in 1..n
        PROVE  In(n + 1, i)
    <3>1. In(n, i)
      BY <1>2
    <3>2. n \in 1 .. N - 1 /\ i \in 0..N /\ i - 1 \in 0..N /\ i \in 1..N
      BY <2>1
    <3>3. at[i] \in Nat /\ at[i - 1] \in Nat /\ len[i] \in Nat /\ at[i] = at[i - 1] + len[i]
      BY <3>2
    <3>4. ASSUME NEW k \in 1..len[i]
          PROVE  f[n + 1][at[i - 1] + k] = parts[i][k]
      <4>1. at[i - 1] + k \in 1..at[n]
        <5>1. at[i - 1] + len[i] <= at[n]
          BY <3>1, <3>3
        <5>2. \A c \in Nat : at[i - 1] + len[i] <= c =>
                \A j \in 1..len[i] : at[i - 1] + j \in 1..c
          BY <3>3, Positions, Zenon
        <5> QED
          BY <2>2, <5>1, <5>2, Zenon
      <4>2. f[n][at[i - 1] + k] = parts[i][k]
        BY <3>1
      <4>3. \A m \in 1..at[n] : f[n + 1][m] = f[n][m]
        BY <3>2
      <4> HIDE DEF Laid
      <4> QED
        BY <4>1, <4>2, <4>3, Zenon
    <3>5. at[i] <= at[n + 1]
      <4>1. at[i] <= at[n] /\ at[i] \in Nat
        BY <3>1, <3>3
      <4> HIDE DEF Laid
      <4> QED
        BY <2>2, <4>1
    <3> QED
      BY <3>4, <3>5
  <2>5. \A i \in 1..n + 1 : i \in 1..n \/ i = n + 1
    BY <2>1
  <2> HIDE DEF In
  <2>6. \A i \in 1..n + 1 : In(n + 1, i)
    BY <2>3, <2>4, <2>5
  <2> QED
    BY <2>1, <2>6
<1>3. N \in S
  <2> HIDE DEF S
  <2>1. \A j \in 0..N : j \in S
    BY <1>1, <1>2, Upward, Zenon
  <2> QED
    BY <2>1
<1> QED
  BY <1>3

\* Every part of a flattened sequence is found where it was placed.
LEMMA Flattening ==
    ASSUME NEW T, NEW parts \in Seq(Seq(T))
    PROVE  FlattenSeq(parts) \in Seq(T) /\ \E at : Placed(FlattenSeq(parts), parts, at)
<1>1. CASE parts = <<>>
  <2>1. FlattenSeq(parts) = <<>> /\ Len(parts) = 0
    BY <1>1 DEF FlattenSeq
  <2>2. Placed(<<>>, parts, [i \in 0..0 |-> 0])
    BY <2>1 DEF Placed
  <2> QED
    BY <2>1, <2>2
<1>2. CASE parts # <<>>
  <2>1. PICK f : /\ f \in [1..Len(parts) -> Seq(T)]
                 /\ f[1] = parts[1]
                 /\ \A i \in 2..Len(parts) : f[i] = Joined(f[i - 1], parts[i])
                 /\ FlattenSeq(parts) = f[Len(parts)]
    BY <1>2, Concatenating
  <2> DEFINE N == Len(parts)
             len == [i \in 1..N |-> Len(parts[i])]
             at == [i \in 0..N |-> IF i = 0 THEN 0 ELSE Len(f[i])]
  <2>2. N \in Nat /\ N >= 1 /\ \A i \in 1..N : parts[i] \in Seq(T) /\ Len(parts[i]) \in Nat
    BY <1>2, EmptySeq, ElementOfSeq, LenProperties
  <2>3. \A i \in 1..N : f[i] \in Seq(T) /\ Len(f[i]) \in Nat
    BY <2>1, LenProperties
  <2>4. at \in [0..N -> Nat] /\ at[0] = 0 /\ \A i \in 1..N : at[i] = Len(f[i])
    BY <2>2, <2>3
  <2>5. len \in [1..N -> Nat] /\ \A i \in 1..N : len[i] = Len(parts[i])
    BY <2>2
  <2>6. f[1] = parts[1] /\ FlattenSeq(parts) = f[N] /\ \A i \in 2..N : f[i] = Joined(f[i - 1], parts[i])
    BY <2>1
  <2> HIDE DEF at, len, N
  <2>7. ASSUME NEW j \in 1 .. N - 1
        PROVE  /\ at[j + 1] = at[j] + len[j + 1]
               /\ \A m \in 1..at[j] : f[j + 1][m] = f[j][m]
               /\ \A k \in 1..len[j + 1] : f[j + 1][at[j] + k] = parts[j + 1][k]
    <3>1. f[j + 1] = Joined(f[j], parts[j + 1])
      <4>1. j + 1 \in 2..N /\ (j + 1) - 1 = j
        BY <2>2
      <4> QED
        BY <2>6, <4>1
    <3>2. f[j] \in Seq(T) /\ parts[j + 1] \in Seq(T)
      BY <2>2, <2>3
    <3>3. /\ Len(Joined(f[j], parts[j + 1])) = Len(f[j]) + Len(parts[j + 1])
          /\ \A i \in 1..Len(f[j]) + Len(parts[j + 1]) :
               Joined(f[j], parts[j + 1])[i] = IF i <= Len(f[j]) THEN f[j][i] ELSE parts[j + 1][i - Len(f[j])]
      BY <3>2, ConcatProperties DEF Joined
    <3>4. j \in 0..N /\ j \in 1..N /\ j + 1 \in 0..N /\ j + 1 \in 1..N
      BY <2>2
    <3>5. at[j] = Len(f[j]) /\ at[j + 1] = Len(f[j + 1]) /\ at[j] \in Nat
          /\ len[j + 1] \in Nat /\ len[j + 1] = Len(parts[j + 1])
      BY <2>4, <2>5, <3>4
    <3>6. at[j + 1] = at[j] + len[j + 1]
      BY <3>1, <3>3, <3>5
    <3>7. \A i \in 1..at[j] + len[j + 1] :
            f[j + 1][i] = IF i <= at[j] THEN f[j][i] ELSE parts[j + 1][i - at[j]]
      BY <3>1, <3>3, <3>5
    <3>8. ASSUME NEW m \in 1..at[j]
          PROVE  f[j + 1][m] = f[j][m]
      <4>1. m \in 1..at[j] + len[j + 1] /\ m <= at[j]
        <5>1. at[j] \in Nat /\ len[j + 1] \in Nat
          BY <3>5
        <5> QED
          BY <5>1, Positions, Zenon
      <4>2. f[j + 1][m] = IF m <= at[j] THEN f[j][m] ELSE parts[j + 1][m - at[j]]
        BY <3>7, <4>1, Zenon
      <4> QED
        BY <4>1, <4>2, Zenon
    <3>9. ASSUME NEW k \in 1..len[j + 1]
          PROVE  f[j + 1][at[j] + k] = parts[j + 1][k]
      <4>1. at[j] + k \in 1..at[j] + len[j + 1] /\ ~(at[j] + k <= at[j]) /\ (at[j] + k) - at[j] = k
        <5>1. at[j] \in Nat /\ len[j + 1] \in Nat
          BY <3>5
        <5> QED
          BY <5>1, Positions, Zenon
      <4>2. f[j + 1][at[j] + k] = IF at[j] + k <= at[j] THEN f[j][at[j] + k]
                                  ELSE parts[j + 1][(at[j] + k) - at[j]]
        BY <3>7, <4>1, Zenon
      <4> QED
        BY <4>1, <4>2, Zenon
    <3> QED
      BY <3>6, <3>8, <3>9
  <2>8. \A i \in 1..N : at[i] = at[i - 1] + len[i]
    <3>1. at[1] = at[0] + len[1]
      BY <2>2, <2>4, <2>5, <2>6
    <3>2. ASSUME NEW i \in 2..N
          PROVE  at[i] = at[i - 1] + len[i]
      <4>1. i - 1 \in 1 .. N - 1 /\ (i - 1) + 1 = i
        BY <2>2
      <4> QED
        BY <2>7, <4>1
    <3>3. \A i \in 1..N : i = 1 \/ i \in 2..N
      BY <2>2
    <3> QED
      BY <3>1, <3>2, <3>3
  <2>9. \A i \in 1..N : at[i] <= at[N] /\ \A k \in 1..len[i] : f[N][at[i - 1] + k] = parts[i][k]
    <3>1. \A k \in 1..len[1] : f[1][k] = parts[1][k]
      BY <2>6
    <3>2. at[0] = 0 /\ at \in [0..N -> Nat] /\ len \in [1..N -> Nat] /\ N \in Nat /\ N >= 1
      BY <2>2, <2>4, <2>5
    <3>3. \A j \in 1 .. N - 1 : /\ \A m \in 1..at[j] : f[j + 1][m] = f[j][m]
                                /\ \A k \in 1..len[j + 1] : f[j + 1][at[j] + k] = parts[j + 1][k]
      BY <2>7
    <3>4. Laid(f, parts, at, len, N)
      BY <2>8, <3>1, <3>2, <3>3, Zenon DEF Laid
    <3> QED
      BY <3>4, Laying, SMT
  <2>10. FlattenSeq(parts) \in Seq(T) /\ at[N] = Len(FlattenSeq(parts))
    BY <2>2, <2>3, <2>4, <2>6
  <2>11. Placed(FlattenSeq(parts), parts, at)
    BY <2>4, <2>5, <2>6, <2>8, <2>9, <2>10 DEF Placed, N
  <2> QED
    BY <2>10, <2>11
<1> QED
  BY <1>1, <1>2

\* Part i + 1 of a flattened sequence.
LEMMA Part ==
    ASSUME NEW flat, NEW parts, NEW at, Placed(flat, parts, at), Len(parts) \in Nat,
           NEW i \in 0 .. Len(parts) - 1
    PROVE  /\ at[i] \in Nat
           /\ at[i + 1] = at[i] + Len(parts[i + 1])
           /\ at[i + 1] <= Len(flat)
           /\ \A k \in 1..Len(parts[i + 1]) : flat[at[i] + k] = parts[i + 1][k]
<1>1. i + 1 \in 1..Len(parts) /\ (i + 1) - 1 = i /\ i \in 0..Len(parts)
  OBVIOUS
<1> QED
  BY <1>1 DEF Placed

--------------------------------------------------------------------------------
\* A beginning of a sequence and the next element are the longer beginning.
LEMMA Growing ==
    ASSUME NEW T, NEW s \in Seq(T), NEW n \in 0 .. Len(s) - 1
    PROVE  Append(SubSeq(s, 1, n), s[n + 1]) = SubSeq(s, 1, n + 1)
<1> DEFINE a == SubSeq(s, 1, n)
           b == SubSeq(s, 1, n + 1)
<1>1. Len(s) \in Nat /\ \A i \in 1..Len(s) : s[i] \in T
  BY LenProperties, ElementOfSeq
<1>2. n \in Nat /\ n + 1 \in 1..Len(s) /\ \A i \in 1 .. n + 1 : i \in 1..Len(s)
  BY <1>1
<1>3. a \in Seq(T) /\ Len(a) = n /\ \A i \in 1..n : a[i] = s[i]
  <2>1. \A i \in 1..n : s[i] \in T
    BY <1>1, <1>2
  <2> QED
    BY <1>2, <2>1, SubSeqProperties
<1>4. b \in Seq(T) /\ Len(b) = n + 1 /\ \A i \in 1 .. n + 1 : b[i] = s[i]
  <2>1. \A i \in 1 .. n + 1 : s[i] \in T
    BY <1>1, <1>2
  <2> QED
    BY <1>2, <2>1, SubSeqProperties
<1>5. s[n + 1] \in T
  BY <1>1, <1>2
<1> HIDE DEF a, b
<1>6. /\ Append(a, s[n + 1]) \in Seq(T)
      /\ Len(Append(a, s[n + 1])) = n + 1
      /\ \A i \in 1 .. n + 1 : Append(a, s[n + 1])[i] = IF i <= n THEN a[i] ELSE s[n + 1]
  BY <1>2, <1>3, <1>5, AppendProperties
<1>7. \A i \in 1 .. n + 1 : Append(a, s[n + 1])[i] = b[i]
  BY <1>2, <1>3, <1>4, <1>6
<1>8. Append(a, s[n + 1]) = b
  BY <1>4, <1>6, <1>7, SeqEqual
<1> QED
  BY <1>8 DEF a, b

Escapes(value) == FlattenSeq([i \in DOMAIN value |-> Escaped(value[i])])

\* What is escaped in writing is unescaped in reading: after the characters
\* that stand for the first i of a value these are what has been taken.
LEMMA EscapesRead ==
    ASSUME NEW v \in Line
    PROVE  Escapes(v) \in Line /\ Unescape(Escapes(v)) = v
<1> DEFINE parts == [i \in DOMAIN v |-> Escaped(v[i])]
           b == Escapes(v)
<1>1. /\ v \in Seq(Char) /\ Len(v) \in Nat /\ DOMAIN v = 1..Len(v)
      /\ \A i \in 1..Len(v) : v[i] \in Char
  BY LenProperties, ElementOfSeq DEF Line
<1>2. "bs" \in Char
  BY CharAssumption
<1>3. ASSUME NEW c \in Char
      PROVE  /\ Escaped(c) \in Seq(Char)
             /\ c \in {"bs", "dq"} => Len(Escaped(c)) = 2 /\ Escaped(c)[1] = "bs" /\ Escaped(c)[2] = c
             /\ c \notin {"bs", "dq"} => Len(Escaped(c)) = 1 /\ Escaped(c)[1] = c
  BY <1>2 DEF Escaped
<1>4. /\ parts \in Seq(Seq(Char)) /\ Len(parts) = Len(v)
      /\ \A i \in 1..Len(v) : parts[i] = Escaped(v[i])
  <2> DEFINE N == Len(v)
  <2>1. \A i \in 1..N : Escaped(v[i]) \in Seq(Char)
    BY <1>1, <1>3
  <2>2. parts = [i \in 1..N |-> Escaped(v[i])] /\ N \in Nat
    BY <1>1
  <2> HIDE DEF N
  <2>3. parts \in [1..N -> Seq(Char)]
    BY <2>1, <2>2
  <2> HIDE DEF parts
  <2>4. parts \in Seq(Seq(Char)) /\ Len(parts) = N
    BY <2>2, <2>3
  <2> QED
    BY <2>2, <2>4 DEF N
<1>5. b = FlattenSeq(parts)
  BY DEF Escapes
<1> HIDE DEF parts, b
<1>6. PICK at : b \in Seq(Char) /\ Placed(b, parts, at)
  BY <1>4, <1>5, Flattening
<1> DEFINE Kept(i) == [escaped |-> FALSE, out |-> SubSeq(v, 1, i)]
           S == {i \in Nat : Taken(b)[at[i]] = Kept(i)}
<1>7. /\ Len(b) \in Nat /\ Taken(b)[0] = Nothing
      /\ \A n \in 1..Len(b) : Taken(b)[n] = Take(Taken(b)[n - 1], b[n])
  BY <1>6, LenProperties, Taking
<1>8. 0 \in S
  <2>1. SubSeq(v, 1, 0) = <<>>
    BY SubSeqEmpty
  <2> QED
    BY <1>6, <1>7, <2>1 DEF Placed, Nothing
<1>9. ASSUME NEW i \in 0 .. Len(v) - 1, i \in S
      PROVE  i + 1 \in S
  <2> DEFINE p == at[i]
             c == v[i + 1]
             out == SubSeq(v, 1, i)
  <2>1. i + 1 \in 1..Len(v) /\ (i + 1) - 1 = i /\ i \in 0..Len(v)
    BY <1>1
  <2>2. /\ p \in Nat
        /\ at[i + 1] = p + Len(Escaped(c))
        /\ at[i + 1] <= Len(b)
        /\ \A k \in 1..Len(Escaped(c)) : b[p + k] = Escaped(c)[k]
    <3>1. i \in 0 .. Len(parts) - 1 /\ Len(parts) \in Nat
      BY <1>1, <1>4
    <3>2. parts[i + 1] = Escaped(c)
      BY <1>4, <2>1
    <3>3. /\ at[i] \in Nat
          /\ at[i + 1] = at[i] + Len(parts[i + 1])
          /\ at[i + 1] <= Len(b)
          /\ \A k \in 1..Len(parts[i + 1]) : b[at[i] + k] = parts[i + 1][k]
      BY <1>6, <3>1, Part
    <3> HIDE DEF c
    <3> QED
      BY <3>2, <3>3
  <2>3. Taken(b)[p] = [escaped |-> FALSE, out |-> out]
    BY <1>9
  <2>4. c \in Char /\ Append(out, c) = SubSeq(v, 1, i + 1)
    BY <1>1, <2>1, Growing
  <2> HIDE DEF p, c, out
  <2>5. Taken(b)[at[i + 1]] = [escaped |-> FALSE, out |-> Append(out, c)]
    <3>1. CASE c \in {"bs", "dq"}
      <4>1. at[i + 1] = p + 2 /\ b[p + 1] = "bs" /\ b[p + 2] = c
        <5>1. Len(Escaped(c)) = 2 /\ Escaped(c)[1] = "bs" /\ Escaped(c)[2] = c
          BY <1>3, <2>4, <3>1
        <5> QED
          BY <2>2, <5>1
      <4>2. p + 1 \in 1..Len(b) /\ p + 2 \in 1..Len(b) /\ (p + 1) - 1 = p /\ (p + 2) - 1 = p + 1
        BY <1>7, <2>2, <4>1
      <4>3. Taken(b)[p + 1] = Take(Taken(b)[p], "bs") /\ Taken(b)[p + 2] = Take(Taken(b)[p + 1], c)
        BY <1>7, <4>1, <4>2
      <4>4. Taken(b)[p + 1] = [escaped |-> TRUE, out |-> out]
        BY <2>3, <4>3 DEF Take
      <4>5. Taken(b)[p + 2] = [escaped |-> FALSE, out |-> Append(out, c)]
        <5>1. Take([escaped |-> TRUE, out |-> out], c) = [escaped |-> FALSE, out |-> Append(out, c)]
          BY DEF Take
        <5> QED
          BY <4>3, <4>4, <5>1
      <4> QED
        BY <4>1, <4>5
    <3>2. CASE c \notin {"bs", "dq"}
      <4>1. at[i + 1] = p + 1 /\ b[p + 1] = c
        <5>1. Len(Escaped(c)) = 1 /\ Escaped(c)[1] = c
          BY <1>3, <2>4, <3>2
        <5> QED
          BY <2>2, <5>1
      <4>2. p + 1 \in 1..Len(b) /\ (p + 1) - 1 = p
        BY <1>7, <2>2, <4>1
      <4>3. Taken(b)[p + 1] = Take(Taken(b)[p], c)
        BY <1>7, <4>1, <4>2
      <4>4. Taken(b)[p + 1] = [escaped |-> FALSE, out |-> Append(out, c)]
        BY <2>3, <3>2, <4>3 DEF Take
      <4> QED
        BY <4>1, <4>4
    <3> QED
      BY <3>1, <3>2
  <2> QED
    BY <2>1, <2>4, <2>5
<1>10. Len(v) \in S
  <2> HIDE DEF S
  <2>1. \A i \in 0..Len(v) : i \in S
    BY <1>1, <1>8, <1>9, Upward, Zenon
  <2> QED
    BY <1>1, <2>1
<1>11. Taken(b)[Len(b)] = [escaped |-> FALSE, out |-> v]
  <2>1. at[Len(v)] = Len(b)
    BY <1>4, <1>6 DEF Placed
  <2>2. SubSeq(v, 1, Len(v)) = v
    BY <1>1, SubSeqFull
  <2> QED
    BY <1>10, <2>1, <2>2
<1>12. Unescape(b) = v
  BY <1>11 DEF Unescape
<1> QED
  BY <1>6, <1>12 DEF b, Line

--------------------------------------------------------------------------------
\* Three parts of a line, however they are grouped.
LEMMA Regrouped ==
    ASSUME NEW a \in Seq(Char), NEW b \in Seq(Char), NEW c \in Seq(Char)
    PROVE  (a \o b) \o c = a \o (b \o c)
BY ConcatAssociative

\* Text u is s and then t.
Halved(u, s, t) ==
    /\ Len(s) \in Nat /\ Len(t) \in Nat
    /\ Len(u) = Len(s) + Len(t)
    /\ \A i \in 1..Len(s) : u[i] = s[i]
    /\ \A i \in 1..Len(t) : u[Len(s) + i] = t[i]
    /\ SubSeq(u, 1, Len(s)) = s
    /\ SubSeq(u, Len(s) + 1, Len(u)) = t

\* A concatenation is its two halves.
LEMMA Halves ==
    ASSUME NEW T, NEW s \in Seq(T), NEW t \in Seq(T)
    PROVE  s \o t \in Seq(T) /\ Halved(s \o t, s, t)
<1> DEFINE m == Len(s)
           n == Len(t)
           u == s \o t
<1>1. u \in Seq(T) /\ Len(u) = m + n /\ m \in Nat /\ n \in Nat
      /\ \A i \in 1 .. m + n : u[i] = IF i <= m THEN s[i] ELSE t[i - m]
  BY ConcatProperties, LenProperties
<1>2. \A i \in 1..m + n : u[i] \in T
  BY <1>1, ElementOfSeq
<1> HIDE DEF m, n, u
<1>3. \A i \in 1..m : i \in 1..m + n /\ i <= m
  BY <1>1, Positions, Zenon
<1>4. \A i \in 1..n : m + i \in 1..m + n /\ ~(m + i <= m) /\ (m + i) - m = i
  BY <1>1, Positions, Zenon
<1>5. \A i \in 1..m : u[i] = s[i]
  BY <1>1, <1>3
<1>6. \A i \in 1..n : u[m + i] = t[i]
  BY <1>1, <1>4
<1>7. SubSeq(u, 1, m) = s
  <2>1. \A i \in 1..m : u[i] \in T
    BY <1>2, <1>3
  <2>2. /\ SubSeq(u, 1, m) \in Seq(T)
        /\ Len(SubSeq(u, 1, m)) = IF 1 <= m THEN (m - 1) + 1 ELSE 0
        /\ \A i \in 1 .. (m - 1) + 1 : SubSeq(u, 1, m)[i] = u[(1 + i) - 1]
    BY <1>1, <2>1, SubSeqProperties
  <2>3. Len(SubSeq(u, 1, m)) = m /\ \A i \in 1..m : SubSeq(u, 1, m)[i] = u[i]
    BY <1>1, <2>2
  <2>4. \A i \in 1..m : SubSeq(u, 1, m)[i] = s[i]
    BY <1>5, <2>3
  <2> QED
    BY <2>2, <2>3, <2>4, SeqEqual DEF m
<1>8. SubSeq(u, m + 1, m + n) = t
  <2>1. \A i \in m + 1 .. m + n : u[i] \in T
    BY <1>1, <1>2
  <2> DEFINE w == SubSeq(u, m + 1, m + n)
  <2>2. /\ w \in Seq(T)
        /\ Len(w) = IF m + 1 <= m + n THEN ((m + n) - (m + 1)) + 1 ELSE 0
        /\ \A i \in 1 .. ((m + n) - (m + 1)) + 1 : w[i] = u[((m + 1) + i) - 1]
    BY <1>1, <2>1, SubSeqProperties
  <2>3. Len(w) = n /\ \A i \in 1..n : w[i] = u[m + i]
    BY <1>1, <2>2
  <2>4. \A i \in 1..n : w[i] = t[i]
    BY <1>6, <2>3
  <2> HIDE DEF w
  <2>5. w = t
    BY <2>2, <2>3, <2>4, SeqEqual DEF n
  <2> QED
    BY <2>5 DEF w
<1> QED
  BY <1>1, <1>5, <1>6, <1>7, <1>8 DEF m, n, u, Halved

\* What is left of a line that begins with characters to be taken off and does
\* not end with one.
LEMMA Stripping ==
    ASSUME NEW T, NEW line \in Seq(T), NEW char, NEW i \in 1..Len(line),
           line[i] # char, line[Len(line)] # char, \A j \in 1 .. i - 1 : line[j] = char
    PROVE  Strip(line, char) = SubSeq(line, i, Len(line))
<1> DEFINE kept == {k \in DOMAIN line : line[k] # char}
<1>1. Len(line) \in Nat /\ DOMAIN line = 1..Len(line)
  BY LenProperties
<1>2. i \in kept /\ Len(line) \in kept /\ kept # {}
  BY <1>1
<1>3. \A k \in kept : k \in Nat /\ i <= k /\ Len(line) >= k
  BY <1>1
<1>4. (CHOOSE k \in kept : \A j \in kept : k <= j) = i
  <2> HIDE DEF kept
  <2>1. \A k \in kept : (\A j \in kept : k <= j) => k = i
    BY <1>2, <1>3
  <2> QED
    BY <1>2, <1>3, <2>1
<1>5. (CHOOSE k \in kept : \A j \in kept : k >= j) = Len(line)
  <2> HIDE DEF kept
  <2>1. ASSUME NEW k \in kept, \A j \in kept : k >= j
        PROVE  k = Len(line)
    <3>1. k >= Len(line) /\ Len(line) >= k /\ k \in Nat
      BY <1>2, <1>3, <2>1
    <3>2. \A m, n \in Nat : m >= n /\ n >= m => m = n
      OBVIOUS
    <3> QED
      BY <1>1, <3>1, <3>2, Zenon
  <2> QED
    BY <1>2, <1>3, <2>1
<1> QED
  BY <1>2, <1>4, <1>5 DEF Strip

\* Nothing is taken off an empty text.
LEMMA StrippedEmpty ==
    ASSUME NEW char
    PROVE  Strip(<<>>, char) = <<>>
BY DEF Strip

\* A line that neither begins nor ends so is left as it is.
LEMMA Unstripped ==
    ASSUME NEW T, NEW line \in Seq(T), NEW char, line # <<>>, line[1] # char, line[Len(line)] # char
    PROVE  Strip(line, char) = line
<1>1. 1 \in 1..Len(line)
  BY EmptySeq
<1>2. SubSeq(line, 1, Len(line)) = line
  BY SubSeqFull
<1>3. \A j \in 1 .. 1 - 1 : line[j] = char
  OBVIOUS
<1> QED
  BY <1>1, <1>2, <1>3, Stripping

\* Where a character is first found (the partition and split of loads).
LEMMA Firsts ==
    ASSUME NEW line \in Line, NEW char, NEW i \in 1..Len(line),
           line[i] = char, \A j \in 1 .. i - 1 : line[j] # char
    PROVE  First(line, char) = i
<1>1. Len(line) \in Nat /\ DOMAIN line = 1..Len(line)
  BY LenProperties DEF Line
<1>2. ASSUME NEW k \in DOMAIN line, line[k] = char, \A j \in 1 .. k - 1 : line[j] # char
      PROVE  k = i
  <2>1. ~(i \in 1 .. k - 1) /\ ~(k \in 1 .. i - 1)
    BY <1>2
  <2> QED
    BY <1>1, <2>1
<1> QED
  BY <1>1, <1>2 DEF First

--------------------------------------------------------------------------------
\* A quoted value is a line between two quotes.
LEMMA Quoted ==
    ASSUME NEW v \in Line
    PROVE  /\ quote(v) \in Line
           /\ Len(quote(v)) \in Nat /\ Len(quote(v)) >= 2 /\ quote(v) # <<>>
           /\ quote(v)[1] = "dq" /\ quote(v)[Len(quote(v))] = "dq"
           /\ SubSeq(quote(v), 2, Len(quote(v)) - 1) = Escapes(v)
<1> DEFINE a == <<"dq">>
           e == Escapes(v)
           x == a \o e
           q == x \o a
<1>1. e \in Seq(Char)
  BY EscapesRead DEF Line
<1>2. a \in Seq(Char) /\ Len(a) = 1 /\ a[1] = "dq"
  <2>1. "dq" \in Char
    BY CharAssumption
  <2> QED
    BY <2>1
<1>3. quote(v) = q
  BY DEF quote, Escapes
<1> HIDE DEF a, e
<1>4. /\ x \in Seq(Char) /\ Len(x) = Len(a) + Len(e) /\ Len(e) \in Nat
      /\ \A i \in 1..Len(a) : x[i] = a[i]
      /\ SubSeq(x, Len(a) + 1, Len(x)) = e
  <2>1. x \in Seq(Char) /\ Halved(x, a, e)
    BY <1>1, <1>2, Halves
  <2> HIDE DEF x
  <2> QED
    BY <2>1 DEF Halved
<1> HIDE DEF x
<1>5. /\ q \in Seq(Char) /\ Len(q) = Len(x) + Len(a)
      /\ \A i \in 1..Len(x) : q[i] = x[i]
      /\ \A i \in 1..Len(a) : q[Len(x) + i] = a[i]
      /\ SubSeq(q, 1, Len(x)) = x
  <2>1. q \in Seq(Char) /\ Halved(q, x, a)
    BY <1>2, <1>4, Halves
  <2> HIDE DEF q
  <2> QED
    BY <2>1 DEF Halved
<1> HIDE DEF q
<1>6. Len(x) = Len(e) + 1 /\ Len(q) = Len(e) + 2 /\ Len(q) - 1 = Len(x)
  BY <1>2, <1>4, <1>5
<1>7. q[1] = "dq"
  <2>1. x[1] = "dq"
    BY <1>2, <1>4
  <2> QED
    BY <1>4, <1>5, <1>6, <2>1
<1>8. q[Len(q)] = "dq"
  <2>1. q[Len(x) + 1] = "dq"
    BY <1>2, <1>5
  <2> QED
    BY <1>2, <1>5, <2>1
<1>9. SubSeq(q, 2, Len(x)) = e
  <2> DEFINE n == Len(x)
             s == SubSeq(q, 2, n)
             t == SubSeq(x, 2, n)
  <2>1. n \in Nat /\ n >= 1 /\ \A i \in 2..n : i \in 1..n
    BY <1>4, <1>6
  <2>2. \A i \in 2..n : x[i] \in Char /\ q[i] = x[i]
    BY <1>4, <1>5, <2>1, ElementOfSeq
  <2> HIDE DEF n
  <2>3. s \in Seq(Char) /\ Len(s) = (IF 2 <= n THEN (n - 2) + 1 ELSE 0)
        /\ \A i \in 1 .. (n - 2) + 1 : s[i] = q[(2 + i) - 1]
    BY <2>1, <2>2, SubSeqProperties
  <2>4. t \in Seq(Char) /\ Len(t) = (IF 2 <= n THEN (n - 2) + 1 ELSE 0)
        /\ \A i \in 1 .. (n - 2) + 1 : t[i] = x[(2 + i) - 1]
    BY <2>1, <2>2, SubSeqProperties
  <2>5. \A i \in 1 .. (n - 2) + 1 : (2 + i) - 1 \in 2..n
    BY <2>1
  <2> HIDE DEF s, t
  <2>6. Len(s) = Len(t) /\ \A i \in 1..Len(s) : i \in 1 .. (n - 2) + 1
    BY <2>1, <2>3, <2>4
  <2>7. \A i \in 1..Len(s) : s[i] = t[i]
    BY <2>2, <2>3, <2>4, <2>5, <2>6
  <2>8. s = t
    BY <2>3, <2>4, <2>6, <2>7, SeqEqual
  <2>9. t = e
    BY <1>2, <1>4 DEF t, n
  <2> QED
    BY <2>8, <2>9 DEF s, n
<1>10. Len(q) \in Nat /\ Len(q) >= 2 /\ q # <<>>
  BY <1>4, <1>6, EmptySeq
<1> QED
  BY <1>3, <1>5, <1>6, <1>7, <1>8, <1>9, <1>10 DEF e, Line

\* What was quoted is read, whatever blanks are around it.
LEMMA Unquoting ==
    ASSUME NEW v \in Line, NEW raw, Strip(raw, "sp") = quote(v)
    PROVE  unquote(raw) = v
<1> DEFINE q == quote(v)
<1>1. Len(q) >= 2 /\ q[1] = q[Len(q)] /\ q[1] \in Quotes /\ q[1] = "dq"
  BY Quoted DEF Quotes
<1>2. Unescape(SubSeq(q, 2, Len(q) - 1)) = v
  BY Quoted, EscapesRead
<1> HIDE DEF q
<1>3. Strip(raw, "sp") = q
  BY DEF q
<1> QED
  BY <1>1, <1>2, <1>3 DEF unquote

\* A quoted value is left when blanks are taken off, its own or those before it.
LEMMA QuoteStripped ==
    ASSUME NEW v \in Line
    PROVE  /\ Strip(quote(v), "sp") = quote(v)
           /\ <<"sp">> \o quote(v) \in Line
           /\ Strip(<<"sp">> \o quote(v), "sp") = quote(v)
<1> DEFINE q == quote(v)
           s == <<"sp">>
           l == s \o q
<1>1. /\ q \in Seq(Char) /\ Len(q) \in Nat /\ Len(q) >= 2 /\ q # <<>>
      /\ q[1] = "dq" /\ q[Len(q)] = "dq"
  BY Quoted DEF Line
<1>2. s \in Seq(Char) /\ Len(s) = 1 /\ s[1] = "sp"
  <2>1. "sp" \in Char
    BY CharAssumption
  <2> QED
    BY <2>1
<1> HIDE DEF q, s
<1>3. Strip(q, "sp") = q
  BY <1>1, Unstripped
<1>4. /\ l \in Seq(Char) /\ Len(l) = Len(s) + Len(q)
      /\ \A i \in 1..Len(s) : l[i] = s[i]
      /\ \A i \in 1..Len(q) : l[Len(s) + i] = q[i]
      /\ SubSeq(l, Len(s) + 1, Len(l)) = q
  <2>1. l \in Seq(Char) /\ Halved(l, s, q)
    BY <1>1, <1>2, Halves
  <2> HIDE DEF l
  <2> QED
    BY <2>1 DEF Halved
<1> HIDE DEF l
<1>5. l[1] = "sp" /\ l[2] = "dq" /\ l[Len(l)] = "dq" /\ 2 \in 1..Len(l)
  <2>1. l[1] = "sp"
    BY <1>2, <1>4
  <2>2. l[Len(s) + 1] = "dq" /\ l[Len(s) + Len(q)] = "dq"
    BY <1>1, <1>4
  <2> QED
    BY <1>1, <1>2, <1>4, <2>1, <2>2
<1>6. \A j \in 1 .. 2 - 1 : l[j] = "sp"
  BY <1>5
<1>7. Strip(l, "sp") = SubSeq(l, 2, Len(l))
  <2>1. l[2] # "sp" /\ l[Len(l)] # "sp"
    BY <1>5
  <2>2. l \in Seq(Char) /\ 2 \in 1..Len(l)
    BY <1>4, <1>5
  <2> QED
    BY <1>6, <2>1, <2>2, Stripping
<1>8. Strip(l, "sp") = q
  <2>1. Len(s) + 1 = 2
    BY <1>2
  <2> QED
    BY <1>4, <1>7, <2>1
<1> QED
  BY <1>3, <1>4, <1>8 DEF l, s, q, Line

--------------------------------------------------------------------------------
\* What has been read when the front matter so far is m.
SoFar(m) == [bad |-> FALSE, end |-> FALSE, meta |-> m, body |-> <<>>]

\* A key a store writes.
Name(key) ==
    /\ key \in Line
    /\ key # <<>>
    /\ \A j \in DOMAIN key : key[j] \notin {":", "sp", "-"}

\* A line is a key, a colon and the rest.
Divided(line, key, rest) ==
    /\ line \in Line /\ line # <<>>
    /\ line[1] \notin {"sp", "-"}
    /\ Contains(line, ":")
    /\ Until(line, ":") = key
    /\ After(line, ":") = rest
    /\ line[Len(line)] = IF rest = <<>> THEN ":" ELSE rest[Len(rest)]

\* The line of a key is divided at the colon that follows the key, whatever
\* colons its value holds.
LEMMA KeyLine ==
    ASSUME NEW key, Name(key), NEW rest \in Line, NEW line, line = (key \o <<":">>) \o rest
    PROVE  Divided(line, key, rest)
<1> DEFINE c == <<":">>
           n == Len(key)
           t == c \o rest
<1>1. key \in Seq(Char) /\ rest \in Seq(Char) /\ n \in Nat /\ n >= 1 /\ DOMAIN key = 1..n
  BY LenProperties, EmptySeq DEF Name, Line
<1>2. c \in Seq(Char) /\ Len(c) = 1 /\ c[1] = ":"
  <2>1. ":" \in Char
    BY CharAssumption
  <2> QED
    BY <2>1
<1> HIDE DEF c
<1>3. t \in Seq(Char) /\ Halved(t, c, rest)
  BY <1>1, <1>2, Halves
<1>4. line = key \o t
  BY <1>1, <1>2, ConcatAssociative DEF c
<1> HIDE DEF t
<1>5. line \in Seq(Char) /\ Halved(line, key, t)
  BY <1>1, <1>3, <1>4, Halves
<1>6. key \o c \in Seq(Char) /\ Halved(key \o c, key, c) /\ line \in Seq(Char) /\ Halved(line, key \o c, rest)
  <2>1. key \o c \in Seq(Char) /\ Halved(key \o c, key, c)
    BY <1>1, <1>2, Halves
  <2>2. line = (key \o c) \o rest
    BY DEF c
  <2> QED
    BY <1>1, <2>1, <2>2, Halves
<1>7. /\ \A i \in 1..n : line[i] = key[i]
      /\ SubSeq(line, 1, n) = key
      /\ Len(line) = n + Len(t)
      /\ \A i \in 1..Len(t) : line[n + i] = t[i]
  BY <1>5 DEF Halved
<1>8. /\ Len(t) = 1 + Len(rest) /\ t[1] = ":" /\ Len(rest) \in Nat
      /\ \A i \in 1..Len(rest) : t[1 + i] = rest[i]
  BY <1>2, <1>3 DEF Halved
<1>9. SubSeq(line, n + 2, Len(line)) = rest
  <2> DEFINE k == key \o c
  <2>1. Len(k) = n + 1
    BY <1>2, <1>6 DEF Halved
  <2>2. SubSeq(line, Len(k) + 1, Len(line)) = rest
    BY <1>6 DEF Halved
  <2>3. Len(k) + 1 = n + 2
    BY <1>1, <2>1
  <2> HIDE DEF k
  <2> QED
    BY <2>2, <2>3
<1>10. \A i \in 1..n : line[i] \notin {":", "sp", "-"}
  BY <1>1, <1>7 DEF Name
<1> HIDE DEF n
<1>11. n + 1 \in 1..Len(line) /\ line[n + 1] = ":" /\ 1 \in 1..n
  BY <1>1, <1>7, <1>8
<1>12. First(line, ":") = n + 1
  <2>1. \A j \in 1 .. (n + 1) - 1 : line[j] # ":"
    BY <1>1, <1>10
  <2>2. line \in Line
    BY <1>5 DEF Line
  <2> QED
    BY <1>11, <2>1, <2>2, Firsts
<1>13. Until(line, ":") = key
  <2>1. First(line, ":") - 1 = n
    BY <1>1, <1>12
  <2> QED
    BY <1>7, <2>1 DEF Until
<1>14. After(line, ":") = rest
  <2>1. First(line, ":") + 1 = n + 2
    BY <1>1, <1>12
  <2> QED
    BY <1>9, <2>1 DEF After
<1>15. line[Len(line)] = IF rest = <<>> THEN ":" ELSE rest[Len(rest)]
  <2>1. CASE rest = <<>>
    <3>1. Len(line) = n + 1
      BY <1>7, <1>8, <2>1
    <3> QED
      BY <1>11, <2>1, <3>1
  <2>2. CASE rest # <<>>
    <3>1. Len(rest) \in 1..Len(rest)
      BY <1>1, <2>2, EmptySeq
    <3>2. 1 + Len(rest) \in 1..Len(t) /\ Len(line) = n + (1 + Len(rest))
      BY <1>7, <1>8
    <3>3. line[n + (1 + Len(rest))] = rest[Len(rest)]
      BY <1>7, <1>8, <3>1, <3>2
    <3> QED
      BY <2>2, <3>2, <3>3
  <2> QED
    BY <2>1, <2>2
<1>16. line \in Line /\ line # <<>> /\ Contains(line, ":") /\ line[1] \notin {"sp", "-"}
  <2>1. line # <<>>
    BY <1>11
  <2>2. line[1] \notin {"sp", "-"}
    BY <1>10, <1>11
  <2> QED
    BY <1>5, <1>11, <2>1, <2>2 DEF Contains, Line
<1> QED
  BY <1>13, <1>14, <1>15, <1>16 DEF Divided

\* What neither begins nor ends with a blank, nor begins with a dash, is no
\* delimiter and no item.
LEMMA NoItem ==
    ASSUME NEW line \in Line, line # <<>>, line[1] \notin {"sp", "-"}, line[Len(line)] # "sp"
    PROVE  /\ Strip(line, "sp") # DELIM
           /\ ~IsPrefix(<<"sp", "sp", "-", "sp">>, line)
           /\ ~IsPrefix(<<"-", "sp">>, line)
<1>1. Strip(line, "sp") = line
  BY Unstripped DEF Line
<1>2. line # DELIM
  BY DEF DELIM
<1>3. ASSUME NEW p \in Seq(Char), Len(p) >= 1, IsPrefix(p, line)
      PROVE  line[1] = p[1]
  <2> DEFINE n == Len(p)
             a == SubSeq(p, 1, n)
             b == SubSeq(line, 1, n)
  <2>1. n \in Nat /\ n >= 1 /\ n <= Len(line) /\ Len(line) \in Nat /\ a = b
    BY <1>3, LenProperties DEF IsPrefix, Line
  <2>2. \A i \in 1..n : p[i] \in Char /\ line[i] \in Char
    BY <2>1, ElementOfSeq DEF Line
  <2>3. 1 \in 1 .. (n - 1) + 1 /\ (1 + 1) - 1 = 1
    BY <2>1
  <2>4. \A i \in 1 .. (n - 1) + 1 : a[i] = p[(1 + i) - 1]
    <3> HIDE DEF n
    <3> QED
      BY <2>1, <2>2, SubSeqProperties
  <2>5. \A i \in 1 .. (n - 1) + 1 : b[i] = line[(1 + i) - 1]
    <3> HIDE DEF n
    <3> QED
      BY <2>1, <2>2, SubSeqProperties
  <2> HIDE DEF a, b, n
  <2> QED
    BY <2>1, <2>3, <2>4, <2>5
<1>4. ~IsPrefix(<<"sp", "sp", "-", "sp">>, line)
  <2> DEFINE p == <<"sp", "sp", "-", "sp">>
  <2>1. p \in Seq(Char) /\ Len(p) >= 1 /\ p[1] = "sp"
    <3>1. "sp" \in Char /\ "-" \in Char
      BY CharAssumption
    <3> QED
      BY <3>1
  <2> HIDE DEF p
  <2>2. ~IsPrefix(p, line)
    BY <1>3, <2>1
  <2> QED
    BY <2>2 DEF p
<1>5. ~IsPrefix(<<"-", "sp">>, line)
  <2> DEFINE p == <<"-", "sp">>
  <2>1. p \in Seq(Char) /\ Len(p) >= 1 /\ p[1] = "-"
    <3>1. "sp" \in Char /\ "-" \in Char
      BY CharAssumption
    <3> QED
      BY <3>1
  <2> HIDE DEF p
  <2>2. ~IsPrefix(p, line)
    BY <1>3, <2>1
  <2> QED
    BY <2>2 DEF p
<1> QED
  BY <1>1, <1>2, <1>4, <1>5

\* Text u is the one character of s and then t.
Led(u, s, t) ==
    /\ Len(s) = 1
    /\ Len(u) = Len(t) + 1
    /\ u[1] = s[1]
    /\ \A i \in 1..Len(t) : u[i + 1] = t[i]

\* A text with one character before another is that character and the other.
LEMMA Leading ==
    ASSUME NEW T, NEW s \in Seq(T), NEW t \in Seq(T), NEW u \in Seq(T), Led(u, s, t)
    PROVE  s \o t = u /\ SubSeq(u, 2, Len(u)) = t
<1> USE DEF Led
<1> DEFINE w == s \o t
<1>1. w \in Seq(T) /\ Halved(w, s, t)
  BY Halves
<1> HIDE DEF w
<1>2. /\ Len(t) \in Nat /\ Len(w) = 1 + Len(t) /\ \A i \in 1..Len(t) : w[1 + i] = t[i]
      /\ w[1] = s[1]
      /\ SubSeq(w, Len(s) + 1, Len(w)) = t
  BY <1>1 DEF Halved
<1>3. ASSUME NEW i \in 1..Len(w)
      PROVE  w[i] = u[i]
  <2>1. CASE i = 1
    BY <1>2, <2>1
  <2>2. CASE i # 1
    <3>1. i - 1 \in 1..Len(t) /\ 1 + (i - 1) = i /\ (i - 1) + 1 = i
      BY <1>2, <2>2
    <3>2. w[1 + (i - 1)] = t[i - 1] /\ u[(i - 1) + 1] = t[i - 1]
      BY <1>2, <3>1
    <3> QED
      BY <3>1, <3>2
  <2> QED
    BY <2>1, <2>2
<1>4. Len(w) = Len(u)
  BY <1>2
<1>5. w = u
  BY <1>1, <1>3, <1>4, SeqEqual
<1>6. Len(s) + 1 = 2
  OBVIOUS
<1>7. SubSeq(u, 2, Len(u)) = t
  BY <1>2, <1>5, <1>6
<1>8. s \o t = u
  BY <1>5 DEF w
<1> QED
  BY <1>7, <1>8

\* What a key's value is read as.
ValueOf(rest) ==
    LET r == Strip(rest, "sp") IN
    IF r \in {<<>>, <<"[", "]">>} THEN List(<<>>) ELSE Scalar(unquote(r))

\* Only the front matter of what has been read changes.
LEMMA MetaSet ==
    ASSUME NEW m, NEW a
    PROVE  [SoFar(m) EXCEPT !.meta = a] = SoFar(a)
<1> DEFINE e == <<>>
<1>1. SoFar(m) = [bad |-> FALSE, end |-> FALSE, meta |-> m, body |-> e]
      /\ SoFar(a) = [bad |-> FALSE, end |-> FALSE, meta |-> a, body |-> e]
  BY DEF SoFar
<1> HIDE DEF e
<1>2. \A b, f, r : r = [bad |-> b, end |-> f, meta |-> m, body |-> e] =>
                      [r EXCEPT !.meta = a] = [bad |-> b, end |-> f, meta |-> a, body |-> e]
  OBVIOUS
<1> QED
  BY <1>1, <1>2, Zenon

\* The line of a key adds the key.
LEMMA KeyRead ==
    ASSUME NEW m, NEW key, Name(key), NEW rest \in Line, rest = <<>> \/ rest[Len(rest)] # "sp"
    PROVE  ReadLine(SoFar(m), (key \o <<":">>) \o rest) = SoFar(Append(m, <<key, ValueOf(rest)>>))
<1> DEFINE line == (key \o <<":">>) \o rest
<1>1. /\ line \in Line /\ line # <<>>
      /\ line[1] \notin {"sp", "-"}
      /\ Contains(line, ":")
      /\ Until(line, ":") = key
      /\ After(line, ":") = rest
      /\ line[Len(line)] # "sp"
  <2>1. line = (key \o <<":">>) \o rest
    OBVIOUS
  <2> HIDE DEF line
  <2>2. Divided(line, key, rest)
    BY <2>1, KeyLine, Zenon
  <2> QED
    BY <2>2 DEF Divided
<1>2. Strip(key, "sp") = key
  <2>1. 1 \in DOMAIN key /\ Len(key) \in DOMAIN key
    BY LenProperties, EmptySeq DEF Name, Line
  <2>2. key[1] # "sp" /\ key[Len(key)] # "sp" /\ key # <<>> /\ key \in Seq(Char)
    BY <2>1 DEF Name, Line
  <2> QED
    BY <2>2, Unstripped
<1> HIDE DEF line
<1>3. /\ Strip(line, "sp") # DELIM
      /\ ~IsPrefix(<<"sp", "sp", "-", "sp">>, line)
      /\ ~IsPrefix(<<"-", "sp">>, line)
  BY <1>1, NoItem
<1>4. SoFar(m).bad = FALSE /\ SoFar(m).end = FALSE
  BY DEF SoFar
<1>5. ReadLine(SoFar(m), line) = AddKey(SoFar(m), line)
  BY <1>1, <1>3, <1>4, Zenon DEF ReadLine
<1>6. AddKey(SoFar(m), line) = [SoFar(m) EXCEPT !.meta = Append(SoFar(m).meta, <<key, ValueOf(rest)>>)]
  BY <1>1, <1>2, Zenon DEF AddKey, ValueOf
<1>7. [SoFar(m) EXCEPT !.meta = Append(SoFar(m).meta, <<key, ValueOf(rest)>>)]
        = SoFar(Append(m, <<key, ValueOf(rest)>>))
  <2>1. SoFar(m).meta = m
    BY DEF SoFar
  <2> QED
    BY <2>1, MetaSet, Zenon
<1> QED
  BY <1>5, <1>6, <1>7, Zenon DEF line

\* A key and its one value are read from the line LinesOf writes for them.
LEMMA ScalarRead ==
    ASSUME NEW m, NEW key, Name(key), NEW v \in Line
    PROVE  ReadLine(SoFar(m), (key \o <<":", "sp">>) \o quote(v)) =
               SoFar(Append(m, <<key, Scalar(v)>>))
<1> DEFINE q == quote(v)
           rest == <<"sp">> \o q
           colon == <<":">>
           blank == <<"sp">>
<1>1. /\ q \in Seq(Char) /\ q # <<>> /\ Len(q) \in Nat /\ Len(q) >= 2
      /\ q[Len(q)] = "dq" /\ q[1] = "dq"
      /\ rest \in Line /\ Strip(rest, "sp") = q /\ Strip(q, "sp") = q
  BY Quoted, QuoteStripped DEF Line
<1>2. /\ colon \in Seq(Char) /\ blank \in Seq(Char) /\ key \in Seq(Char)
      /\ colon \o blank = <<":", "sp">> /\ Len(blank) = 1
  <2> DEFINE whole == <<":", "sp">>
  <2>1. ":" \in Char /\ "sp" \in Char
    BY CharAssumption
  <2>2. colon \in Seq(Char) /\ Len(colon) = 1 /\ colon[1] = ":"
    BY <2>1
  <2>3. blank \in Seq(Char) /\ Len(blank) = 1 /\ blank[1] = "sp"
    BY <2>1
  <2>4. whole \in Seq(Char) /\ Len(whole) = 2 /\ whole[1] = ":" /\ whole[2] = "sp"
    BY <2>1
  <2> HIDE DEF colon, blank, whole
  <2>5. \A i \in 1..Len(blank) : whole[i + 1] = blank[i]
    BY <2>3, <2>4
  <2>6. Led(whole, colon, blank)
    BY <2>2, <2>3, <2>4, <2>5 DEF Led
  <2>7. colon \o blank = whole
    <3>1. colon \in Seq(Char) /\ blank \in Seq(Char) /\ whole \in Seq(Char)
      BY <2>2, <2>3, <2>4
    <3> QED
      BY <2>6, <3>1, Leading
  <2> QED
    BY <2>2, <2>3, <2>7 DEF Name, Line, whole
<1>3. unquote(q) = v
  BY <1>1, Unquoting
<1>4. q \notin {<<>>, <<"[", "]">>}
  BY <1>1
<1> HIDE DEF q
<1>5. rest = blank \o q
  OBVIOUS
<1>6. (key \o <<":", "sp">>) \o q = (key \o colon) \o rest
  <2> HIDE DEF colon, blank, rest
  <2>1. key \in Seq(Char) /\ colon \in Seq(Char) /\ blank \in Seq(Char)
    BY <1>2
  <2>2. key \o colon \in Seq(Char) /\ q \in Seq(Char)
    BY <1>1, <1>2, ConcatProperties
  <2>3. ((key \o colon) \o blank) \o q = (key \o colon) \o (blank \o q)
    <3>1. \A head \in Seq(Char) : (head \o blank) \o q = head \o (blank \o q)
      BY <2>1, <2>2, Regrouped
    <3> QED
      BY <2>2, <3>1, Zenon
  <2>4. (key \o colon) \o blank = key \o (colon \o blank)
    BY <2>1, Regrouped, Zenon
  <2> QED
    BY <1>2, <1>5, <2>3, <2>4, Zenon
<1>7. rest[Len(rest)] # "sp"
  <2> HIDE DEF blank, rest
  <2>1. Halved(rest, blank, q)
    BY <1>1, <1>2, <1>5, Halves
  <2>2. Len(rest) = Len(blank) + Len(q) /\ rest[Len(blank) + Len(q)] = q[Len(q)]
    BY <1>1, <2>1 DEF Halved
  <2> QED
    BY <1>1, <2>2
<1> HIDE DEF rest
<1>8. ValueOf(rest) = Scalar(v)
  <2>1. Strip(rest, "sp") = q
    BY <1>1
  <2> QED
    BY <1>3, <1>4, <2>1, Zenon DEF ValueOf
<1>9. ReadLine(SoFar(m), (key \o colon) \o rest) = SoFar(Append(m, <<key, ValueOf(rest)>>))
  BY <1>1, <1>7, KeyRead, Zenon DEF colon
<1> QED
  BY <1>6, <1>8, <1>9, Zenon DEF q

\* A key with nothing after its colon has the empty list.
LEMMA ListRead ==
    ASSUME NEW m, NEW key, Name(key)
    PROVE  ReadLine(SoFar(m), key \o <<":">>) = SoFar(Append(m, <<key, List(<<>>)>>))
<1> DEFINE e == <<>>
           k == key \o <<":">>
<1>1. e \in Line /\ Strip(e, "sp") = <<>>
  BY EmptySeq, StrippedEmpty DEF Line
<1>2. ":" \in Char
  BY CharAssumption
<1>3. k \in Seq(Char)
  BY <1>2, ConcatProperties DEF Name, Line
<1>4. k \o e = k
  BY <1>3, ConcatEmptySeq
<1>5. ValueOf(e) = List(<<>>)
  BY <1>1, Zenon DEF ValueOf
<1>6. e = <<>>
  OBVIOUS
<1> HIDE DEF e
<1>7. ReadLine(SoFar(m), (key \o <<":">>) \o e) = SoFar(Append(m, <<key, ValueOf(e)>>))
  BY <1>1, <1>6, KeyRead, Zenon
<1> QED
  BY <1>4, <1>5, <1>7, Zenon

\* So has a key with brackets.
LEMMA EmptyListRead ==
    ASSUME NEW m, NEW key, Name(key)
    PROVE  ReadLine(SoFar(m), key \o <<":", "sp", "[", "]">>) =
               SoFar(Append(m, <<key, List(<<>>)>>))
<1> DEFINE colon == <<":">>
           rest == <<"sp", "[", "]">>
<1>1. "sp" \in Char /\ "[" \in Char /\ "]" \in Char /\ ":" \in Char
  BY CharAssumption
<1>2. colon \in Seq(Char) /\ rest \in Seq(Char) /\ key \in Seq(Char)
  BY <1>1 DEF Name, Line
<1> DEFINE blank == <<"sp">>
           brackets == <<"[", "]">>
           whole == <<":", "sp", "[", "]">>
<1>3. /\ Len(colon) = 1 /\ colon[1] = ":"
      /\ Len(rest) = 3 /\ rest[1] = "sp" /\ rest[2] = "[" /\ rest[3] = "]"
  OBVIOUS
<1>4. /\ blank \in Seq(Char) /\ Len(blank) = 1 /\ blank[1] = "sp"
      /\ brackets \in Seq(Char) /\ Len(brackets) = 2 /\ brackets[1] = "[" /\ brackets[2] = "]"
  BY <1>1
<1>5. /\ whole \in Seq(Char) /\ Len(whole) = 4
      /\ whole[1] = ":" /\ whole[2] = "sp" /\ whole[3] = "[" /\ whole[4] = "]"
  BY <1>1
<1> HIDE DEF rest, colon, blank, brackets, whole
<1>6. colon \o rest = whole
  <2>1. \A i \in 1..Len(rest) : whole[i + 1] = rest[i]
    BY <1>3, <1>5
  <2>2. Len(whole) = Len(rest) + 1 /\ whole[1] = colon[1]
    BY <1>3, <1>5
  <2>3. Led(whole, colon, rest)
    BY <1>3, <2>1, <2>2 DEF Led
  <2> QED
    <3>1. colon \in Seq(Char) /\ rest \in Seq(Char) /\ whole \in Seq(Char)
      BY <1>2, <1>5
    <3> QED
      BY <2>3, <3>1, Leading
<1>7. SubSeq(rest, 2, Len(rest)) = brackets
  <2>1. \A i \in 1..Len(brackets) : rest[i + 1] = brackets[i]
    BY <1>3, <1>4
  <2>2. Len(rest) = Len(brackets) + 1 /\ rest[1] = blank[1]
    BY <1>3, <1>4
  <2>3. Led(rest, blank, brackets)
    BY <1>4, <2>1, <2>2 DEF Led
  <2> QED
    <3>1. blank \in Seq(Char) /\ brackets \in Seq(Char) /\ rest \in Seq(Char)
      BY <1>2, <1>4
    <3> QED
      BY <2>3, <3>1, Leading
<1>8. 2 \in 1..Len(rest) /\ \A j \in 1 .. 2 - 1 : rest[j] = "sp"
  BY <1>3
<1>9. Strip(rest, "sp") = SubSeq(rest, 2, Len(rest))
  <2>1. rest[2] # "sp" /\ rest[Len(rest)] # "sp"
    BY <1>3
  <2> QED
    BY <1>2, <1>8, <2>1, Stripping, Zenon
<1>10. Strip(rest, "sp") = brackets /\ rest[Len(rest)] # "sp" /\ rest \in Line
  BY <1>2, <1>3, <1>9, <1>7 DEF Line
<1>11. ValueOf(rest) = List(<<>>)
  BY <1>10, Zenon DEF ValueOf, brackets
<1>12. ReadLine(SoFar(m), (key \o colon) \o rest) = SoFar(Append(m, <<key, ValueOf(rest)>>))
  BY <1>10, KeyRead, Zenon DEF colon
<1>13. (key \o colon) \o rest = key \o <<":", "sp", "[", "]">>
  <2>1. (key \o colon) \o rest = key \o (colon \o rest)
    BY <1>2, ConcatAssociative
  <2> QED
    BY <1>6, <2>1, Zenon DEF whole
<1> QED
  BY <1>11, <1>12, <1>13, Zenon

\* A key and its value.
Pair == Line \X Value

\* The line dumps writes for an item of a list.
Item(v) == <<"sp", "sp", "-", "sp">> \o quote(v)

\* The line of an item of a list.
LEMMA ItemLine ==
    ASSUME NEW v \in Line, NEW line, line = Item(v)
    PROVE  /\ Strip(line, "sp") # DELIM
           /\ IsPrefix(<<"sp", "sp", "-", "sp">>, line)
           /\ unquote(After(line, "-")) = v
<1> DEFINE q == quote(v)
           dash == <<"sp", "sp", "-", "sp">>
           start == <<"sp", "sp", "-">>
           blank == <<"sp">>
           rest == <<"sp">> \o q
<1>1. /\ q \in Seq(Char) /\ Len(q) \in Nat /\ Len(q) >= 2 /\ q[Len(q)] = "dq"
      /\ rest \in Seq(Char) /\ Strip(rest, "sp") = q
  BY Quoted, QuoteStripped DEF Line
<1>2. unquote(rest) = v
  BY <1>1, Unquoting
<1>3. /\ dash \in Seq(Char) /\ Len(dash) = 4
      /\ dash[1] = "sp" /\ dash[2] = "sp" /\ dash[3] = "-" /\ dash[4] = "sp"
  <2>1. "sp" \in Char /\ "-" \in Char
    BY CharAssumption
  <2> QED
    BY <2>1
<1>4. start \in Seq(Char) /\ Len(start) = 3 /\ start[1] = "sp" /\ start[2] = "sp" /\ start[3] = "-"
  <2>1. "sp" \in Char /\ "-" \in Char
    BY CharAssumption
  <2> QED
    BY <2>1
<1>5. blank \in Seq(Char) /\ Len(blank) = 1 /\ blank[1] = "sp"
  <2>1. "sp" \in Char
    BY CharAssumption
  <2> QED
    BY <2>1
<1>6. rest = blank \o q /\ line = dash \o q
  BY DEF Item
<1> HIDE DEF q, dash, start, blank, rest
<1>7. start \o blank = dash
  <2> DEFINE w == start \o blank
  <2>1. w \in Seq(Char) /\ Halved(w, start, blank)
    BY <1>4, <1>5, Halves
  <2> HIDE DEF w
  <2>2. Len(w) = 4 /\ w[1] = "sp" /\ w[2] = "sp" /\ w[3] = "-" /\ w[3 + 1] = "sp"
    BY <1>4, <1>5, <2>1 DEF Halved
  <2>3. \A i \in 1..Len(w) : w[i] = dash[i]
    BY <1>3, <2>2
  <2>4. Len(w) = Len(dash)
    BY <1>3, <2>2
  <2>5. w = dash
    BY <1>3, <2>1, <2>3, <2>4, SeqEqual
  <2> QED
    BY <2>5 DEF w
<1>8. line = start \o rest
  <2>1. (start \o blank) \o q = start \o (blank \o q)
    <3>1. start \in Seq(Char) /\ blank \in Seq(Char) /\ q \in Seq(Char)
      BY <1>1, <1>4, <1>5
    <3> QED
      BY <3>1, ConcatAssociative
  <2> QED
    BY <1>6, <1>7, <2>1, Zenon
<1>9. line \in Seq(Char) /\ Halved(line, start, rest)
  BY <1>1, <1>4, <1>8, Halves
<1>10. line \in Seq(Char) /\ Halved(line, dash, q)
  BY <1>1, <1>3, <1>6, Halves
<1>11. /\ line[1] = "sp" /\ line[2] = "sp" /\ line[3] = "-" /\ Len(line) = 4 + Len(q)
       /\ line[4 + Len(q)] = "dq"
       /\ SubSeq(line, 1, 4) = dash
  BY <1>1, <1>3, <1>10 DEF Halved
<1>12. 3 \in 1..Len(line) /\ line[Len(line)] = "dq" /\ Len(line) >= 6 /\ Len(line) \in Nat
  BY <1>1, <1>11
<1>13. \A j \in 1 .. 3 - 1 : line[j] = "sp"
  BY <1>11
<1>14. Strip(line, "sp") # DELIM
  <2> DEFINE s == SubSeq(line, 3, Len(line))
  <2>1. Strip(line, "sp") = s
    <3>1. line[3] # "sp" /\ line[Len(line)] # "sp"
      BY <1>11, <1>12
    <3> QED
      BY <1>9, <1>12, <1>13, <3>1, Stripping, Zenon
  <2>2. Len(s) = (Len(line) - 3) + 1
    <3>1. \A i \in 3..Len(line) : line[i] \in Char
      BY <1>9, <1>12, ElementOfSeq
    <3> QED
      BY <1>12, <3>1, SubSeqProperties
  <2> HIDE DEF s
  <2>3. Len(s) # 3
    BY <1>12, <2>2
  <2>4. Len(DELIM) = 3
    BY DEF DELIM
  <2> QED
    BY <2>1, <2>3, <2>4
<1>15. IsPrefix(dash, line)
  <2>1. SubSeq(dash, 1, Len(dash)) = dash
    BY <1>3, SubSeqFull
  <2>2. SubSeq(dash, 1, 4) = dash
    BY <1>3, <2>1
  <2> QED
    BY <1>3, <1>11, <1>12, <2>2 DEF IsPrefix
<1>16. After(line, "-") = rest
  <2>1. \A j \in 1 .. 3 - 1 : line[j] # "-"
    BY <1>11
  <2>2. First(line, "-") = 3
    BY <1>9, <1>11, <1>12, <2>1, Firsts DEF Line
  <2>3. SubSeq(line, Len(start) + 1, Len(line)) = rest /\ Len(start) + 1 = 4
    BY <1>4, <1>9 DEF Halved
  <2>4. First(line, "-") + 1 = 4
    BY <2>2
  <2> QED
    BY <2>3, <2>4 DEF After
<1> QED
  BY <1>2, <1>14, <1>15, <1>16 DEF dash

\* The items of a list are written one to a line.
LEMMA ItemsAreLines ==
    ASSUME NEW items \in Seq(Line)
    PROVE  LET rows == [i \in DOMAIN items |-> Item(items[i])] IN
           rows \in Seq(Line) /\ Len(rows) = Len(items) /\ \A i \in 1..Len(items) : rows[i] = Item(items[i])
<1> DEFINE rows == [i \in DOMAIN items |-> Item(items[i])]
           n == Len(items)
<1>1. n \in Nat /\ DOMAIN items = 1..n /\ \A i \in 1..n : items[i] \in Line
  BY LenProperties, ElementOfSeq
<1>2. ASSUME NEW v \in Line
      PROVE  Item(v) \in Line
  <2> DEFINE dash == <<"sp", "sp", "-", "sp">>
  <2>1. "sp" \in Char /\ "-" \in Char
    BY CharAssumption
  <2>2. dash \in Seq(Char)
    BY <2>1
  <2>3. quote(v) \in Seq(Char)
    BY Quoted DEF Line
  <2> HIDE DEF dash
  <2>4. dash \o quote(v) \in Seq(Char)
    BY <2>2, <2>3, ConcatProperties
  <2> QED
    BY <2>4 DEF Item, Line, dash
<1> HIDE DEF n
<1>3. rows \in [1..n -> Line]
  BY <1>1, <1>2
<1>4. rows \in Seq(Line) /\ Len(rows) = n
  <2> HIDE DEF rows
  <2> QED
    BY <1>1, <1>3
<1> QED
  BY <1>1, <1>4 DEF n

\* The line of an item adds it to the list of the last key.
LEMMA ItemRead ==
    ASSUME NEW m \in Seq(Pair), NEW key \in Line, NEW items \in Seq(Line), NEW v \in Line
    PROVE  ReadLine(SoFar(Append(m, <<key, List(items)>>)), Item(v))
             = SoFar(Append(m, <<key, List(Append(items, v))>>))
<1> DEFINE line == Item(v)
           entry == <<key, List(items)>>
           next == <<key, List(Append(items, v))>>
           full == Append(m, entry)
<1>1. /\ Strip(line, "sp") # DELIM
      /\ IsPrefix(<<"sp", "sp", "-", "sp">>, line)
      /\ unquote(After(line, "-")) = v
  <2>1. line = Item(v)
    OBVIOUS
  <2> HIDE DEF line
  <2> QED
    BY <2>1, ItemLine
<1> HIDE DEF line
<1>2. entry \in Pair /\ entry[1] = key /\ entry[2].list = TRUE /\ entry[2].items = items
  BY DEF List, Pair, Value
<1> HIDE DEF entry
<1>3. Last(full) = entry /\ full # <<>>
  BY <1>2, AppendProperties, LenProperties DEF Last
<1>4. Front(full) = m
  <2> DEFINE one == <<entry>>
  <2>1. one \in Seq(Pair) /\ full = m \o one
    BY <1>2, AppendIsConcat
  <2>2. Halved(full, m, one)
    <3> HIDE DEF one, full
    <3> QED
      BY <2>1, Halves
  <2>3. Len(full) - 1 = Len(m)
    BY <1>2, AppendProperties, LenProperties
  <2> HIDE DEF full, one
  <2> QED
    BY <2>2, <2>3 DEF Front, Halved
<1> HIDE DEF full
<1>5. SoFar(full).bad = FALSE /\ SoFar(full).end = FALSE /\ SoFar(full).meta = full
  BY DEF SoFar
<1>6. ReadLine(SoFar(full), line) = AddItem(SoFar(full), line)
  BY <1>1, <1>5, Zenon DEF ReadLine
<1>7. AddItem(SoFar(full), line) = [SoFar(full) EXCEPT !.meta = Append(m, next)]
  BY <1>1, <1>2, <1>3, <1>4, <1>5, Zenon DEF AddItem
<1>8. [SoFar(full) EXCEPT !.meta = Append(m, next)] = SoFar(Append(m, next))
  BY MetaSet
<1> QED
  BY <1>6, <1>7, <1>8, Zenon DEF full, line, entry

--------------------------------------------------------------------------------
\* Nothing has been read of a text.
Start == [bad |-> FALSE, end |-> FALSE, meta |-> <<>>, body |-> <<>>]

\* Reads is what its recursion says.
LEMMA Reading ==
    ASSUME NEW lines, Len(lines) \in Nat
    PROVE  /\ Reads(lines)[0] = Start
           /\ \A n \in 1..Len(lines) : Reads(lines)[n] = ReadLine(Reads(lines)[n - 1], lines[n])
<1> DEFINE Ends(f, n) == IF n = 0 THEN Start ELSE ReadLine(f[n - 1], lines[n])
           Good == {k \in Nat : \E f : f = [n \in 0..k |-> Ends(f, n)]}
<1>1. 0 \in Good
  <2> DEFINE f == [n \in 0..0 |-> Start]
  <2>1. f = [n \in 0..0 |-> Ends(f, n)]
    <3> HIDE DEF Start
    <3> QED
      OBVIOUS
  <2>2. \E h : h = [n \in 0..0 |-> Ends(h, n)]
    <3> HIDE DEF f
    <3> QED
      BY <2>1
  <2> QED
    BY <2>2
<1>2. ASSUME NEW k \in 0 .. Len(lines) - 1, k \in Good
      PROVE  k + 1 \in Good
  <2>1. PICK f : f = [n \in 0..k |-> Ends(f, n)]
    BY <1>2
  <2> DEFINE g == [n \in 0..k + 1 |-> IF n <= k THEN f[n] ELSE ReadLine(f[k], lines[k + 1])]
  <2>2. ASSUME NEW n \in 0..k + 1
        PROVE  g[n] = Ends(g, n)
    <3>1. CASE n = 0
      <4>1. g[0] = f[0] /\ f[0] = Start
        BY <2>1
      <4> QED
        BY <3>1, <4>1
    <3>2. CASE n \in 1..k
      <4>1. g[n] = f[n] /\ f[n] = ReadLine(f[n - 1], lines[n]) /\ g[n - 1] = f[n - 1]
        BY <2>1, <3>2
      <4> QED
        BY <3>2, <4>1
    <3>3. CASE n = k + 1
      <4>1. g[n] = ReadLine(f[k], lines[k + 1]) /\ n - 1 = k /\ g[k] = f[k] /\ n # 0
        BY <3>3
      <4> QED
        BY <3>3, <4>1
    <3> QED
      BY <3>1, <3>2, <3>3
  <2>3. g = [n \in 0..k + 1 |-> Ends(g, n)]
    BY <2>2
  <2>4. \E h : h = [n \in 0..k + 1 |-> Ends(h, n)]
    <3> HIDE DEF g
    <3> QED
      BY <2>3
  <2> QED
    BY <2>4
<1>3. Len(lines) \in Good
  <2> HIDE DEF Good
  <2>1. \A k \in 0..Len(lines) : k \in Good
    BY <1>1, <1>2, Upward, Zenon
  <2> QED
    BY <2>1
<1>4. \E f : f = [n \in 0..Len(lines) |-> Ends(f, n)]
  BY <1>3
<1> DEFINE t == Reads(lines)
<1>5. t = [n \in 0..Len(lines) |-> Ends(t, n)]
  BY <1>4 DEF Reads, Start
<1> HIDE DEF t
<1> QED
  BY <1>5 DEF t

\* One more line is read.
LEMMA ReadNext ==
    ASSUME NEW lines \in Seq(Line), NEW p \in Nat, p + 1 <= Len(lines)
    PROVE  Reads(lines)[p + 1] = ReadLine(Reads(lines)[p], lines[p + 1])
<1>1. Len(lines) \in Nat
  BY LenProperties
<1>2. p + 1 \in 1..Len(lines) /\ (p + 1) - 1 = p
  BY <1>1
<1>3. Reads(lines)[p + 1] = ReadLine(Reads(lines)[(p + 1) - 1], lines[p + 1])
  BY <1>1, <1>2, Reading, Zenon
<1> QED
  BY <1>2, <1>3, Zenon

\* A text has a part from position p on.
Has(lines, p, part) ==
    /\ p + Len(part) <= Len(lines)
    /\ \A k \in 1..Len(part) : lines[p + k] = part[k]

\* What LinesOf writes for a value is read as that value.
LEMMA OneLineRead ==
    ASSUME NEW lines \in Seq(Line), NEW p \in Nat, NEW m, NEW line, NEW after,
           Has(lines, p, <<line>>), Reads(lines)[p] = SoFar(m),
           ReadLine(SoFar(m), line) = after
    PROVE  Reads(lines)[p + Len(<<line>>)] = after
<1> DEFINE part == <<line>>
<1>1. Len(part) = 1 /\ part[1] = line
  OBVIOUS
<1> HIDE DEF part
<1>2. p + 1 <= Len(lines) /\ lines[p + 1] = line
  BY <1>1 DEF Has, part
<1>3. Reads(lines)[p + 1] = after
  BY <1>2, ReadNext
<1> QED
  BY <1>1, <1>3 DEF part

\* The lines of a list: its key, and its items.
ListWritten(part, key, items) ==
    /\ Len(part) = Len(items) + 1
    /\ part[1] = key \o <<":">>
    /\ \A i \in 1..Len(items) : part[1 + i] = Item(items[i])

\* A key and its items are read from the lines of a list.
LEMMA ListLines ==
    ASSUME NEW lines \in Seq(Line), NEW p \in Nat, NEW m \in Seq(Pair), NEW key, Name(key),
           NEW items \in Seq(Line), NEW part,
           Reads(lines)[p] = SoFar(m), Has(lines, p, part), ListWritten(part, key, items)
    PROVE  Reads(lines)[p + Len(part)] = SoFar(Append(m, <<key, List(items)>>))
<1> DEFINE n == Len(items)
           Upto(j) == <<key, List(SubSeq(items, 1, j))>>
           S == {j \in Nat : Reads(lines)[p + 1 + j] = SoFar(Append(m, Upto(j)))}
<1> USE DEF ListWritten
<1>1. n \in Nat /\ \A i \in 1..n : items[i] \in Line
  BY LenProperties, ElementOfSeq
<1>2. p + Len(part) <= Len(lines) /\ Len(part) = n + 1 /\ Len(lines) \in Nat
      /\ \A k \in 1 .. n + 1 : lines[p + k] = part[k]
  BY LenProperties DEF Has
<1>3. 0 \in S
  <2>1. SubSeq(items, 1, 0) = <<>>
    BY SubSeqEmpty
  <2>2. p + 1 <= Len(lines) /\ lines[p + 1] = part[1]
    BY <1>1, <1>2
  <2>3. Reads(lines)[p + 1] = ReadLine(SoFar(m), key \o <<":">>)
    BY <2>2, ReadNext
  <2>4. Reads(lines)[p + 1] = SoFar(Append(m, <<key, List(<<>>)>>))
    BY <2>3, ListRead
  <2>5. p + 1 + 0 = p + 1
    OBVIOUS
  <2> QED
    BY <2>1, <2>4, <2>5
<1>4. ASSUME NEW j \in 0 .. n - 1, j \in S
      PROVE  j + 1 \in S
  <2> DEFINE sofar == SubSeq(items, 1, j)
             v == items[j + 1]
             line == Item(v)
  <2>1. j + 1 \in 1..n /\ j \in Nat /\ 1 + (j + 1) \in 1 .. n + 1
    BY <1>1
  <2>2. v \in Line /\ Append(sofar, v) = SubSeq(items, 1, j + 1)
    BY <1>1, <2>1, Growing
  <2>3. sofar \in Seq(Line)
    <3>1. \A i \in 1..j : items[i] \in Line
      BY <1>1
    <3> QED
      BY <2>1, <3>1, SubSeqProperties
  <2>4. part[1 + (j + 1)] = line
    BY <2>1
  <2>5. lines[p + (1 + (j + 1))] = line
    BY <1>2, <2>1, <2>4
  <2>6. Reads(lines)[p + 1 + j] = SoFar(Append(m, <<key, List(sofar)>>))
    BY <1>4
  <2> HIDE DEF line, sofar, v
  <2>7. key \in Line
    BY DEF Name
  <2>8. (p + 1 + j) + 1 = p + (1 + (j + 1)) /\ p + 1 + (j + 1) = (p + 1 + j) + 1
        /\ p + 1 + j \in Nat /\ (p + 1 + j) + 1 <= Len(lines)
    BY <1>1, <1>2, <2>1
  <2>9. Reads(lines)[(p + 1 + j) + 1] = ReadLine(Reads(lines)[p + 1 + j], lines[(p + 1 + j) + 1])
    BY <2>8, ReadNext
  <2>10. Reads(lines)[(p + 1 + j) + 1] = ReadLine(SoFar(Append(m, <<key, List(sofar)>>)), line)
    BY <2>5, <2>6, <2>8, <2>9
  <2>11. ReadLine(SoFar(Append(m, <<key, List(sofar)>>)), line)
           = SoFar(Append(m, <<key, List(Append(sofar, v))>>))
    <3>1. v \in Line
      BY <2>2
    <3> QED
      BY <2>3, <2>7, <3>1, ItemRead DEF line
  <2>12. Reads(lines)[p + 1 + (j + 1)] = SoFar(Append(m, Upto(j + 1)))
    BY <2>2, <2>8, <2>10, <2>11
  <2> QED
    BY <2>1, <2>12
<1>5. n \in S
  <2> HIDE DEF S, n
  <2>1. \A j \in 0..n : j \in S
    BY <1>1, <1>3, <1>4, Upward, Zenon
  <2> QED
    BY <1>1, <2>1
<1>6. SubSeq(items, 1, n) = items
  BY SubSeqFull
<1>7. p + 1 + n = p + Len(part)
  BY <1>1, <1>2
<1> QED
  BY <1>5, <1>6, <1>7

\* A key and its value are read from the lines LinesOf writes for them.
LEMMA PairRead ==
    ASSUME NEW lines \in Seq(Line), NEW p \in Nat, NEW m \in Seq(Pair), NEW key, Name(key),
           NEW value \in Value, value.list \/ Len(value.items) = 1,
           Reads(lines)[p] = SoFar(m), Has(lines, p, LinesOf(key, value))
    PROVE  Reads(lines)[p + Len(LinesOf(key, value))] = SoFar(Append(m, <<key, value>>))
<1> DEFINE items == value.items
<1>1. items \in Seq(Line) /\ value.list \in BOOLEAN /\ value = [list |-> value.list, items |-> items]
  BY DEF Value
<1>2. CASE ~value.list
  <2> DEFINE line == (key \o <<":", "sp">>) \o quote(items[1])
  <2>1. LinesOf(key, value) = <<line>>
    BY <1>2 DEF LinesOf
  <2>2. Len(items) = 1 /\ items[1] \in Line
    BY <1>1, <1>2, ElementOfSeq
  <2>3. ReadLine(SoFar(m), line) = SoFar(Append(m, <<key, Scalar(items[1])>>))
    BY <2>2, ScalarRead
  <2>4. Scalar(items[1]) = value
    <3> DEFINE one == <<items[1]>>
    <3>1. one \in Seq(Line) /\ Len(one) = 1 /\ one[1] = items[1]
      BY <2>2
    <3> HIDE DEF one, items
    <3>2. one = items
      <4>1. \A i \in 1..Len(one) : one[i] = items[i]
        BY <3>1
      <4>2. Len(one) = Len(items)
        BY <2>2, <3>1
      <4> QED
        BY <1>1, <3>1, <4>1, <4>2, SeqEqual
    <3>3. value.list = FALSE
      BY <1>1, <1>2
    <3>4. value = [list |-> FALSE, items |-> one]
      BY <1>1, <3>2, <3>3, Zenon
    <3> QED
      BY <3>4, Zenon DEF Scalar, one
  <2> HIDE DEF line, items
  <2>5. Has(lines, p, <<line>>)
    BY <2>1
  <2>6. Reads(lines)[p + Len(<<line>>)] = SoFar(Append(m, <<key, Scalar(items[1])>>))
    BY <2>3, <2>5, OneLineRead, Zenon
  <2> QED
    BY <2>1, <2>4, <2>6, Zenon
<1>3. CASE value.list /\ items = <<>>
  <2> DEFINE line == key \o <<":", "sp", "[", "]">>
  <2>1. LinesOf(key, value) = <<line>>
    BY <1>3 DEF LinesOf
  <2>2. ReadLine(SoFar(m), line) = SoFar(Append(m, <<key, List(<<>>)>>))
    BY EmptyListRead
  <2>3. List(<<>>) = value
    <3>1. value.list = TRUE
      BY <1>1, <1>3
    <3>2. value = [list |-> TRUE, items |-> <<>>]
      BY <1>1, <1>3, <3>1, Zenon
    <3> QED
      BY <3>2, Zenon DEF List
  <2> HIDE DEF line, items
  <2>4. Has(lines, p, <<line>>)
    BY <2>1
  <2>5. Reads(lines)[p + Len(<<line>>)] = SoFar(Append(m, <<key, List(<<>>)>>))
    BY <2>2, <2>4, OneLineRead, Zenon
  <2> QED
    BY <2>1, <2>3, <2>5, Zenon
<1>4. CASE value.list /\ items # <<>>
  <2> DEFINE head == <<key \o <<":">>>>
             rows == [i \in DOMAIN items |-> Item(items[i])]
             part == LinesOf(key, value)
  <2>1. part = head \o rows
    BY <1>4 DEF LinesOf, Item
  <2>2. head \in Seq(Line) /\ Len(head) = 1 /\ head[1] = key \o <<":">>
    <3>1. ":" \in Char
      BY CharAssumption
    <3>2. key \o <<":">> \in Line
      BY <3>1, ConcatProperties DEF Name, Line
    <3> QED
      BY <3>2
  <2>3. rows \in Seq(Line) /\ Len(rows) = Len(items) /\ \A i \in 1..Len(items) : rows[i] = Item(items[i])
    BY <1>1, ItemsAreLines
  <2> HIDE DEF head, rows, part
  <2>4. Halved(part, head, rows)
    BY <2>1, <2>2, <2>3, Halves
  <2>5. Len(items) \in Nat /\ Len(part) = Len(items) + 1 /\ part[1] = key \o <<":">>
        /\ \A i \in 1..Len(items) : part[1 + i] = Item(items[i])
    BY <2>2, <2>3, <2>4 DEF Halved
  <2>6. Has(lines, p, part)
    BY DEF part
  <2>7. Reads(lines)[p + Len(part)] = SoFar(Append(m, <<key, List(items)>>))
    <3> HIDE DEF items
    <3>1. ListWritten(part, key, items)
      BY <2>5 DEF ListWritten
    <3>2. items \in Seq(Line)
      BY <1>1
    <3> QED
      BY <2>6, <3>1, <3>2, ListLines
  <2>8. List(items) = value
    <3>1. value.list = TRUE
      BY <1>1, <1>4
    <3> HIDE DEF items
    <3> QED
      BY <1>1, <3>1, Zenon DEF List
  <2> QED
    BY <2>7, <2>8 DEF part
<1> QED
  BY <1>1, <1>2, <1>3, <1>4

\* What LinesOf writes for a key is a sequence of lines.
LEMMA LinesAreLines ==
    ASSUME NEW key, Name(key), NEW value \in Value, value.list \/ Len(value.items) = 1
    PROVE  LinesOf(key, value) \in Seq(Line)
<1> DEFINE items == value.items
<1>1. items \in Seq(Line) /\ key \in Seq(Char)
  BY DEF Value, Name, Line
<1>2. \A c \in {":", "sp", "[", "]"} : c \in Char
  BY CharAssumption
<1>3. CASE ~value.list
  <2> DEFINE colon == <<":", "sp">>
             line == (key \o colon) \o quote(items[1])
  <2>1. items[1] \in Line
    BY <1>1, <1>3, ElementOfSeq
  <2>2. colon \in Seq(Char) /\ quote(items[1]) \in Seq(Char)
    BY <1>2, <2>1, Quoted DEF Line
  <2>3. LinesOf(key, value) = <<line>>
    BY <1>3 DEF LinesOf
  <2> HIDE DEF colon
  <2>4. key \o colon \in Seq(Char)
    BY <1>1, <2>2, ConcatProperties
  <2>5. line \in Seq(Char)
    BY <2>2, <2>4, ConcatProperties
  <2> HIDE DEF line
  <2> QED
    BY <2>3, <2>5 DEF Line
<1>4. CASE value.list /\ items = <<>>
  <2> DEFINE rest == <<":", "sp", "[", "]">>
             line == key \o rest
  <2>1. rest \in Seq(Char)
    BY <1>2
  <2>2. LinesOf(key, value) = <<line>>
    BY <1>4 DEF LinesOf
  <2> HIDE DEF rest
  <2>3. line \in Seq(Char)
    BY <1>1, <2>1, ConcatProperties
  <2> HIDE DEF line
  <2> QED
    BY <2>2, <2>3 DEF Line
<1>5. CASE value.list /\ items # <<>>
  <2> DEFINE colon == <<":">>
             head == <<key \o colon>>
             rows == [i \in DOMAIN items |-> Item(items[i])]
  <2>1. LinesOf(key, value) = head \o rows
    BY <1>5 DEF LinesOf, Item
  <2>2. colon \in Seq(Char)
    BY <1>2
  <2>3. rows \in Seq(Line)
    BY <1>1, ItemsAreLines
  <2> HIDE DEF colon, rows
  <2>4. key \o colon \in Seq(Char)
    BY <1>1, <2>2, ConcatProperties
  <2>5. head \in Seq(Line)
    BY <2>4 DEF Line
  <2> HIDE DEF head
  <2> QED
    BY <2>1, <2>3, <2>5, ConcatProperties
<1> QED
  BY <1>3, <1>4, <1>5

--------------------------------------------------------------------------------
\* What has been read after the second delimiter.
Ended(m, b) == [bad |-> FALSE, end |-> TRUE, meta |-> m, body |-> b]

\* The second delimiter ends the front matter.
LEMMA EndRead ==
    ASSUME NEW m
    PROVE  ReadLine(SoFar(m), DELIM) = Ended(m, <<>>) /\ Strip(DELIM, "sp") = DELIM
<1>1. Strip(DELIM, "sp") = DELIM
  <2>1. "-" \in Char
    BY CharAssumption
  <2>2. DELIM \in Seq(Char) /\ Len(DELIM) = 3 /\ DELIM[1] = "-" /\ DELIM[3] = "-" /\ DELIM # <<>>
    BY <2>1 DEF DELIM
  <2>3. DELIM[1] # "sp" /\ DELIM[Len(DELIM)] # "sp"
    BY <2>2
  <2> QED
    BY <2>2, <2>3, Unstripped
<1>2. SoFar(m).bad = FALSE /\ SoFar(m).end = FALSE
  BY DEF SoFar
<1>3. ReadLine(SoFar(m), DELIM) = [SoFar(m) EXCEPT !.end = TRUE]
  BY <1>1, <1>2, Zenon DEF ReadLine
<1>4. [SoFar(m) EXCEPT !.end = TRUE] = Ended(m, <<>>)
  <2> DEFINE e == <<>>
             r == SoFar(m)
  <2>1. r = [bad |-> FALSE, end |-> FALSE, meta |-> m, body |-> e]
    BY DEF SoFar
  <2> HIDE DEF e, r
  <2>2. \A f, g, h : [[bad |-> f, end |-> g, meta |-> m, body |-> e] EXCEPT !.end = h]
                       = [bad |-> f, end |-> h, meta |-> m, body |-> e]
    OBVIOUS
  <2>3. [r EXCEPT !.end = TRUE] = [bad |-> FALSE, end |-> TRUE, meta |-> m, body |-> e]
    BY <2>1, <2>2, Zenon
  <2> QED
    BY <2>3, Zenon DEF Ended, e, r
<1> QED
  BY <1>1, <1>3, <1>4, Zenon

\* A line after the second delimiter is a line of the body, whatever it holds.
LEMMA BodyRead ==
    ASSUME NEW m, NEW b, NEW line
    PROVE  ReadLine(Ended(m, b), line) = Ended(m, Append(b, line))
<1> DEFINE r == Ended(m, b)
           a == Append(b, line)
<1>1. r.end = TRUE /\ r.body = b
  BY DEF Ended
<1> HIDE DEF r
<1>2. ReadLine(r, line) = [r EXCEPT !.body = a]
  BY <1>1, Zenon DEF ReadLine
<1> HIDE DEF a
<1>3. r = [bad |-> FALSE, end |-> TRUE, meta |-> m, body |-> b]
  BY DEF r, Ended
<1>4. \A f, g : [[bad |-> f, end |-> g, meta |-> m, body |-> b] EXCEPT !.body = a]
                  = [bad |-> f, end |-> g, meta |-> m, body |-> a]
  OBVIOUS
<1>5. [r EXCEPT !.body = a] = [bad |-> FALSE, end |-> TRUE, meta |-> m, body |-> a]
  BY <1>3, <1>4, Zenon
<1> QED
  BY <1>2, <1>5, Zenon DEF Ended, r, a

\* The lines after the second delimiter.
LEMMA BodyLines ==
    ASSUME NEW lines \in Seq(Line), NEW p \in Nat, NEW m, NEW tail \in Seq(Line),
           Reads(lines)[p] = Ended(m, <<>>), Has(lines, p, tail)
    PROVE  Reads(lines)[p + Len(tail)] = Ended(m, tail)
<1> DEFINE n == Len(tail)
           S == {j \in Nat : Reads(lines)[p + j] = Ended(m, SubSeq(tail, 1, j))}
<1>1. n \in Nat /\ Len(lines) \in Nat
  BY LenProperties
<1>2. p + n <= Len(lines) /\ \A k \in 1..n : lines[p + k] = tail[k]
  BY DEF Has
<1>3. 0 \in S
  <2>1. SubSeq(tail, 1, 0) = <<>>
    BY SubSeqEmpty
  <2>2. p + 0 = p
    OBVIOUS
  <2> QED
    BY <2>1, <2>2
<1>4. ASSUME NEW j \in 0 .. n - 1, j \in S
      PROVE  j + 1 \in S
  <2> DEFINE sofar == SubSeq(tail, 1, j)
  <2>1. j + 1 \in 1..n /\ p + j \in Nat /\ (p + j) + 1 = p + (j + 1) /\ (p + j) + 1 <= Len(lines)
    BY <1>1, <1>2
  <2>2. lines[p + (j + 1)] = tail[j + 1]
    BY <1>2, <2>1
  <2>3. Reads(lines)[(p + j) + 1] = ReadLine(Reads(lines)[p + j], lines[(p + j) + 1])
    BY <2>1, ReadNext
  <2>4. Reads(lines)[p + j] = Ended(m, sofar)
    BY <1>4
  <2>5. Append(sofar, tail[j + 1]) = SubSeq(tail, 1, j + 1)
    BY <1>1, Growing
  <2> HIDE DEF sofar
  <2>6. ReadLine(Ended(m, sofar), tail[j + 1]) = Ended(m, Append(sofar, tail[j + 1]))
    BY BodyRead
  <2>7. Reads(lines)[p + (j + 1)] = Ended(m, SubSeq(tail, 1, j + 1))
    BY <2>1, <2>2, <2>3, <2>4, <2>5, <2>6
  <2> QED
    BY <2>1, <2>7
<1>5. n \in S
  <2> HIDE DEF S, n
  <2>1. \A j \in 0..n : j \in S
    BY <1>1, <1>3, <1>4, Upward, Zenon
  <2> QED
    BY <1>1, <2>1
<1>6. SubSeq(tail, 1, n) = tail
  BY SubSeqFull
<1> QED
  BY <1>5, <1>6

--------------------------------------------------------------------------------
\* The lines of the keys of an entry.
KeyLines(meta) == FlattenSeq([i \in DOMAIN meta |-> LinesOf(meta[i][1], meta[i][2])])

\* The front matter of a written entry.
Keyed(meta) ==
    /\ meta \in Seq(Pair)
    /\ \A i \in 1..Len(meta) :
         /\ Name(meta[i][1])
         /\ meta[i][2] \in Value
         /\ meta[i][2].list \/ Len(meta[i][2].items) = 1
         /\ meta[i] = <<meta[i][1], meta[i][2]>>

\* The lines of the keys of an entry are a sequence of lines.
LEMMA KeyLinesAreLines ==
    ASSUME NEW meta, Keyed(meta)
    PROVE  KeyLines(meta) \in Seq(Line)
<1> DEFINE parts == [i \in DOMAIN meta |-> LinesOf(meta[i][1], meta[i][2])]
           n == Len(meta)
<1>1. n \in Nat /\ DOMAIN meta = 1..n /\ meta \in Seq(Pair)
  BY LenProperties DEF Keyed
<1>2. \A i \in 1..n : LinesOf(meta[i][1], meta[i][2]) \in Seq(Line)
  BY LinesAreLines DEF Keyed
<1>3. parts \in Seq(Seq(Line))
  <2> HIDE DEF n
  <2>1. parts \in [1..n -> Seq(Line)]
    BY <1>1, <1>2
  <2> HIDE DEF parts
  <2> QED
    BY <1>1, <2>1
<1> HIDE DEF parts
<1>4. FlattenSeq(parts) \in Seq(Line)
  BY <1>3, Flattening
<1> QED
  BY <1>4 DEF KeyLines, parts

\* The front matter of an entry, whatever comes after it.
LEMMA MetaRead ==
    ASSUME NEW meta, Keyed(meta), NEW lines \in Seq(Line), Has(lines, 0, KeyLines(meta))
    PROVE  /\ KeyLines(meta) \in Seq(Line)
           /\ Reads(lines)[Len(KeyLines(meta))] = SoFar(meta)
<1> DEFINE parts == [i \in DOMAIN meta |-> LinesOf(meta[i][1], meta[i][2])]
           flat == KeyLines(meta)
           n == Len(meta)
<1>1. n \in Nat /\ DOMAIN meta = 1..n /\ meta \in Seq(Pair)
  BY LenProperties DEF Keyed
<1>2. \A i \in 1..n : LinesOf(meta[i][1], meta[i][2]) \in Seq(Line)
  BY LinesAreLines DEF Keyed
<1>3. /\ parts \in Seq(Seq(Line)) /\ Len(parts) = n
      /\ \A i \in 1..n : parts[i] = LinesOf(meta[i][1], meta[i][2])
  <2> HIDE DEF n
  <2>1. parts \in [1..n -> Seq(Line)] /\ \A i \in 1..n : parts[i] = LinesOf(meta[i][1], meta[i][2])
    BY <1>1, <1>2
  <2> HIDE DEF parts
  <2> QED
    BY <1>1, <2>1
<1>4. flat = FlattenSeq(parts)
  BY DEF KeyLines
<1> HIDE DEF parts, flat
<1>5. flat \in Seq(Line) /\ \E at : Placed(flat, parts, at)
  BY <1>3, <1>4, Flattening
<1>6. PICK at : Placed(flat, parts, at)
  BY <1>5
<1>7. Len(flat) \in Nat /\ Len(flat) <= Len(lines) /\ \A k \in 1..Len(flat) : lines[k] = flat[k]
  <2>1. Has(lines, 0, flat) /\ Len(flat) \in Nat
    BY <1>5, LenProperties DEF flat
  <2>2. 0 + Len(flat) = Len(flat) /\ \A k \in 1..Len(flat) : 0 + k = k
    BY <2>1
  <2> QED
    BY <2>1, <2>2 DEF Has
<1> DEFINE S == {i \in Nat : Reads(lines)[at[i]] = SoFar(SubSeq(meta, 1, i))}
<1>8. 0 \in S
  <2>1. SubSeq(meta, 1, 0) = <<>>
    BY SubSeqEmpty
  <2>2. Reads(lines)[0] = Start /\ at[0] = 0
    BY <1>6, LenProperties, Reading DEF Placed
  <2> QED
    BY <2>1, <2>2 DEF Start, SoFar
<1>9. ASSUME NEW i \in 0 .. n - 1, i \in S
      PROVE  i + 1 \in S
  <2> DEFINE part == parts[i + 1]
             key == meta[i + 1][1]
             value == meta[i + 1][2]
             m == SubSeq(meta, 1, i)
  <2>1. i + 1 \in 1..n /\ i \in 0 .. Len(parts) - 1 /\ Len(parts) \in Nat
    BY <1>1, <1>3
  <2>2. /\ at[i] \in Nat
        /\ at[i + 1] = at[i] + Len(part)
        /\ at[i + 1] <= Len(flat)
        /\ \A k \in 1..Len(part) : flat[at[i] + k] = part[k]
    BY <1>6, <2>1, Part
  <2>3. part = LinesOf(key, value) /\ part \in Seq(Line) /\ Len(part) \in Nat
    BY <1>2, <1>3, <2>1, LenProperties
  <2>4. Name(key) /\ value \in Value /\ (value.list \/ Len(value.items) = 1) /\ meta[i + 1] = <<key, value>>
    BY <2>1 DEF Keyed
  <2>5. m \in Seq(Pair)
    <3>1. \A k \in 1..i : meta[k] \in Pair
      <4>1. \A k \in 1..i : k \in 1..n
        BY <1>1
      <4> QED
        BY <1>1, <4>1, ElementOfSeq
    <3> QED
      BY <2>1, <3>1, SubSeqProperties
  <2>6. Append(m, <<key, value>>) = SubSeq(meta, 1, i + 1)
    <3>1. Append(m, meta[i + 1]) = SubSeq(meta, 1, i + 1)
      BY <1>1, Growing
    <3> QED
      BY <2>4, <3>1, Zenon
  <2>7. Reads(lines)[at[i]] = SoFar(m)
    BY <1>9
  <2> HIDE DEF part, key, value, m
  <2>8. Has(lines, at[i], part)
    <3> DEFINE p == at[i]
               w == Len(part)
               t == Len(flat)
               l == Len(lines)
    <3>1. p \in Nat /\ w \in Nat /\ p + w <= t /\ t \in Nat /\ t <= l /\ l \in Nat
      BY <1>7, <2>2, <2>3, LenProperties
    <3> HIDE DEF p, w, t, l
    <3>2. p + w <= l
      BY <3>1
    <3>3. \A k \in 1..w : p + k \in 1..t
      BY <3>1, Positions, Zenon
    <3>4. \A k \in 1..w : lines[p + k] = flat[p + k]
      BY <1>7, <3>3 DEF t
    <3>5. \A k \in 1..w : flat[p + k] = part[k]
      BY <2>2 DEF p, w
    <3>6. \A k \in 1..w : lines[p + k] = part[k]
      BY <3>4, <3>5
    <3> QED
      BY <3>2, <3>6 DEF Has, p, w, l
  <2>9. Reads(lines)[at[i] + Len(part)] = SoFar(Append(m, <<key, value>>))
    <3>1. at[i] \in Nat /\ Name(key) /\ value \in Value /\ (value.list \/ Len(value.items) = 1)
      BY <2>2, <2>4
    <3>2. Has(lines, at[i], LinesOf(key, value))
      BY <2>3, <2>8
    <3>3. Reads(lines)[at[i] + Len(LinesOf(key, value))] = SoFar(Append(m, <<key, value>>))
      BY <2>5, <2>7, <3>1, <3>2, PairRead
    <3> QED
      BY <2>3, <3>3
  <2>10. Reads(lines)[at[i + 1]] = SoFar(SubSeq(meta, 1, i + 1))
    BY <2>2, <2>6, <2>9
  <2> QED
    BY <2>1, <2>10
<1>10. n \in S
  <2> HIDE DEF S, n
  <2>1. \A i \in 0..n : i \in S
    BY <1>1, <1>8, <1>9, Upward, Zenon
  <2> QED
    BY <1>1, <2>1
<1>11. at[n] = Len(flat)
  BY <1>3, <1>6 DEF Placed
<1>12. SubSeq(meta, 1, n) = meta
  BY <1>1, SubSeqFull
<1>13. Reads(lines)[Len(flat)] = SoFar(meta)
  BY <1>10, <1>11, <1>12
<1> QED
  BY <1>5, <1>13 DEF flat

--------------------------------------------------------------------------------
\* A written entry is read back.
LEMMA EntryRead ==
    ASSUME NEW meta, NEW body, Keyed(meta), body \in Seq(Line),
           body # <<>> => body[1] # <<>> /\ Last(body) # <<>>
    PROVE  LET read == loads(dumps(meta, body)) IN
           ~read.bad /\ read.meta = meta /\ read.body = body
<1> DEFINE flat == KeyLines(meta)
           delim == <<DELIM>>
           tail == IF body = <<>> THEN <<>> ELSE <<<<>>>> \o body
           head == delim \o flat
           front == head \o delim
           text == front \o tail
           lines == Tail(text)
<1>1. dumps(meta, body) = text
  BY DEF dumps, KeyLines
<1>2. delim \in Seq(Line) /\ Len(delim) = 1 /\ delim[1] = DELIM
  <2>1. DELIM \in Line
    <3>1. "-" \in Char
      BY CharAssumption
    <3> QED
      BY <3>1 DEF DELIM, Line
  <2> QED
    BY <2>1
<1>3. flat \in Seq(Line)
  BY KeyLinesAreLines
<1>4. tail \in Seq(Line) /\ Strip(tail, <<>>) = body
  <2>1. CASE body = <<>>
    BY <2>1, StrippedEmpty
  <2>2. CASE body # <<>>
    <3> DEFINE gap == <<<<>>>>
    <3>1. gap \in Seq(Line) /\ Len(gap) = 1 /\ gap[1] = <<>>
      BY DEF Line
    <3>2. tail = gap \o body
      BY <2>2
    <3> HIDE DEF gap, tail
    <3>3. tail \in Seq(Line) /\ Halved(tail, gap, body)
      BY <3>1, <3>2, Halves
    <3>4. Len(body) \in Nat /\ Len(body) >= 1 /\ body[1] # <<>> /\ body[Len(body)] # <<>>
      BY <2>2, LenProperties, EmptySeq DEF Last
    <3>5. /\ Len(tail) = 1 + Len(body) /\ tail[1] = <<>>
          /\ tail[1 + 1] = body[1] /\ tail[1 + Len(body)] = body[Len(body)]
          /\ SubSeq(tail, 1 + 1, Len(tail)) = body
      BY <3>1, <3>3, <3>4 DEF Halved
    <3>6. 2 \in 1..Len(tail) /\ tail[2] # <<>> /\ tail[Len(tail)] # <<>> /\ SubSeq(tail, 2, Len(tail)) = body
      BY <3>4, <3>5
    <3>7. \A j \in 1 .. 2 - 1 : tail[j] = <<>>
      BY <3>5
    <3>8. Strip(tail, <<>>) = SubSeq(tail, 2, Len(tail))
      BY <3>3, <3>6, <3>7, Stripping, Zenon
    <3> QED
      BY <3>3, <3>6, <3>8
  <2> QED
    BY <2>1, <2>2
<1> HIDE DEF flat, delim, tail
<1>5. head \in Seq(Line) /\ Halved(head, delim, flat)
  BY <1>2, <1>3, Halves
<1> HIDE DEF head
<1>6. front \in Seq(Line) /\ Halved(front, head, delim)
  BY <1>2, <1>5, Halves
<1> HIDE DEF front
<1>7. text \in Seq(Line) /\ Halved(text, front, tail)
  BY <1>4, <1>6, Halves
<1> HIDE DEF text
<1> DEFINE n == Len(flat)
           k == Len(tail)
<1>8. /\ n \in Nat /\ k \in Nat
      /\ Len(head) = 1 + n /\ Len(front) = (1 + n) + 1 /\ Len(text) = ((1 + n) + 1) + k
  BY <1>2, <1>5, <1>6, <1>7 DEF Halved
<1>9. /\ head[1] = DELIM /\ \A i \in 1..n : head[1 + i] = flat[i]
      /\ \A i \in 1 .. 1 + n : front[i] = head[i]
      /\ front[(1 + n) + 1] = DELIM
      /\ \A i \in 1 .. (1 + n) + 1 : text[i] = front[i]
      /\ \A i \in 1..k : text[((1 + n) + 1) + i] = tail[i]
  BY <1>2, <1>5, <1>6, <1>7, <1>8 DEF Halved
<1> HIDE DEF n, k
<1>10. text # <<>> /\ text[1] = DELIM
  <2>1. 1 \in 1 .. 1 + n /\ 1 \in 1 .. (1 + n) + 1
    BY <1>8
  <2>2. text[1] = DELIM
    BY <1>9, <2>1
  <2>3. Len(text) # 0
    BY <1>8
  <2> QED
    BY <2>2, <2>3
<1>11. /\ lines \in Seq(Line) /\ Len(lines) = Len(text) - 1
       /\ \A i \in 1..Len(lines) : lines[i] = text[i + 1]
  BY <1>7, <1>10, HeadTailProperties
<1> HIDE DEF lines
<1>12. Len(lines) = (n + 1) + k
  BY <1>8, <1>11
<1>13. Has(lines, 0, flat)
  <2>1. ASSUME NEW i \in 1..n
        PROVE  lines[0 + i] = flat[i]
    <3>1. /\ 0 + i = i /\ i \in 1..Len(lines)
          /\ i + 1 \in 1 .. (1 + n) + 1 /\ i + 1 \in 1 .. 1 + n /\ i + 1 = 1 + i
      BY <1>8, <1>12
    <3>2. lines[i] = text[i + 1] /\ text[i + 1] = front[i + 1] /\ front[i + 1] = head[i + 1] /\ head[1 + i] = flat[i]
      BY <1>9, <1>11, <3>1
    <3> QED
      BY <3>1, <3>2
  <2>2. 0 + n <= Len(lines)
    BY <1>8, <1>12
  <2> QED
    BY <2>1, <2>2 DEF Has, n
<1>14. Reads(lines)[n] = SoFar(meta)
  BY <1>11, <1>13, MetaRead DEF flat, n
<1>15. lines[n + 1] = DELIM
  <2>1. n + 1 \in 1..Len(lines) /\ (n + 1) + 1 = (1 + n) + 1 /\ (1 + n) + 1 \in 1 .. (1 + n) + 1
    BY <1>8, <1>12
  <2> QED
    BY <1>9, <1>11, <2>1
<1>16. Reads(lines)[n + 1] = Ended(meta, <<>>)
  <2>1. n \in Nat /\ n + 1 <= Len(lines)
    BY <1>8, <1>12
  <2>2. Reads(lines)[n + 1] = ReadLine(Reads(lines)[n], lines[n + 1])
    BY <1>11, <2>1, ReadNext
  <2>3. ReadLine(SoFar(meta), DELIM) = Ended(meta, <<>>)
    BY EndRead
  <2> QED
    BY <1>14, <1>15, <2>2, <2>3, Zenon
<1>17. Has(lines, n + 1, tail)
  <2>1. ASSUME NEW i \in 1..k
        PROVE  lines[(n + 1) + i] = tail[i]
    <3>1. (n + 1) + i \in 1..Len(lines) /\ ((n + 1) + i) + 1 = ((1 + n) + 1) + i
      BY <1>8, <1>12
    <3> QED
      BY <1>9, <1>11, <3>1
  <2>2. (n + 1) + k <= Len(lines)
    BY <1>8, <1>12
  <2> QED
    BY <2>1, <2>2 DEF Has, k
<1>18. Reads(lines)[(n + 1) + k] = Ended(meta, tail)
  <2>1. n + 1 \in Nat
    BY <1>8
  <2> QED
    BY <1>4, <1>11, <1>16, <1>17, <2>1, BodyLines DEF k
<1>19. Reads(Tail(text))[Len(text) - 1] = Ended(meta, tail)
  BY <1>11, <1>12, <1>18 DEF lines
<1>20. Strip(text[1], "sp") = DELIM
  BY <1>10, EndRead
<1> DEFINE read == Ended(meta, tail)
<1>21. loads(text) = [read EXCEPT !.bad = read.bad \/ ~read.end, !.body = Strip(read.body, <<>>)]
  BY <1>10, <1>19, <1>20, Zenon DEF loads
<1>22. /\ loads(text).bad = (read.bad \/ ~read.end)
       /\ loads(text).meta = read.meta
       /\ loads(text).body = Strip(read.body, <<>>)
  <2> DEFINE b == read.bad \/ ~read.end
             s == Strip(read.body, <<>>)
  <2>1. read = [bad |-> FALSE, end |-> TRUE, meta |-> meta, body |-> tail]
    BY DEF Ended
  <2>2. loads(text) = [read EXCEPT !.bad = b, !.body = s]
    BY <1>21
  <2> HIDE DEF b, s, read
  <2> QED
    BY <2>1, <2>2 DEF b, s
<1>23. read.bad = FALSE /\ read.end = TRUE /\ read.meta = meta /\ read.body = tail
  BY DEF Ended
<1>24. ~loads(text).bad /\ loads(text).meta = meta /\ loads(text).body = body
  BY <1>4, <1>22, <1>23
<1> QED
  BY <1>1, <1>24

\* Whatever an entry holds, it is read as it was written.
THEOREM EntriesReadBack ==
    ASSUME NEW entry, Written(entry)
    PROVE  LET read == loads(dumps(entry.meta, entry.body)) IN
           ~read.bad /\ read.meta = entry.meta /\ read.body = entry.body
<1>1. entry.meta \in Seq(Pair) /\ entry.body \in Seq(Line)
  BY DEF Written, Entry, Pair
<1>2. Keyed(entry.meta)
  <2> DEFINE meta == entry.meta
  <2>1. ASSUME NEW i \in 1..Len(meta)
        PROVE  /\ Name(meta[i][1])
               /\ meta[i][2] \in Value
               /\ meta[i][2].list \/ Len(meta[i][2].items) = 1
               /\ meta[i] = <<meta[i][1], meta[i][2]>>
    <3>1. i \in DOMAIN meta /\ meta[i] \in Pair
      BY <1>1, LenProperties, ElementOfSeq
    <3>2. meta[i][1] \in Line /\ meta[i][2] \in Value /\ meta[i] = <<meta[i][1], meta[i][2]>>
      BY <3>1 DEF Pair
    <3> QED
      BY <3>1, <3>2 DEF Written, Name
  <2> QED
    BY <1>1, <2>1 DEF Keyed
<1>3. entry.body # <<>> => entry.body[1] # <<>> /\ Last(entry.body) # <<>>
  BY DEF Written
<1> QED
  BY <1>1, <1>2, <1>3, EntryRead

\* Every entry the memory service hands to the rules is read back as it was
\* written.
THEOREM EveryEntryRoundTrips == Spec => []RoundTrip
<1> DEFINE Known == input = None \/ input.kind # "entry" \/ input.entry \in Entries
<1>1. Init => Known
  BY DEF Init
<1>2. Known /\ [Next]_input => Known'
  BY DEF Next, CheckAddress, CheckEnvelope, CheckData, CheckEntry
<1>3. Known => RoundTrip
  BY EntriesReadBack, RulesAssumption DEF RoundTrip
<1> QED
  BY <1>1, <1>2, <1>3, PTL DEF Spec
================================================================================
