--------------------------------- MODULE Policy --------------------------------
(***************************************************************************)
(* The destination policy of the fetch stage (fetch-worker/src/policy.rs): *)
(* which addresses this deployment may talk to.  Fetch takes the verdicts  *)
(* as the constant Permitted, and those on ports as PortPermitted.         *)
(*                                                                         *)
(* An address is the sequence of its octets, four or sixteen of them, at   *)
(* full width.  A denied range is what its text parses to, or Malformed.   *)
(***************************************************************************)
EXTENDS Naturals, Sequences, SequencesExt

CONSTANT Malformed  \* a denied range that does not parse, or no verdict

Octet == 0..255
Address == {a \in Seq(Octet) : Len(a) \in {4, 16}}

Zeros(n) == [i \in 1..n |-> 0]
V4(address) == Len(address) = 4

\* The sixteen-bit groups of an IPv6 address, from 1.
Segment(address, i) == address[2 * i - 1] * 256 + address[2 * i]

--------------------------------------------------------------------------------
(***************************************************************************)
(* Ranges.                                                                 *)
(***************************************************************************)
\* Cidr::parse: a prefix longer than the address is malformed.
Cidr(network, prefix) ==
    IF prefix > 8 * Len(network) THEN Malformed
    ELSE [network |-> network, prefix |-> prefix]

\* What Cidr::parse makes of a range it accepts.
Parsed(range) == range.network \in Address /\ range.prefix \in 0 .. 8 * Len(range.network)

\* A number and-ed with a mask of all bits but its last ones.
Masked(number, last) == number - (number % 2 ^ last)

matches_prefix(network, candidate, prefix) ==
    LET full == prefix \div 8  remainder == prefix % 8 IN
    /\ SubSeq(network, 1, full) = SubSeq(candidate, 1, full)
    /\ remainder # 0 =>
          Masked(network[full + 1], 8 - remainder) = Masked(candidate[full + 1], 8 - remainder)

--------------------------------------------------------------------------------
(***************************************************************************)
(* One classification for every spelling.                                  *)
(***************************************************************************)
Mapped == Zeros(10) \o <<255, 255>>
Compatible == Zeros(12)
SixToFour == <<32, 2>>
Nat64 == <<0, 100, 255, 155>> \o Zeros(8)

Unspecified(address) == address = Zeros(Len(address))
Loopback(address) ==
    IF V4(address) THEN address[1] = 127 ELSE address = Zeros(15) \o <<1>>

\* Mutant: a NAT64 address is taken for an address of its own.
canonical_keeps_nat64(address) ==
    IF V4(address) THEN address
    ELSE IF IsPrefix(Mapped, address) THEN SubSeq(address, 13, 16)
    ELSE IF IsPrefix(Compatible, address) /\ ~Unspecified(address) /\ ~Loopback(address)
         THEN SubSeq(address, 13, 16)
    ELSE IF IsPrefix(SixToFour, address) THEN SubSeq(address, 3, 6)
    ELSE address

\* The IPv4 address an IPv6 address spells, or the address itself.
canonical(address) ==
    IF V4(address) THEN address
    ELSE IF IsPrefix(Mapped, address) THEN SubSeq(address, 13, 16)
    ELSE IF IsPrefix(Compatible, address) /\ ~Unspecified(address) /\ ~Loopback(address)
         THEN SubSeq(address, 13, 16)
    ELSE IF IsPrefix(SixToFour, address) THEN SubSeq(address, 3, 6)
    ELSE IF IsPrefix(Nat64, address) THEN SubSeq(address, 13, 16)
    ELSE address

\* Cidr::contains: the network is compared as it was written.
contains(range, address) ==
    LET candidate == canonical(address) IN
    /\ Len(range.network) = Len(candidate)
    /\ matches_prefix(range.network, candidate, range.prefix)

\* The space each kind of address has that is not public.
special_v4(address) ==
    LET a == address[1]  b == address[2]  c == address[3] IN
    \/ a \in {0, 10, 127}
    \/ a = 172 /\ b \in 16..31
    \/ a = 192 /\ b = 168
    \/ a = 169 /\ b = 254
    \/ a \in 224..239
    \/ a = 192 /\ b = 0 /\ c = 2
    \/ a = 198 /\ b = 51 /\ c = 100
    \/ a = 203 /\ b = 0 /\ c = 113
    \/ a = 100 /\ b \in 64..127
    \/ a = 192 /\ b = 0 /\ c = 0
    \/ a = 192 /\ b = 88 /\ c = 99
    \/ a = 198 /\ b \in {18, 19}
    \/ a >= 240

special_v6(address) ==
    LET first == Segment(address, 1)  second == Segment(address, 2) IN
    \/ Unspecified(address) \/ Loopback(address)
    \/ address[1] = 255
    \/ Masked(first, 9) = 64512
    \/ Masked(first, 6) \in {65152, 65216}
    \/ first = 8193 /\ second \in {0, 3512}
    \/ IsPrefix(<<1>> \o Zeros(7), address)

is_public(address) ==
    LET known == canonical(address) IN
    IF V4(known) THEN ~special_v4(known) ELSE ~special_v6(known)

--------------------------------------------------------------------------------
(***************************************************************************)
(* The policy file.                                                        *)
(***************************************************************************)
\* DestinationPolicy::load.  A file that is not read to its end, or not of
\* this version, or without ranges, or with one that does not parse, leaves
\* the capability unavailable.
Loads(file) ==
    /\ file.version = 1
    /\ file.denied # {}
    /\ Malformed \notin file.denied

permits(file, address) ==
    LET known == canonical(address) IN
    /\ \A range \in file.denied : ~contains(range, known)
    /\ is_public(known) \/ (file.profile = "test" /\ Loopback(known))

--------------------------------------------------------------------------------
(***************************************************************************)
(* References: ranges bit by bit, and the special-purpose space as the     *)
(* registries list it.                                                     *)
(***************************************************************************)
\* Bit i of an address, from 0.
Bit(address, i) == (address[i \div 8 + 1] \div 2 ^ (7 - (i % 8))) % 2

InRange(address, network, prefix) ==
    /\ Len(address) = Len(network)
    /\ \A i \in 0 .. prefix - 1 : Bit(address, i) = Bit(network, i)

V6Net(octets) == octets \o Zeros(16 - Len(octets))

Special4 ==
    {<<<<0, 0, 0, 0>>, 8>>, <<<<10, 0, 0, 0>>, 8>>, <<<<100, 64, 0, 0>>, 10>>,
     <<<<127, 0, 0, 0>>, 8>>, <<<<169, 254, 0, 0>>, 16>>, <<<<172, 16, 0, 0>>, 12>>,
     <<<<192, 0, 0, 0>>, 24>>, <<<<192, 0, 2, 0>>, 24>>, <<<<192, 88, 99, 0>>, 24>>,
     <<<<192, 168, 0, 0>>, 16>>, <<<<198, 18, 0, 0>>, 15>>, <<<<198, 51, 100, 0>>, 24>>,
     <<<<203, 0, 113, 0>>, 24>>, <<<<224, 0, 0, 0>>, 4>>, <<<<240, 0, 0, 0>>, 4>>}

Special6 ==
    {<<Zeros(16), 128>>, <<Zeros(15) \o <<1>>, 128>>,
     <<V6Net(<<1>>), 64>>, <<V6Net(<<32, 1>>), 32>>, <<V6Net(<<32, 1, 13, 184>>), 32>>,
     <<V6Net(<<252>>), 7>>, <<V6Net(<<254, 128>>), 10>>, <<V6Net(<<254, 192>>), 10>>,
     <<V6Net(<<255>>), 8>>}

\* Every way an IPv4 address can be written as an address; :: and ::1 are
\* addresses of their own.
SpellingsOf(address) ==
    IF ~V4(address) THEN {address}
    ELSE {address, Mapped \o address, Nat64 \o address, SixToFour \o address \o Zeros(10)}
         \cup (IF address \in {Zeros(4), <<0, 0, 0, 1>>} THEN {} ELSE {Compatible \o address})

\* An address that does not spell another.
Plain(address) ==
    \/ V4(address)
    \/ address \in {Zeros(16), Zeros(15) \o <<1>>}
    \/ ~ \E carrier \in {<<Mapped, 96>>, <<Compatible, 96>>, <<Nat64, 96>>, <<SixToFour, 16>>} :
            InRange(address, V6Net(carrier[1]), carrier[2])

\* The verdict the policy file asks for, stated on the plain address.
ReferenceVerdict(file, address) ==
    /\ ~ \E range \in file.denied : InRange(address, range.network, range.prefix)
    /\ \/ ~ \E special \in Special4 \cup Special6 : InRange(address, special[1], special[2])
       \/ file.profile = "test" /\ Loopback(address)

\* The first and the last address of a range and the ones that differ from
\* them by one in the last octet the prefix reaches.
EdgesOf(network, prefix) ==
    LET k == IF prefix = 0 THEN 1 ELSE (prefix + 7) \div 8
        size == 2 ^ (8 * k - prefix)
        first == (network[k] \div size) * size
        At(octet, tail) == [i \in DOMAIN network |-> IF i < k THEN network[i]
                                                     ELSE IF i = k THEN octet ELSE tail]
    IN {At(octet, tail) : octet \in {first - 1, first, first + size - 1, first + size} \cap 0..255,
                          tail \in {0, 255}}
================================================================================
