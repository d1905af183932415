------------------------------ MODULE PolicyProofs -----------------------------
(***************************************************************************)
(* The verdict on a destination, for every address and every policy file.  *)
(*                                                                         *)
(* The verdict of the code goes octet by octet and by tables of octets,    *)
(* the reference bit by bit and by the registered ranges.  The two meet in *)
(* InRangeOctets: the bits of a prefix are its whole octets and the top of *)
(* the next one, since an octet is twice what is left of it without its    *)
(* next bit, and that bit (TopsStep).                                      *)
(***************************************************************************)
EXTENDS Rules, SequenceTheorems, TLAPS

--------------------------------------------------------------------------------
(***************************************************************************)
(* Octets and their bits.                                                  *)
(***************************************************************************)
\* Bit j of an octet, from the top, and what its n top bits make.
BitOf(octet, j) == (octet \div 2 ^ (7 - j)) % 2
Tops(octet, n) == octet \div 2 ^ (8 - n)

LEMMA BitsAt ==
    ASSUME NEW x
    PROVE  /\ BitOf(x, 0) = (x \div 128) % 2 /\ BitOf(x, 1) = (x \div 64) % 2
           /\ BitOf(x, 2) = (x \div 32) % 2 /\ BitOf(x, 3) = (x \div 16) % 2
           /\ BitOf(x, 4) = (x \div 8) % 2 /\ BitOf(x, 5) = (x \div 4) % 2
           /\ BitOf(x, 6) = (x \div 2) % 2 /\ BitOf(x, 7) = (x \div 1) % 2
BY DEF BitOf

LEMMA TopsAt ==
    ASSUME NEW x
    PROVE  /\ Tops(x, 0) = x \div 256 /\ Tops(x, 1) = x \div 128
           /\ Tops(x, 2) = x \div 64 /\ Tops(x, 3) = x \div 32
           /\ Tops(x, 4) = x \div 16 /\ Tops(x, 5) = x \div 8
           /\ Tops(x, 6) = x \div 4 /\ Tops(x, 7) = x \div 2
           /\ Tops(x, 8) = x \div 1
BY DEF Tops

\* All eight bits are the octet.
LEMMA WholeTop == ASSUME NEW x \in Octet PROVE Tops(x, 8) = x
<1>1. Tops(x, 8) = x \div 1
  BY TopsAt
<1> QED
  BY <1>1 DEF Octet

\* Halving what is left of an octet leaves what is left of it a bit earlier.
LEMMA Halves ==
    ASSUME NEW x \in Octet
    PROVE  /\ (x \div 128) \div 2 = x \div 256 /\ (x \div 64) \div 2 = x \div 128
           /\ (x \div 32) \div 2 = x \div 64 /\ (x \div 16) \div 2 = x \div 32
           /\ (x \div 8) \div 2 = x \div 16 /\ (x \div 4) \div 2 = x \div 8
           /\ (x \div 2) \div 2 = x \div 4 /\ (x \div 1) \div 2 = x \div 2
<1> USE DEF Octet
<1>1. (x \div 128) \div 2 = x \div 256 /\ (x \div 64) \div 2 = x \div 128
  OBVIOUS
<1>2. (x \div 32) \div 2 = x \div 64 /\ (x \div 16) \div 2 = x \div 32
  OBVIOUS
<1>3. (x \div 8) \div 2 = x \div 16 /\ (x \div 4) \div 2 = x \div 8
  OBVIOUS
<1>4. (x \div 2) \div 2 = x \div 4 /\ (x \div 1) \div 2 = x \div 2
  OBVIOUS
<1> QED
  BY <1>1, <1>2, <1>3, <1>4

LEMMA Halved ==
    ASSUME NEW q \in Nat
    PROVE  q = 2 * (q \div 2) + (q % 2) /\ q % 2 \in {0, 1} /\ q \div 2 \in Nat
OBVIOUS

\* One bit more.
LEMMA TopsStep ==
    ASSUME NEW x \in Octet, NEW n \in 0..7
    PROVE  /\ Tops(x, n + 1) = 2 * Tops(x, n) + BitOf(x, n)
           /\ Tops(x, n) \in Nat /\ BitOf(x, n) \in {0, 1}
<1>1. Tops(x, n + 1) \in Nat
  BY TopsAt DEF Octet
<1>2. Tops(x, n + 1) \div 2 = Tops(x, n)
  BY TopsAt, Halves
<1>3. Tops(x, n + 1) % 2 = BitOf(x, n)
  BY TopsAt, BitsAt
<1> QED
  BY <1>1, <1>2, <1>3, Halved

\* Two octets have one top exactly when they have its bits in common.
LEMMA TopsAreBits ==
    ASSUME NEW x \in Octet, NEW y \in Octet, NEW n \in 0..8
    PROVE  Tops(x, n) = Tops(y, n) <=> \A j \in 0 .. n - 1 : BitOf(x, j) = BitOf(y, j)
<1> DEFINE Agree(m) ==
             Tops(x, m) = Tops(y, m) <=> \A j \in 0 .. m - 1 : BitOf(x, j) = BitOf(y, j)
<1>0. Agree(0)
  BY TopsAt DEF Octet
<1>1. ASSUME NEW m \in 0..7, Agree(m)
      PROVE  Agree(m + 1)
  <2>1. Tops(x, m + 1) = Tops(y, m + 1) <=>
          Tops(x, m) = Tops(y, m) /\ BitOf(x, m) = BitOf(y, m)
    <3>1. /\ Tops(x, m + 1) = 2 * Tops(x, m) + BitOf(x, m)
          /\ Tops(x, m) \in Nat /\ BitOf(x, m) \in {0, 1}
      BY TopsStep
    <3>2. /\ Tops(y, m + 1) = 2 * Tops(y, m) + BitOf(y, m)
          /\ Tops(y, m) \in Nat /\ BitOf(y, m) \in {0, 1}
      BY TopsStep
    <3> QED
      BY <3>1, <3>2
  <2> QED
    BY <1>1, <2>1
<1> HIDE DEF Agree
<1>2. Agree(1) /\ Agree(2)
  <2>1. Agree(0 + 1)
    BY <1>0, <1>1
  <2>2. Agree(1 + 1)
    BY <1>1, <2>1
  <2> QED
    BY <2>1, <2>2
<1>3. Agree(3) /\ Agree(4)
  <2>1. Agree(2 + 1)
    BY <1>1, <1>2
  <2>2. Agree(3 + 1)
    BY <1>1, <2>1
  <2> QED
    BY <2>1, <2>2
<1>4. Agree(5) /\ Agree(6)
  <2>1. Agree(4 + 1)
    BY <1>1, <1>3
  <2>2. Agree(5 + 1)
    BY <1>1, <2>1
  <2> QED
    BY <2>1, <2>2
<1>5. Agree(7) /\ Agree(8)
  <2>1. Agree(6 + 1)
    BY <1>1, <1>4
  <2>2. Agree(7 + 1)
    BY <1>1, <2>1
  <2> QED
    BY <2>1, <2>2
<1>6. Agree(n)
  BY <1>0, <1>2, <1>3, <1>4, <1>5
<1> QED
  BY <1>6 DEF Agree

\* Masking an octet leaves its top.
LEMMA MaskedAt ==
    ASSUME NEW x
    PROVE  /\ Masked(x, 1) = x - (x % 2) /\ Masked(x, 2) = x - (x % 4)
           /\ Masked(x, 3) = x - (x % 8) /\ Masked(x, 4) = x - (x % 16)
           /\ Masked(x, 5) = x - (x % 32) /\ Masked(x, 6) = x - (x % 64)
           /\ Masked(x, 7) = x - (x % 128) /\ Masked(x, 9) = x - (x % 512)
BY DEF Masked

LEMMA MaskedTop ==
    ASSUME NEW x \in Octet
    PROVE  /\ Masked(x, 7) = 128 * Tops(x, 1) /\ Masked(x, 6) = 64 * Tops(x, 2)
           /\ Masked(x, 5) = 32 * Tops(x, 3) /\ Masked(x, 4) = 16 * Tops(x, 4)
           /\ Masked(x, 3) = 8 * Tops(x, 5) /\ Masked(x, 2) = 4 * Tops(x, 6)
           /\ Masked(x, 1) = 2 * Tops(x, 7)
<1>0. /\ x = 128 * (x \div 128) + (x % 128) /\ x = 64 * (x \div 64) + (x % 64)
      /\ x = 32 * (x \div 32) + (x % 32) /\ x = 16 * (x \div 16) + (x % 16)
      /\ x = 8 * (x \div 8) + (x % 8) /\ x = 4 * (x \div 4) + (x % 4)
      /\ x = 2 * (x \div 2) + (x % 2)
  BY DEF Octet
<1>1. /\ x % 128 \in Nat /\ x % 64 \in Nat /\ x % 32 \in Nat /\ x % 16 \in Nat
      /\ x % 8 \in Nat /\ x % 4 \in Nat /\ x % 2 \in Nat
  BY DEF Octet
<1>2. /\ x \div 128 \in Nat /\ x \div 64 \in Nat /\ x \div 32 \in Nat /\ x \div 16 \in Nat
      /\ x \div 8 \in Nat /\ x \div 4 \in Nat /\ x \div 2 \in Nat
  BY DEF Octet
<1> QED
  BY <1>0, <1>1, <1>2, MaskedAt, TopsAt

LEMMA MaskedIsTop ==
    ASSUME NEW x \in Octet, NEW y \in Octet, NEW r \in 1..7
    PROVE  Masked(x, 8 - r) = Masked(y, 8 - r) <=> Tops(x, r) = Tops(y, r)
<1>1. /\ Tops(x, r) \in Nat /\ Tops(y, r) \in Nat
  BY TopsStep
<1>2. r \in 1..3 => (Masked(x, 8 - r) = Masked(y, 8 - r) <=> Tops(x, r) = Tops(y, r))
  BY <1>1, MaskedTop
<1>3. r \in 4..7 => (Masked(x, 8 - r) = Masked(y, 8 - r) <=> Tops(x, r) = Tops(y, r))
  BY <1>1, MaskedTop
<1> QED
  BY <1>2, <1>3

--------------------------------------------------------------------------------
(***************************************************************************)
(* Ranges: the whole octets of a prefix and the top of the next.           *)
(***************************************************************************)
LEMMA AddressSeq ==
    ASSUME NEW a \in Address
    PROVE  /\ a \in Seq(Octet) /\ Len(a) \in {4, 16} /\ Len(a) \in Nat
           /\ \A k \in 1..Len(a) : a[k] \in Octet
BY DEF Address

\* Two beginnings are equal octet by octet.
LEMMA SubSeqEqual ==
    ASSUME NEW s \in Seq(Octet), NEW t \in Seq(Octet), NEW n \in Nat, n <= Len(s), n <= Len(t)
    PROVE  SubSeq(s, 1, n) = SubSeq(t, 1, n) <=> \A k \in 1..n : s[k] = t[k]
<1>0. /\ \A i \in 1..n : s[i] \in Octet
      /\ \A i \in 1..n : t[i] \in Octet
  OBVIOUS
<1>1. /\ SubSeq(s, 1, n) \in Seq(Octet) /\ Len(SubSeq(s, 1, n)) = n
      /\ \A k \in 1..n : SubSeq(s, 1, n)[k] = s[k]
  BY <1>0
<1>2. /\ SubSeq(t, 1, n) \in Seq(Octet) /\ Len(SubSeq(t, 1, n)) = n
      /\ \A k \in 1..n : SubSeq(t, 1, n)[k] = t[k]
  BY <1>0
<1>3. ASSUME \A k \in 1..n : s[k] = t[k]
      PROVE  SubSeq(s, 1, n) = SubSeq(t, 1, n)
  BY <1>1, <1>2, <1>3, SeqEqual
<1>4. ASSUME SubSeq(s, 1, n) = SubSeq(t, 1, n)
      PROVE  \A k \in 1..n : s[k] = t[k]
  BY <1>1, <1>2, <1>4
<1> QED
  BY <1>3, <1>4

\* What the whole octets of a prefix and the bits after them have in common.
SameOctets(network, candidate, prefix) ==
    /\ \A k \in 1 .. prefix \div 8 : network[k] = candidate[k]
    /\ prefix % 8 # 0 =>
          Tops(network[prefix \div 8 + 1], prefix % 8) = Tops(candidate[prefix \div 8 + 1], prefix % 8)

LEMMA Split ==
    ASSUME NEW width \in {4, 16}, NEW prefix \in 0 .. 8 * width
    PROVE  /\ prefix \div 8 \in 0..width /\ prefix % 8 \in 0..7
           /\ prefix % 8 # 0 => prefix \div 8 + 1 \in 1..width
           /\ prefix = 8 * (prefix \div 8) + (prefix % 8)
OBVIOUS

\* The code compares octets, and masked octets.
LEMMA MatchesOctets ==
    ASSUME NEW network \in Address, NEW candidate \in Address,
           Len(network) = Len(candidate), NEW prefix \in 0 .. 8 * Len(network)
    PROVE  matches_prefix(network, candidate, prefix) <=> SameOctets(network, candidate, prefix)
<1> DEFINE full == prefix \div 8
           rest == prefix % 8
<1>1. /\ network \in Seq(Octet) /\ candidate \in Seq(Octet) /\ Len(network) \in {4, 16}
      /\ \A k \in 1..Len(network) : network[k] \in Octet /\ candidate[k] \in Octet
  BY AddressSeq
<1>2. /\ full \in 0..Len(network) /\ rest \in 0..7
      /\ rest # 0 => full + 1 \in 1..Len(network)
  BY <1>1, Split
<1>3. matches_prefix(network, candidate, prefix) <=>
         /\ SubSeq(network, 1, full) = SubSeq(candidate, 1, full)
         /\ rest # 0 => Masked(network[full + 1], 8 - rest) = Masked(candidate[full + 1], 8 - rest)
  BY DEF matches_prefix
<1>4. SameOctets(network, candidate, prefix) <=>
         /\ \A k \in 1..full : network[k] = candidate[k]
         /\ rest # 0 => Tops(network[full + 1], rest) = Tops(candidate[full + 1], rest)
  BY DEF SameOctets
<1> HIDE DEF full, rest
<1>5. SubSeq(network, 1, full) = SubSeq(candidate, 1, full)
        <=> \A k \in 1..full : network[k] = candidate[k]
  BY <1>1, <1>2, SubSeqEqual
<1>6. rest # 0 =>
        (Masked(network[full + 1], 8 - rest) = Masked(candidate[full + 1], 8 - rest)
            <=> Tops(network[full + 1], rest) = Tops(candidate[full + 1], rest))
  <2> SUFFICES ASSUME rest # 0
               PROVE  Masked(network[full + 1], 8 - rest) = Masked(candidate[full + 1], 8 - rest)
                        <=> Tops(network[full + 1], rest) = Tops(candidate[full + 1], rest)
    OBVIOUS
  <2>1. rest \in 1..7 /\ network[full + 1] \in Octet /\ candidate[full + 1] \in Octet
    BY <1>1, <1>2
  <2> QED
    BY <2>1, MaskedIsTop
<1> QED
  BY <1>3, <1>4, <1>5, <1>6

\* A bit of an address is a bit of one of its octets.
LEMMA BitAt ==
    ASSUME NEW address, NEW k \in Nat, NEW j \in 0..7
    PROVE  Bit(address, 8 * k + j) = BitOf(address[k + 1], j)
<1>1. (8 * k + j) \div 8 = k /\ (8 * k + j) % 8 = j
  OBVIOUS
<1> QED
  BY <1>1 DEF Bit, BitOf

\* The reference compares bits.
LEMMA InRangeOctets ==
    ASSUME NEW network \in Address, NEW candidate \in Address,
           Len(network) = Len(candidate), NEW prefix \in 0 .. 8 * Len(network)
    PROVE  InRange(candidate, network, prefix) <=> SameOctets(network, candidate, prefix)
<1> DEFINE full == prefix \div 8
           rest == prefix % 8
           Same == \A i \in 0 .. prefix - 1 : Bit(candidate, i) = Bit(network, i)
           SameBits(k, n) == \A j \in 0 .. n - 1 : BitOf(network[k], j) = BitOf(candidate[k], j)
<1>1. /\ Len(network) \in {4, 16}
      /\ \A k \in 1..Len(network) : network[k] \in Octet /\ candidate[k] \in Octet
  BY AddressSeq
<1>2. /\ full \in 0..Len(network) /\ rest \in 0..7
      /\ rest # 0 => full + 1 \in 1..Len(network)
      /\ prefix = 8 * full + rest
  BY <1>1, Split
<1>3. InRange(candidate, network, prefix) <=> Same
  BY DEF InRange
<1>4. SameOctets(network, candidate, prefix) <=>
         /\ \A k \in 1..full : network[k] = candidate[k]
         /\ rest # 0 => Tops(network[full + 1], rest) = Tops(candidate[full + 1], rest)
  BY DEF SameOctets
<1>5. \A k \in 1..full : SameBits(k, 8) <=> network[k] = candidate[k]
  <2> SUFFICES ASSUME NEW k \in 1..full
               PROVE  SameBits(k, 8) <=> network[k] = candidate[k]
    OBVIOUS
  <2>1. network[k] \in Octet /\ candidate[k] \in Octet
    BY <1>1, <1>2
  <2>2. Tops(network[k], 8) = network[k] /\ Tops(candidate[k], 8) = candidate[k]
    BY <2>1, WholeTop
  <2> QED
    BY <2>1, <2>2, TopsAreBits
<1>6. rest # 0 =>
        (SameBits(full + 1, rest)
            <=> Tops(network[full + 1], rest) = Tops(candidate[full + 1], rest))
  <2> SUFFICES ASSUME rest # 0
               PROVE  SameBits(full + 1, rest)
                        <=> Tops(network[full + 1], rest) = Tops(candidate[full + 1], rest)
    OBVIOUS
  <2>1. rest \in 0..8 /\ network[full + 1] \in Octet /\ candidate[full + 1] \in Octet
    BY <1>1, <1>2
  <2> QED
    BY <2>1, TopsAreBits
<1> HIDE DEF full, rest
<1>7. ASSUME Same
      PROVE  (\A k \in 1..full : SameBits(k, 8)) /\ (rest # 0 => SameBits(full + 1, rest))
  <2>1. ASSUME NEW k \in 1 .. full + 1, NEW j \in 0..7, 8 * (k - 1) + j < prefix
        PROVE  BitOf(network[k], j) = BitOf(candidate[k], j)
    <3> DEFINE i == 8 * (k - 1) + j
    <3>1. i \in 0 .. prefix - 1 /\ k - 1 \in Nat
      BY <1>2, <2>1
    <3>2. Bit(candidate, i) = Bit(network, i)
      BY <1>7, <3>1
    <3>3. /\ Bit(candidate, i) = BitOf(candidate[(k - 1) + 1], j)
          /\ Bit(network, i) = BitOf(network[(k - 1) + 1], j)
      BY <2>1, <3>1, BitAt
    <3>4. (k - 1) + 1 = k
      BY <1>2
    <3> HIDE DEF i
    <3> QED
      BY <3>2, <3>3, <3>4
  <2>2. ASSUME NEW k \in 1..full
        PROVE  SameBits(k, 8)
    <3> SUFFICES ASSUME NEW j \in 0..7
                 PROVE  BitOf(network[k], j) = BitOf(candidate[k], j)
      OBVIOUS
    <3>1. 8 * (k - 1) + j < prefix /\ k \in 1 .. full + 1
      BY <1>2
    <3> QED
      BY <2>1, <3>1
  <2>3. ASSUME rest # 0
        PROVE  SameBits(full + 1, rest)
    <3> SUFFICES ASSUME NEW j \in 0 .. rest - 1
                 PROVE  BitOf(network[full + 1], j) = BitOf(candidate[full + 1], j)
      OBVIOUS
    <3>1. 8 * ((full + 1) - 1) + j < prefix /\ full + 1 \in 1 .. full + 1 /\ j \in 0..7
      BY <1>2
    <3> QED
      BY <2>1, <3>1
  <2> QED
    BY <2>2, <2>3
<1>8. ASSUME \A k \in 1..full : SameBits(k, 8), rest # 0 => SameBits(full + 1, rest)
      PROVE  Same
  <2> SUFFICES ASSUME NEW i \in 0 .. prefix - 1
               PROVE  Bit(candidate, i) = Bit(network, i)
    OBVIOUS
  <2> DEFINE k == i \div 8
             j == i % 8
  <2>1. i = 8 * k + j /\ k \in Nat /\ j \in 0..7
    BY <1>2
  <2>2. Bit(candidate, i) = BitOf(candidate[k + 1], j) /\ Bit(network, i) = BitOf(network[k + 1], j)
    BY <2>1, BitAt
  <2> HIDE DEF k, j
  <2>3. CASE k < full
    <3>1. k + 1 \in 1..full /\ j \in 0 .. 8 - 1
      BY <1>2, <2>1, <2>3
    <3> QED
      BY <1>8, <2>2, <3>1
  <2>4. CASE k >= full
    <3>1. k = full /\ rest # 0 /\ j \in 0 .. rest - 1
      BY <1>2, <2>1, <2>4
    <3> QED
      BY <1>8, <2>2, <3>1
  <2> QED
    BY <1>2, <2>1, <2>3, <2>4
<1> QED
  BY <1>3, <1>4, <1>5, <1>6, <1>7, <1>8

\* Cidr::contains is membership bit by bit.
LEMMA MatchesBits ==
    ASSUME NEW network \in Address, NEW candidate \in Address,
           NEW prefix \in 0 .. 8 * Len(network)
    PROVE  (Len(network) = Len(candidate) /\ matches_prefix(network, candidate, prefix))
               <=> InRange(candidate, network, prefix)
<1>1. CASE Len(network) = Len(candidate)
  BY <1>1, MatchesOctets, InRangeOctets
<1>2. CASE Len(network) # Len(candidate)
  BY <1>2 DEF InRange
<1> QED
  BY <1>1, <1>2

--------------------------------------------------------------------------------
(***************************************************************************)
(* Spellings.                                                              *)
(***************************************************************************)
LEMMA ZerosTyped ==
    ASSUME NEW n \in Nat
    PROVE  /\ Zeros(n) \in Seq(Octet) /\ Len(Zeros(n)) = n
           /\ \A k \in 1..n : Zeros(n)[k] = 0
BY DEF Zeros, Octet

\* Sequences of octets are equal octet by octet.
LEMMA SameSeq ==
    ASSUME NEW s \in Seq(Octet), NEW t \in Seq(Octet), NEW n \in Nat, Len(s) = n, Len(t) = n
    PROVE  s = t <=> \A k \in 1..n : s[k] = t[k]
<1>1. (\A k \in 1..n : s[k] = t[k]) => s = t
  BY SeqEqual
<1> QED
  BY <1>1

\* The octets from first to last.
LEMMA Sliced ==
    ASSUME NEW s \in Seq(Octet), NEW first \in Nat \ {0}, NEW last \in Nat,
           first <= last, last <= Len(s)
    PROVE  /\ SubSeq(s, first, last) \in Seq(Octet)
           /\ Len(SubSeq(s, first, last)) = last + 1 - first
           /\ \A k \in 1 .. last + 1 - first : SubSeq(s, first, last)[k] = s[first - 1 + k]
<1>1. \A k \in first..last : s[k] \in Octet
  OBVIOUS
<1> QED
  BY <1>1

\* A sequence of octets behind another one.
LEMMA Joined ==
    ASSUME NEW s \in Seq(Octet), NEW t \in Seq(Octet)
    PROVE  /\ s \o t \in Seq(Octet) /\ Len(s \o t) = Len(s) + Len(t)
           /\ \A k \in 1..Len(s) : (s \o t)[k] = s[k]
           /\ \A k \in 1..Len(t) : (s \o t)[Len(s) + k] = t[k]
OBVIOUS

\* The carriers of an IPv4 address, octet by octet.
LEMMA MappedOctets ==
    /\ Mapped \in Seq(Octet) /\ Len(Mapped) = 12
    /\ \A k \in 1..10 : Mapped[k] = 0
    /\ Mapped[11] = 255 /\ Mapped[12] = 255
<1> DEFINE zeros == Zeros(10)
           tail == <<255, 255>>
<1>1. zeros \in Seq(Octet) /\ Len(zeros) = 10 /\ \A k \in 1..10 : zeros[k] = 0
  BY ZerosTyped
<1>2. tail \in Seq(Octet) /\ Len(tail) = 2 /\ tail[1] = 255 /\ tail[2] = 255
  BY DEF Octet
<1>3. Mapped = zeros \o tail
  BY DEF Mapped
<1> HIDE DEF zeros, tail
<1>4. zeros \in Seq(Octet) /\ tail \in Seq(Octet)
  BY <1>1, <1>2
<1>5. /\ Mapped \in Seq(Octet) /\ Len(Mapped) = Len(zeros) + Len(tail)
      /\ \A k \in 1..Len(zeros) : Mapped[k] = zeros[k]
      /\ \A k \in 1..Len(tail) : Mapped[Len(zeros) + k] = tail[k]
  BY <1>3, <1>4, Joined
<1>6. Mapped[10 + 1] = tail[1] /\ Mapped[10 + 2] = tail[2]
  BY <1>1, <1>2, <1>5
<1> QED
  BY <1>1, <1>2, <1>5, <1>6

LEMMA CompatibleOctets ==
    /\ Compatible \in Seq(Octet) /\ Len(Compatible) = 12
    /\ \A k \in 1..12 : Compatible[k] = 0
BY ZerosTyped DEF Compatible

LEMMA Nat64Octets ==
    /\ Nat64 \in Seq(Octet) /\ Len(Nat64) = 12
    /\ Nat64[1] = 0 /\ Nat64[2] = 100 /\ Nat64[3] = 255 /\ Nat64[4] = 155
    /\ \A k \in 5..12 : Nat64[k] = 0
<1> DEFINE head == <<0, 100, 255, 155>>
           zeros == Zeros(8)
<1>1. zeros \in Seq(Octet) /\ Len(zeros) = 8 /\ \A k \in 1..8 : zeros[k] = 0
  BY ZerosTyped
<1>2. /\ head \in Seq(Octet) /\ Len(head) = 4
      /\ head[1] = 0 /\ head[2] = 100 /\ head[3] = 255 /\ head[4] = 155
  BY DEF Octet
<1>3. Nat64 = head \o zeros
  BY DEF Nat64
<1> HIDE DEF zeros, head
<1>4. head \in Seq(Octet) /\ zeros \in Seq(Octet)
  BY <1>1, <1>2
<1>5. /\ Nat64 \in Seq(Octet) /\ Len(Nat64) = Len(head) + Len(zeros)
      /\ \A k \in 1..Len(head) : Nat64[k] = head[k]
      /\ \A k \in 1..Len(zeros) : Nat64[Len(head) + k] = zeros[k]
  BY <1>3, <1>4, Joined
<1>6. ASSUME NEW k \in 5..12
      PROVE  Nat64[k] = 0
  <2>1. k - 4 \in 1..8 /\ 4 + (k - 4) = k
    OBVIOUS
  <2>2. Nat64[4 + (k - 4)] = zeros[k - 4]
    <3>1. k - 4 \in 1..Len(zeros) /\ 4 = Len(head)
      BY <1>1, <1>2, <2>1
    <3> QED
      BY <1>5, <3>1
  <2> QED
    BY <1>1, <2>1, <2>2
<1> QED
  BY <1>1, <1>2, <1>5, <1>6

LEMMA SixToFourOctets ==
    /\ SixToFour \in Seq(Octet) /\ Len(SixToFour) = 2
    /\ SixToFour[1] = 32 /\ SixToFour[2] = 2
BY DEF SixToFour, Octet

\* The loopback address of IPv6.
LocalHost == Zeros(15) \o <<1>>

LEMMA LocalHostOctets ==
    /\ LocalHost \in Seq(Octet) /\ Len(LocalHost) = 16
    /\ \A k \in 1..15 : LocalHost[k] = 0
    /\ LocalHost[16] = 1
<1> DEFINE zeros == Zeros(15)
           one == <<1>>
<1>1. zeros \in Seq(Octet) /\ Len(zeros) = 15 /\ \A k \in 1..15 : zeros[k] = 0
  BY ZerosTyped
<1>2. one \in Seq(Octet) /\ Len(one) = 1 /\ one[1] = 1
  BY DEF Octet
<1>3. LocalHost = zeros \o one
  BY DEF LocalHost
<1> HIDE DEF zeros, one
<1>4. zeros \in Seq(Octet) /\ one \in Seq(Octet)
  BY <1>1, <1>2
<1>5. /\ LocalHost \in Seq(Octet) /\ Len(LocalHost) = Len(zeros) + Len(one)
      /\ \A k \in 1..Len(zeros) : LocalHost[k] = zeros[k]
      /\ \A k \in 1..Len(one) : LocalHost[Len(zeros) + k] = one[k]
  BY <1>3, <1>4, Joined
<1>6. LocalHost[15 + 1] = one[1]
  BY <1>1, <1>2, <1>5
<1> QED
  BY <1>1, <1>2, <1>5, <1>6

LEMMA PrefixOctets ==
    ASSUME NEW p \in Seq(Octet), NEW a \in Seq(Octet), Len(p) <= Len(a)
    PROVE  IsPrefix(p, a) <=> \A k \in 1..Len(p) : p[k] = a[k]
<1>1. SubSeq(p, 1, Len(p)) = SubSeq(a, 1, Len(p)) <=> \A k \in 1..Len(p) : p[k] = a[k]
  BY SubSeqEqual
<1> QED
  BY <1>1 DEF IsPrefix

\* What the tests of canonical ask of an IPv6 address.
LEMMA Tests ==
    ASSUME NEW a \in Address, Len(a) = 16
    PROVE  /\ IsPrefix(Mapped, a) <=> (\A k \in 1..10 : a[k] = 0) /\ a[11] = 255 /\ a[12] = 255
           /\ IsPrefix(Compatible, a) <=> \A k \in 1..12 : a[k] = 0
           /\ IsPrefix(SixToFour, a) <=> a[1] = 32 /\ a[2] = 2
           /\ IsPrefix(Nat64, a) <=> /\ a[1] = 0 /\ a[2] = 100 /\ a[3] = 255 /\ a[4] = 155
                                     /\ \A k \in 5..12 : a[k] = 0
           /\ Unspecified(a) <=> \A k \in 1..16 : a[k] = 0
           /\ Loopback(a) <=> (\A k \in 1..15 : a[k] = 0) /\ a[16] = 1
<1>0. a \in Seq(Octet)
  BY AddressSeq
<1>1. IsPrefix(Mapped, a) <=> (\A k \in 1..10 : a[k] = 0) /\ a[11] = 255 /\ a[12] = 255
  <2>1. Mapped \in Seq(Octet) /\ Len(Mapped) <= Len(a)
    BY MappedOctets
  <2>2. IsPrefix(Mapped, a) <=> \A k \in 1..Len(Mapped) : Mapped[k] = a[k]
    BY <1>0, <2>1, PrefixOctets
  <2> QED
    BY <2>2, MappedOctets
<1>2. IsPrefix(Compatible, a) <=> \A k \in 1..12 : a[k] = 0
  <2>1. Compatible \in Seq(Octet) /\ Len(Compatible) <= Len(a)
    BY CompatibleOctets
  <2>2. IsPrefix(Compatible, a) <=> \A k \in 1..Len(Compatible) : Compatible[k] = a[k]
    BY <1>0, <2>1, PrefixOctets
  <2> QED
    BY <2>2, CompatibleOctets
<1>3. IsPrefix(SixToFour, a) <=> a[1] = 32 /\ a[2] = 2
  <2>1. SixToFour \in Seq(Octet) /\ Len(SixToFour) <= Len(a)
    BY SixToFourOctets
  <2>2. IsPrefix(SixToFour, a) <=> \A k \in 1..Len(SixToFour) : SixToFour[k] = a[k]
    BY <1>0, <2>1, PrefixOctets
  <2> QED
    BY <2>2, SixToFourOctets
<1>4. IsPrefix(Nat64, a) <=> /\ a[1] = 0 /\ a[2] = 100 /\ a[3] = 255 /\ a[4] = 155
                             /\ \A k \in 5..12 : a[k] = 0
  <2>1. Nat64 \in Seq(Octet) /\ Len(Nat64) <= Len(a)
    BY Nat64Octets
  <2>2. IsPrefix(Nat64, a) <=> \A k \in 1..Len(Nat64) : Nat64[k] = a[k]
    BY <1>0, <2>1, PrefixOctets
  <2> QED
    BY <2>2, Nat64Octets
<1>5. Unspecified(a) <=> \A k \in 1..16 : a[k] = 0
  <2> DEFINE zeros == Zeros(16)
  <2>1. zeros \in Seq(Octet) /\ Len(zeros) = 16 /\ \A k \in 1..16 : zeros[k] = 0
    BY ZerosTyped
  <2>2. Unspecified(a) <=> a = zeros
    BY DEF Unspecified
  <2> HIDE DEF zeros
  <2>3. a = zeros <=> \A k \in 1..16 : a[k] = zeros[k]
    BY <1>0, <2>1, SameSeq
  <2> QED
    BY <2>1, <2>2, <2>3
<1>6. Loopback(a) <=> (\A k \in 1..15 : a[k] = 0) /\ a[16] = 1
  <2>1. Loopback(a) <=> a = LocalHost
    BY DEF Loopback, V4, LocalHost
  <2>2. a = LocalHost <=> \A k \in 1..16 : a[k] = LocalHost[k]
    <3>1. LocalHost \in Seq(Octet) /\ Len(LocalHost) = 16 /\ 16 \in Nat
      BY LocalHostOctets
    <3> QED
      BY <1>0, <3>1, SameSeq
  <2>3. (\A k \in 1..16 : a[k] = LocalHost[k])
          <=> (\A k \in 1..15 : a[k] = LocalHost[k]) /\ a[16] = LocalHost[16]
    OBVIOUS
  <2> QED
    BY <2>1, <2>2, <2>3, LocalHostOctets
<1> QED
  BY <1>1, <1>2, <1>3, <1>4, <1>5, <1>6

\* An IPv4 address behind twelve octets.
LEMMA Carried ==
    ASSUME NEW p \in Seq(Octet), Len(p) = 12, NEW x \in Address, Len(x) = 4
    PROVE  /\ p \o x \in Address /\ Len(p \o x) = 16
           /\ \A k \in 1..12 : (p \o x)[k] = p[k]
           /\ \A k \in 1..4 : (p \o x)[12 + k] = x[k]
           /\ SubSeq(p \o x, 13, 16) = x
<1> DEFINE whole == p \o x
<1>1. x \in Seq(Octet)
  BY AddressSeq
<1>2. /\ whole \in Seq(Octet) /\ Len(whole) = Len(p) + Len(x)
      /\ \A k \in 1..Len(p) : whole[k] = p[k]
      /\ \A k \in 1..Len(x) : whole[Len(p) + k] = x[k]
  BY <1>1, Joined
<1> HIDE DEF whole
<1>3. /\ Len(whole) = 16
      /\ \A k \in 1..12 : whole[k] = p[k]
      /\ \A k \in 1..4 : whole[12 + k] = x[k]
  BY <1>2
<1>4. SubSeq(whole, 13, 16) = x
  <2> DEFINE last == SubSeq(whole, 13, 16)
  <2>1. 13 \in Nat \ {0} /\ 16 \in Nat /\ 13 <= 16 /\ 16 <= Len(whole)
    BY <1>3
  <2>2. /\ last \in Seq(Octet) /\ Len(last) = 16 + 1 - 13
        /\ \A k \in 1 .. 16 + 1 - 13 : last[k] = whole[13 - 1 + k]
    BY <1>2, <2>1, Sliced
  <2> HIDE DEF last
  <2>3. \A k \in 1..4 : last[k] = x[k]
    <3>1. \A k \in 1..4 : last[k] = whole[12 + k]
      BY <2>2
    <3> QED
      BY <1>3, <3>1
  <2>4. last \in Seq(Octet) /\ Len(last) = 4 /\ 4 \in Nat
    BY <2>2
  <2>5. last = x
    BY <1>1, <2>3, <2>4, SameSeq
  <2> QED
    BY <2>5 DEF last
<1>5. whole \in Address
  BY <1>2, <1>3 DEF Address
<1> QED
  BY <1>3, <1>4, <1>5 DEF whole

\* Octets filled up to an IPv6 network.
LEMMA NetOctets ==
    ASSUME NEW p \in Seq(Octet), Len(p) <= 16
    PROVE  /\ V6Net(p) \in Address /\ Len(V6Net(p)) = 16
           /\ \A k \in 1..Len(p) : V6Net(p)[k] = p[k]
           /\ \A k \in Len(p) + 1 .. 16 : V6Net(p)[k] = 0
<1> DEFINE zeros == Zeros(16 - Len(p))
           net == V6Net(p)
<1>1. 16 - Len(p) \in Nat /\ Len(p) \in Nat
  OBVIOUS
<1>2. zeros \in Seq(Octet) /\ Len(zeros) = 16 - Len(p) /\ \A k \in 1 .. 16 - Len(p) : zeros[k] = 0
  BY <1>1, ZerosTyped
<1>3. net = p \o zeros
  BY DEF V6Net
<1> HIDE DEF zeros, net
<1>4. /\ net \in Seq(Octet) /\ Len(net) = Len(p) + Len(zeros)
      /\ \A k \in 1..Len(p) : net[k] = p[k]
      /\ \A k \in 1..Len(zeros) : net[Len(p) + k] = zeros[k]
  BY <1>2, <1>3, Joined
<1>5. Len(net) = 16
  BY <1>1, <1>2, <1>4
<1>6. ASSUME NEW k \in Len(p) + 1 .. 16
      PROVE  net[k] = 0
  <2>1. k - Len(p) \in 1 .. 16 - Len(p) /\ Len(p) + (k - Len(p)) = k
    BY <1>1
  <2> QED
    BY <1>2, <1>4, <2>1
<1>7. net \in Address
  BY <1>4, <1>5 DEF Address
<1> QED
  BY <1>4, <1>5, <1>6, <1>7 DEF net

\* An address carries another one when it is in the range of its carrier.
LEMMA CarrierRange ==
    ASSUME NEW p \in Seq(Octet), NEW n \in 0..16, Len(p) = n, NEW x \in Address, Len(x) = 16
    PROVE  InRange(x, V6Net(p), 8 * n) <=> IsPrefix(p, x)
<1> DEFINE net == V6Net(p)
<1>1. /\ net \in Address /\ Len(net) = 16
      /\ \A k \in 1..n : net[k] = p[k]
  BY NetOctets
<1>2. 8 * n \in 0 .. 8 * 16 /\ (8 * n) \div 8 = n /\ (8 * n) % 8 = 0
  OBVIOUS
<1>3. x \in Seq(Octet)
  BY AddressSeq
<1>4. IsPrefix(p, x) <=> \A k \in 1..n : p[k] = x[k]
  <2>1. Len(p) <= Len(x)
    OBVIOUS
  <2>2. IsPrefix(p, x) <=> \A k \in 1..Len(p) : p[k] = x[k]
    BY <1>3, <2>1, PrefixOctets
  <2> QED
    BY <2>2
<1> HIDE DEF net
<1>5. InRange(x, net, 8 * n) <=> SameOctets(net, x, 8 * n)
  <2>1. Len(net) = Len(x) /\ 8 * n \in 0 .. 8 * Len(net)
    BY <1>1, <1>2
  <2> QED
    BY <1>1, <2>1, InRangeOctets
<1>6. SameOctets(net, x, 8 * n) <=> \A k \in 1..n : net[k] = x[k]
  BY <1>2 DEF SameOctets
<1> QED
  BY <1>1, <1>4, <1>5, <1>6 DEF net

\* Plain asks of an address what canonical tests.
LEMMA Carriers ==
    ASSUME NEW a \in Address, Len(a) = 16
    PROVE  /\ InRange(a, V6Net(Mapped), 96) <=> IsPrefix(Mapped, a)
           /\ InRange(a, V6Net(Compatible), 96) <=> IsPrefix(Compatible, a)
           /\ InRange(a, V6Net(Nat64), 96) <=> IsPrefix(Nat64, a)
           /\ InRange(a, V6Net(SixToFour), 16) <=> IsPrefix(SixToFour, a)
<1>1. InRange(a, V6Net(Mapped), 96) <=> IsPrefix(Mapped, a)
  <2>1. Mapped \in Seq(Octet) /\ Len(Mapped) = 12 /\ 12 \in 0..16 /\ 8 * 12 = 96
    BY MappedOctets
  <2>2. InRange(a, V6Net(Mapped), 8 * 12) <=> IsPrefix(Mapped, a)
    BY <2>1, CarrierRange
  <2> QED
    BY <2>1, <2>2
<1>2. InRange(a, V6Net(Compatible), 96) <=> IsPrefix(Compatible, a)
  <2>1. Compatible \in Seq(Octet) /\ Len(Compatible) = 12 /\ 12 \in 0..16 /\ 8 * 12 = 96
    BY CompatibleOctets
  <2>2. InRange(a, V6Net(Compatible), 8 * 12) <=> IsPrefix(Compatible, a)
    BY <2>1, CarrierRange
  <2> QED
    BY <2>1, <2>2
<1>3. InRange(a, V6Net(Nat64), 96) <=> IsPrefix(Nat64, a)
  <2>1. Nat64 \in Seq(Octet) /\ Len(Nat64) = 12 /\ 12 \in 0..16 /\ 8 * 12 = 96
    BY Nat64Octets
  <2>2. InRange(a, V6Net(Nat64), 8 * 12) <=> IsPrefix(Nat64, a)
    BY <2>1, CarrierRange
  <2> QED
    BY <2>1, <2>2
<1>4. InRange(a, V6Net(SixToFour), 16) <=> IsPrefix(SixToFour, a)
  <2>1. SixToFour \in Seq(Octet) /\ Len(SixToFour) = 2 /\ 2 \in 0..16 /\ 8 * 2 = 16
    BY SixToFourOctets
  <2>2. InRange(a, V6Net(SixToFour), 8 * 2) <=> IsPrefix(SixToFour, a)
    BY <2>1, CarrierRange
  <2> QED
    BY <2>1, <2>2
<1> QED
  BY <1>1, <1>2, <1>3, <1>4

\* An IPv4 address between a 6to4 prefix and ten octets.
LEMMA CarriedSixToFour ==
    ASSUME NEW x \in Address, Len(x) = 4
    PROVE  LET a == SixToFour \o x \o Zeros(10) IN
           /\ a \in Address /\ Len(a) = 16
           /\ a[1] = 32 /\ a[2] = 2
           /\ SubSeq(a, 3, 6) = x
<1> DEFINE head == SixToFour \o x
           zeros == Zeros(10)
           a == head \o zeros
<1>1. x \in Seq(Octet) /\ zeros \in Seq(Octet) /\ Len(zeros) = 10
  BY AddressSeq, ZerosTyped
<1>2. SixToFour \in Seq(Octet) /\ Len(SixToFour) = 2 /\ SixToFour[1] = 32 /\ SixToFour[2] = 2
  BY SixToFourOctets
<1>3. /\ head \in Seq(Octet) /\ Len(head) = Len(SixToFour) + Len(x)
      /\ \A k \in 1..Len(SixToFour) : head[k] = SixToFour[k]
      /\ \A k \in 1..Len(x) : head[Len(SixToFour) + k] = x[k]
  BY <1>1, <1>2, Joined
<1> HIDE DEF head, zeros
<1>4. Len(head) = 6 /\ head[1] = 32 /\ head[2] = 2 /\ \A k \in 1..4 : head[2 + k] = x[k]
  BY <1>2, <1>3
<1>5. /\ a \in Seq(Octet) /\ Len(a) = Len(head) + Len(zeros)
      /\ \A k \in 1..Len(head) : a[k] = head[k]
  BY <1>1, <1>3, Joined
<1> HIDE DEF a
<1>6. Len(a) = 16 /\ \A k \in 1..6 : a[k] = head[k]
  BY <1>1, <1>4, <1>5
<1>7. a[1] = 32 /\ a[2] = 2 /\ \A k \in 1..4 : a[2 + k] = x[k]
  BY <1>4, <1>6
<1>8. SubSeq(a, 3, 6) = x
  <2> DEFINE taken == SubSeq(a, 3, 6)
  <2>1. 3 \in Nat \ {0} /\ 6 \in Nat /\ 3 <= 6 /\ 6 <= Len(a)
    BY <1>6
  <2>2. /\ taken \in Seq(Octet) /\ Len(taken) = 6 + 1 - 3
        /\ \A k \in 1 .. 6 + 1 - 3 : taken[k] = a[3 - 1 + k]
    BY <1>5, <2>1, Sliced
  <2> HIDE DEF taken
  <2>3. \A k \in 1..4 : taken[k] = x[k]
    <3>1. \A k \in 1..4 : taken[k] = a[2 + k]
      BY <2>2
    <3> QED
      BY <1>7, <3>1
  <2>4. taken \in Seq(Octet) /\ Len(taken) = 4 /\ 4 \in Nat
    BY <2>2
  <2>5. taken = x
    BY <1>1, <2>3, <2>4, SameSeq
  <2> QED
    BY <2>5 DEF taken
<1>9. a \in Address
  BY <1>5, <1>6 DEF Address
<1> QED
  BY <1>6, <1>7, <1>8, <1>9 DEF a, head, zeros

\* What canonical makes of an IPv6 address.
LEMMA CanonicalCases ==
    ASSUME NEW a \in Address, Len(a) = 16
    PROVE  /\ IsPrefix(Mapped, a) => canonical(a) = SubSeq(a, 13, 16)
           /\ IsPrefix(Compatible, a) /\ ~Unspecified(a) /\ ~Loopback(a)
                => canonical(a) = SubSeq(a, 13, 16)
           /\ IsPrefix(SixToFour, a) => canonical(a) = SubSeq(a, 3, 6)
           /\ IsPrefix(Nat64, a) => canonical(a) = SubSeq(a, 13, 16)
           /\ ( /\ ~IsPrefix(Mapped, a) /\ ~IsPrefix(SixToFour, a) /\ ~IsPrefix(Nat64, a)
                /\ ~IsPrefix(Compatible, a) \/ Unspecified(a) \/ Loopback(a) )
                => canonical(a) = a
<1>1. ~V4(a)
  BY DEF V4
<1>2. IsPrefix(SixToFour, a) => ~IsPrefix(Mapped, a) /\ ~IsPrefix(Compatible, a)
  BY Tests
<1>3. IsPrefix(Nat64, a) =>
        ~IsPrefix(Mapped, a) /\ ~IsPrefix(Compatible, a) /\ ~IsPrefix(SixToFour, a)
  BY Tests
<1> QED
  BY <1>1, <1>2, <1>3 DEF canonical

\* Whatever way an address that spells no other is spelled, canonical finds it.
LEMMA CanonicalOfSpelling ==
    ASSUME NEW x \in Address, Plain(x), NEW s \in SpellingsOf(x)
    PROVE  canonical(s) = x /\ s \in Address
<1>1. CASE Len(x) = 4
  <2>0. V4(x)
    BY <1>1 DEF V4
  <2>1. CASE s = x
    BY <2>0, <2>1 DEF canonical
  <2>2. CASE s = Mapped \o x
    <3>0. Mapped \in Seq(Octet) /\ Len(Mapped) = 12
      BY MappedOctets
    <3>1. /\ s \in Address /\ Len(s) = 16 /\ \A k \in 1..12 : s[k] = Mapped[k]
          /\ SubSeq(s, 13, 16) = x
      BY <1>1, <2>2, <3>0, Carried
    <3>2. IsPrefix(Mapped, s)
      <4>1. (\A k \in 1..10 : s[k] = 0) /\ s[11] = 255 /\ s[12] = 255
        BY <3>1, MappedOctets
      <4> QED
        BY <3>1, <4>1, Tests
    <3> QED
      BY <3>1, <3>2, CanonicalCases
  <2>3. CASE s = Nat64 \o x
    <3>0. Nat64 \in Seq(Octet) /\ Len(Nat64) = 12
      BY Nat64Octets
    <3>1. /\ s \in Address /\ Len(s) = 16 /\ \A k \in 1..12 : s[k] = Nat64[k]
          /\ SubSeq(s, 13, 16) = x
      BY <1>1, <2>3, <3>0, Carried
    <3>2. IsPrefix(Nat64, s)
      <4>1. /\ s[1] = 0 /\ s[2] = 100 /\ s[3] = 255 /\ s[4] = 155
            /\ \A k \in 5..12 : s[k] = 0
        BY <3>1, Nat64Octets
      <4> QED
        BY <3>1, <4>1, Tests
    <3> QED
      BY <3>1, <3>2, CanonicalCases
  <2>4. CASE s = SixToFour \o x \o Zeros(10)
    <3>1. s \in Address /\ Len(s) = 16 /\ s[1] = 32 /\ s[2] = 2 /\ SubSeq(s, 3, 6) = x
      BY <1>1, <2>4, CarriedSixToFour
    <3>2. IsPrefix(SixToFour, s)
      BY <3>1, Tests
    <3> QED
      BY <3>1, <3>2, CanonicalCases
  <2>5. CASE x \notin {Zeros(4), <<0, 0, 0, 1>>} /\ s = Compatible \o x
    <3>0. Compatible \in Seq(Octet) /\ Len(Compatible) = 12
      BY CompatibleOctets
    <3>1. /\ s \in Address /\ Len(s) = 16 /\ \A k \in 1..12 : s[k] = Compatible[k]
          /\ \A k \in 1..4 : s[12 + k] = x[k] 
          /\ SubSeq(s, 13, 16) = x
      BY <1>1, <2>5, <3>0, Carried
    <3>2. IsPrefix(Compatible, s)
      <4>1. \A k \in 1..12 : s[k] = 0
        BY <3>1, CompatibleOctets
      <4> QED
        BY <3>1, <4>1, Tests
    <3>3. s[13] = x[1] /\ s[14] = x[2] /\ s[15] = x[3] /\ s[16] = x[4]
      <4>1. s[12 + 1] = x[1] /\ s[12 + 2] = x[2] /\ s[12 + 3] = x[3] /\ s[12 + 4] = x[4]
        BY <3>1
      <4> QED
        BY <4>1
    <3>4. x \in Seq(Octet)
      BY AddressSeq
    <3>5. ~Unspecified(s)
      <4>1. ~ \A k \in 1..4 : x[k] = 0
        <5> DEFINE zeros == Zeros(4)
        <5>1. zeros \in Seq(Octet) /\ Len(zeros) = 4 /\ \A k \in 1..4 : zeros[k] = 0
          BY ZerosTyped
        <5>2. x # zeros
          BY <2>5
        <5> HIDE DEF zeros
        <5>3. x = zeros <=> \A k \in 1..4 : x[k] = zeros[k]
          BY <1>1, <3>4, <5>1, SameSeq
        <5> QED
          BY <5>1, <5>2, <5>3
      <4> QED
        BY <3>1, <3>3, <4>1, Tests
    <3>6. ~Loopback(s)
      <4>1. ~(x[1] = 0 /\ x[2] = 0 /\ x[3] = 0 /\ x[4] = 1)
        <5> DEFINE one == <<0, 0, 0, 1>>
        <5>1. one \in Seq(Octet) /\ Len(one) = 4 /\ one[1] = 0 /\ one[2] = 0 /\ one[3] = 0 /\ one[4] = 1
          BY DEF Octet
        <5>2. x # one
          BY <2>5
        <5> HIDE DEF one
        <5>3. x = one <=> \A k \in 1..4 : x[k] = one[k]
          BY <1>1, <3>4, <5>1, SameSeq
        <5> QED
          BY <5>1, <5>2, <5>3
      <4> QED
        BY <3>1, <3>3, <4>1, Tests
    <3> QED
      BY <3>1, <3>2, <3>5, <3>6, CanonicalCases
  <2> QED
    BY <2>0, <2>1, <2>2, <2>3, <2>4, <2>5 DEF SpellingsOf
<1>2. CASE Len(x) = 16
  <2>0. s = x
    BY <1>2 DEF SpellingsOf, V4
  <2>1. CASE x \in {Zeros(16), Zeros(15) \o <<1>>}
    <3>1. Unspecified(x) \/ Loopback(x)
      BY <1>2, <2>1 DEF Unspecified, Loopback, V4
    <3>2. x[1] = 0 /\ x[2] = 0 /\ x[11] = 0
      BY <1>2, <3>1, Tests
    <3>3. ~IsPrefix(Mapped, x) /\ ~IsPrefix(SixToFour, x) /\ ~IsPrefix(Nat64, x)
      BY <1>2, <3>2, Tests
    <3> QED
      BY <1>2, <2>0, <3>1, <3>3, CanonicalCases
  <2>2. CASE ~ \E carrier \in {<<Mapped, 96>>, <<Compatible, 96>>, <<Nat64, 96>>, <<SixToFour, 16>>} :
                InRange(x, V6Net(carrier[1]), carrier[2])
    <3>1. /\ ~InRange(x, V6Net(Mapped), 96) /\ ~InRange(x, V6Net(Compatible), 96)
          /\ ~InRange(x, V6Net(Nat64), 96) /\ ~InRange(x, V6Net(SixToFour), 16)
      BY <2>2
    <3>2. /\ ~IsPrefix(Mapped, x) /\ ~IsPrefix(Compatible, x)
          /\ ~IsPrefix(Nat64, x) /\ ~IsPrefix(SixToFour, x)
      BY <1>2, <3>1, Carriers
    <3> QED
      BY <1>2, <2>0, <3>2, CanonicalCases
  <2> QED
    BY <1>2, <2>1, <2>2 DEF Plain, V4
<1> QED
  BY <1>1, <1>2, AddressSeq
--------------------------------------------------------------------------------
(***************************************************************************)
(* The space that is not public.                                           *)
(***************************************************************************)
\* The octets that prefixes of the registered ranges reach.
LEMMA SameAt ==
    ASSUME NEW n, NEW c
    PROVE  /\ SameOctets(n, c, 8) <=> n[1] = c[1]
           /\ SameOctets(n, c, 16) <=> n[1] = c[1] /\ n[2] = c[2]
           /\ SameOctets(n, c, 24) <=> n[1] = c[1] /\ n[2] = c[2] /\ n[3] = c[3]
           /\ SameOctets(n, c, 32) <=> n[1] = c[1] /\ n[2] = c[2] /\ n[3] = c[3] /\ n[4] = c[4]
           /\ SameOctets(n, c, 64) <=> \A k \in 1..8 : n[k] = c[k]
           /\ SameOctets(n, c, 128) <=> \A k \in 1..16 : n[k] = c[k]
           /\ SameOctets(n, c, 4) <=> Tops(n[1], 4) = Tops(c[1], 4)
           /\ SameOctets(n, c, 7) <=> Tops(n[1], 7) = Tops(c[1], 7)
           /\ SameOctets(n, c, 10) <=> n[1] = c[1] /\ Tops(n[2], 2) = Tops(c[2], 2)
           /\ SameOctets(n, c, 12) <=> n[1] = c[1] /\ Tops(n[2], 4) = Tops(c[2], 4)
           /\ SameOctets(n, c, 15) <=> n[1] = c[1] /\ Tops(n[2], 7) = Tops(c[2], 7)
BY DEF SameOctets

\* The parts of an octet they cut off.
LEMMA TopParts ==
    ASSUME NEW x \in Octet
    PROVE  /\ Tops(64, 2) = Tops(x, 2) <=> x \in 64..127
           /\ Tops(128, 2) = Tops(x, 2) <=> x \in 128..191
           /\ Tops(192, 2) = Tops(x, 2) <=> x >= 192
           /\ Tops(16, 4) = Tops(x, 4) <=> x \in 16..31
           /\ Tops(224, 4) = Tops(x, 4) <=> x \in 224..239
           /\ Tops(240, 4) = Tops(x, 4) <=> x >= 240
           /\ Tops(18, 7) = Tops(x, 7) <=> x \in {18, 19}
           /\ Tops(252, 7) = Tops(x, 7) <=> x \in {252, 253}
<1>1. /\ Tops(x, 2) = x \div 64 /\ Tops(x, 4) = x \div 16 /\ Tops(x, 7) = x \div 2
      /\ Tops(64, 2) = 1 /\ Tops(128, 2) = 2 /\ Tops(192, 2) = 3
      /\ Tops(16, 4) = 1 /\ Tops(224, 4) = 14 /\ Tops(240, 4) = 15
      /\ Tops(18, 7) = 9 /\ Tops(252, 7) = 126
  BY TopsAt
<1>2. /\ x \div 64 = 1 <=> x \in 64..127
      /\ x \div 64 = 2 <=> x \in 128..191
      /\ x \div 64 = 3 <=> x >= 192
  BY DEF Octet
<1>3. /\ x \div 16 = 1 <=> x \in 16..31
      /\ x \div 16 = 14 <=> x \in 224..239
      /\ x \div 16 = 15 <=> x >= 240
  BY DEF Octet
<1>4. /\ x \div 2 = 9 <=> x \in {18, 19}
      /\ x \div 2 = 126 <=> x \in {252, 253}
  BY DEF Octet
<1> QED
  BY <1>1, <1>2, <1>3, <1>4

\* Membership in an IPv4 range, octet by octet.
LEMMA Range4 ==
    ASSUME NEW x \in Address, Len(x) = 4,
           NEW a \in Octet, NEW b \in Octet, NEW c \in Octet, NEW d \in Octet
    PROVE  /\ InRange(x, <<a, b, c, d>>, 8) <=> x[1] = a
           /\ InRange(x, <<a, b, c, d>>, 16) <=> x[1] = a /\ x[2] = b
           /\ InRange(x, <<a, b, c, d>>, 24) <=> x[1] = a /\ x[2] = b /\ x[3] = c
           /\ InRange(x, <<a, b, c, d>>, 4) <=> Tops(a, 4) = Tops(x[1], 4)
           /\ InRange(x, <<a, b, c, d>>, 10) <=> x[1] = a /\ Tops(b, 2) = Tops(x[2], 2)
           /\ InRange(x, <<a, b, c, d>>, 12) <=> x[1] = a /\ Tops(b, 4) = Tops(x[2], 4)
           /\ InRange(x, <<a, b, c, d>>, 15) <=> x[1] = a /\ Tops(b, 7) = Tops(x[2], 7)
<1> DEFINE net == <<a, b, c, d>>
<1>1. /\ net \in Seq(Octet) /\ Len(net) = 4
      /\ net[1] = a /\ net[2] = b /\ net[3] = c
  OBVIOUS
<1>2. net \in Address
  BY <1>1 DEF Address
<1> HIDE DEF net
<1>3. ASSUME NEW n \in 0..32
      PROVE  InRange(x, net, n) <=> SameOctets(net, x, n)
  <2>1. Len(net) = Len(x) /\ n \in 0 .. 8 * Len(net)
    BY <1>1
  <2> QED
    BY <1>2, <2>1, InRangeOctets
<1> QED
  BY <1>1, <1>3, SameAt DEF net

\* The ranges of the registries are the tables of special_v4.
LEMMA Special4Octets ==
    ASSUME NEW x \in Address, Len(x) = 4
    PROVE  special_v4(x) <=> \E special \in Special4 : InRange(x, special[1], special[2])
<1> DEFINE a == x[1]
           b == x[2]
           c == x[3]
<1>0. a \in Octet /\ b \in Octet /\ c \in Octet
  <2>1. \A k \in 1..4 : x[k] \in Octet
    BY AddressSeq
  <2> QED
    BY <2>1
<1>1. (\E special \in Special4 : InRange(x, special[1], special[2])) <=>
        \/ InRange(x, <<0, 0, 0, 0>>, 8)
        \/ InRange(x, <<10, 0, 0, 0>>, 8)
        \/ InRange(x, <<100, 64, 0, 0>>, 10)
        \/ InRange(x, <<127, 0, 0, 0>>, 8)
        \/ InRange(x, <<169, 254, 0, 0>>, 16)
        \/ InRange(x, <<172, 16, 0, 0>>, 12)
        \/ InRange(x, <<192, 0, 0, 0>>, 24)
        \/ InRange(x, <<192, 0, 2, 0>>, 24)
        \/ InRange(x, <<192, 88, 99, 0>>, 24)
        \/ InRange(x, <<192, 168, 0, 0>>, 16)
        \/ InRange(x, <<198, 18, 0, 0>>, 15)
        \/ InRange(x, <<198, 51, 100, 0>>, 24)
        \/ InRange(x, <<203, 0, 113, 0>>, 24)
        \/ InRange(x, <<224, 0, 0, 0>>, 4)
        \/ InRange(x, <<240, 0, 0, 0>>, 4)
  BY DEF Special4
<1>2. /\ InRange(x, <<0, 0, 0, 0>>, 8) <=> a = 0
      /\ InRange(x, <<10, 0, 0, 0>>, 8) <=> a = 10
      /\ InRange(x, <<127, 0, 0, 0>>, 8) <=> a = 127
      /\ InRange(x, <<169, 254, 0, 0>>, 16) <=> a = 169 /\ b = 254
      /\ InRange(x, <<192, 0, 0, 0>>, 24) <=> a = 192 /\ b = 0 /\ c = 0
      /\ InRange(x, <<192, 0, 2, 0>>, 24) <=> a = 192 /\ b = 0 /\ c = 2
      /\ InRange(x, <<192, 88, 99, 0>>, 24) <=> a = 192 /\ b = 88 /\ c = 99
      /\ InRange(x, <<192, 168, 0, 0>>, 16) <=> a = 192 /\ b = 168
      /\ InRange(x, <<198, 51, 100, 0>>, 24) <=> a = 198 /\ b = 51 /\ c = 100
      /\ InRange(x, <<203, 0, 113, 0>>, 24) <=> a = 203 /\ b = 0 /\ c = 113
  <2>1. InRange(x, <<0, 0, 0, 0>>, 8) <=> a = 0
    <3>1. 0 \in Octet
      BY DEF Octet
    <3> QED
      BY <3>1, Range4
  <2>2. InRange(x, <<10, 0, 0, 0>>, 8) <=> a = 10
    <3>1. 0 \in Octet /\ 10 \in Octet
      BY DEF Octet
    <3> QED
      BY <3>1, Range4
  <2>3. InRange(x, <<127, 0, 0, 0>>, 8) <=> a = 127
    <3>1. 0 \in Octet /\ 127 \in Octet
      BY DEF Octet
    <3> QED
      BY <3>1, Range4
  <2>4. InRange(x, <<169, 254, 0, 0>>, 16) <=> a = 169 /\ b = 254
    <3>1. 0 \in Octet /\ 169 \in Octet /\ 254 \in Octet
      BY DEF Octet
    <3> QED
      BY <3>1, Range4
  <2>5. InRange(x, <<192, 0, 0, 0>>, 24) <=> a = 192 /\ b = 0 /\ c = 0
    <3>1. 0 \in Octet /\ 192 \in Octet
      BY DEF Octet
    <3> QED
      BY <3>1, Range4
  <2>6. InRange(x, <<192, 0, 2, 0>>, 24) <=> a = 192 /\ b = 0 /\ c = 2
    <3>1. 0 \in Octet /\ 2 \in Octet /\ 192 \in Octet
      BY DEF Octet
    <3> QED
      BY <3>1, Range4
  <2>7. InRange(x, <<192, 88, 99, 0>>, 24) <=> a = 192 /\ b = 88 /\ c = 99
    <3>1. 0 \in Octet /\ 88 \in Octet /\ 99 \in Octet /\ 192 \in Octet
      BY DEF Octet
    <3> QED
      BY <3>1, Range4
  <2>8. InRange(x, <<192, 168, 0, 0>>, 16) <=> a = 192 /\ b = 168
    <3>1. 0 \in Octet /\ 168 \in Octet /\ 192 \in Octet
      BY DEF Octet
    <3> QED
      BY <3>1, Range4
  <2>9. InRange(x, <<198, 51, 100, 0>>, 24) <=> a = 198 /\ b = 51 /\ c = 100
    <3>1. 0 \in Octet /\ 51 \in Octet /\ 100 \in Octet /\ 198 \in Octet
      BY DEF Octet
    <3> QED
      BY <3>1, Range4
  <2>10. InRange(x, <<203, 0, 113, 0>>, 24) <=> a = 203 /\ b = 0 /\ c = 113
    <3>1. 0 \in Octet /\ 113 \in Octet /\ 203 \in Octet
      BY DEF Octet
    <3> QED
      BY <3>1, Range4
  <2> QED
    BY <2>1, <2>2, <2>3, <2>4, <2>5, <2>6, <2>7, <2>8, <2>9, <2>10
<1>3. /\ InRange(x, <<100, 64, 0, 0>>, 10) <=> a = 100 /\ Tops(64, 2) = Tops(b, 2)
      /\ InRange(x, <<172, 16, 0, 0>>, 12) <=> a = 172 /\ Tops(16, 4) = Tops(b, 4)
      /\ InRange(x, <<198, 18, 0, 0>>, 15) <=> a = 198 /\ Tops(18, 7) = Tops(b, 7)
      /\ InRange(x, <<224, 0, 0, 0>>, 4) <=> Tops(224, 4) = Tops(a, 4)
      /\ InRange(x, <<240, 0, 0, 0>>, 4) <=> Tops(240, 4) = Tops(a, 4)
  <2>1. InRange(x, <<100, 64, 0, 0>>, 10) <=> a = 100 /\ Tops(64, 2) = Tops(b, 2)
    <3>1. 0 \in Octet /\ 64 \in Octet /\ 100 \in Octet
      BY DEF Octet
    <3> QED
      BY <3>1, Range4
  <2>2. InRange(x, <<172, 16, 0, 0>>, 12) <=> a = 172 /\ Tops(16, 4) = Tops(b, 4)
    <3>1. 0 \in Octet /\ 16 \in Octet /\ 172 \in Octet
      BY DEF Octet
    <3> QED
      BY <3>1, Range4
  <2>3. InRange(x, <<198, 18, 0, 0>>, 15) <=> a = 198 /\ Tops(18, 7) = Tops(b, 7)
    <3>1. 0 \in Octet /\ 18 \in Octet /\ 198 \in Octet
      BY DEF Octet
    <3> QED
      BY <3>1, Range4
  <2>4. InRange(x, <<224, 0, 0, 0>>, 4) <=> Tops(224, 4) = Tops(a, 4)
    <3>1. 0 \in Octet /\ 224 \in Octet
      BY DEF Octet
    <3> QED
      BY <3>1, Range4
  <2>5. InRange(x, <<240, 0, 0, 0>>, 4) <=> Tops(240, 4) = Tops(a, 4)
    <3>1. 0 \in Octet /\ 240 \in Octet
      BY DEF Octet
    <3> QED
      BY <3>1, Range4
  <2> QED
    BY <2>1, <2>2, <2>3, <2>4, <2>5
<1> HIDE DEF a, b, c
<1>4. /\ InRange(x, <<100, 64, 0, 0>>, 10) <=> a = 100 /\ b \in 64..127
      /\ InRange(x, <<172, 16, 0, 0>>, 12) <=> a = 172 /\ b \in 16..31
      /\ InRange(x, <<198, 18, 0, 0>>, 15) <=> a = 198 /\ b \in {18, 19}
      /\ InRange(x, <<224, 0, 0, 0>>, 4) <=> a \in 224..239
      /\ InRange(x, <<240, 0, 0, 0>>, 4) <=> a >= 240
  BY <1>0, <1>3, TopParts
<1>5. special_v4(x) <=>
        \/ a = 0
        \/ a = 10
        \/ a = 100 /\ b \in 64..127
        \/ a = 127
        \/ a = 169 /\ b = 254
        \/ a = 172 /\ b \in 16..31
        \/ a = 192 /\ b = 0 /\ c = 0
        \/ a = 192 /\ b = 0 /\ c = 2
        \/ a = 192 /\ b = 88 /\ c = 99
        \/ a = 192 /\ b = 168
        \/ a = 198 /\ b \in {18, 19}
        \/ a = 198 /\ b = 51 /\ c = 100
        \/ a = 203 /\ b = 0 /\ c = 113
        \/ a \in 224..239
        \/ a >= 240
  BY <1>0 DEF special_v4, a, b, c, Octet
<1> QED
  BY <1>1, <1>2, <1>4, <1>5

\* What special_v6 reads of the first four octets.
LEMMA Segments ==
    ASSUME NEW a \in Octet, NEW b \in Octet
    PROVE  /\ Masked(a * 256 + b, 9) = 64512 <=> a \in {252, 253}
           /\ Masked(a * 256 + b, 6) = 65152 <=> a = 254 /\ b \in 128..191
           /\ Masked(a * 256 + b, 6) = 65216 <=> a = 254 /\ b >= 192
           /\ a * 256 + b = 8193 <=> a = 32 /\ b = 1
           /\ a * 256 + b = 0 <=> a = 0 /\ b = 0
           /\ a * 256 + b = 3512 <=> a = 13 /\ b = 184
<1> DEFINE word == a * 256 + b
<1>1. /\ Masked(word, 9) = word - (word % 512)
      /\ Masked(word, 6) = word - (word % 64)
  BY MaskedAt
<1>2. word - (word % 512) = 64512 <=> a \in {252, 253}
  BY DEF Octet
<1>3. word - (word % 64) = 65152 <=> a = 254 /\ b \in 128..191
  BY DEF Octet
<1>4. word - (word % 64) = 65216 <=> a = 254 /\ b >= 192
  BY DEF Octet
<1>5. word = 8193 <=> a = 32 /\ b = 1
  BY DEF Octet
<1>6. word = 0 <=> a = 0 /\ b = 0
  BY DEF Octet
<1>7. word = 3512 <=> a = 13 /\ b = 184
  BY DEF Octet
<1> HIDE DEF word
<1> QED
  BY <1>1, <1>2, <1>3, <1>4, <1>5, <1>6, <1>7 DEF word

\* Membership in a range of IPv6, octet by octet.
LEMMA Range6 ==
    ASSUME NEW x \in Address, Len(x) = 16, NEW net \in Address, Len(net) = 16,
           NEW prefix \in 0..128
    PROVE  InRange(x, net, prefix) <=> SameOctets(net, x, prefix)
<1>1. Len(net) = Len(x) /\ prefix \in 0 .. 8 * Len(net)
  OBVIOUS
<1> QED
  BY <1>1, InRangeOctets

\* The networks of the registry begin with one, two or four octets.
LEMMA Net1 ==
    ASSUME NEW a \in Octet
    PROVE  /\ V6Net(<<a>>) \in Address /\ Len(V6Net(<<a>>)) = 16
           /\ V6Net(<<a>>)[1] = a
           /\ \A k \in 2..16 : V6Net(<<a>>)[k] = 0
<1> DEFINE octets == <<a>>
           net == V6Net(octets)
<1>1. octets \in Seq(Octet) /\ Len(octets) = 1
  OBVIOUS
<1>2. octets[1] = a
  OBVIOUS
<1> HIDE DEF octets
<1>3. Len(octets) <= 16
  BY <1>1
<1>4. /\ net \in Address /\ Len(net) = 16
      /\ \A k \in 1..Len(octets) : net[k] = octets[k]
      /\ \A k \in Len(octets) + 1 .. 16 : net[k] = 0
  BY <1>1, <1>3, NetOctets
<1> HIDE DEF net
<1>5. /\ \A k \in 1..1 : net[k] = octets[k]
      /\ \A k \in 2..16 : net[k] = 0
  BY <1>1, <1>4
<1>6. net[1] = a
  BY <1>2, <1>5
<1> QED
  BY <1>4, <1>5, <1>6 DEF net, octets

LEMMA Net2 ==
    ASSUME NEW a \in Octet, NEW b \in Octet
    PROVE  /\ V6Net(<<a, b>>) \in Address /\ Len(V6Net(<<a, b>>)) = 16
           /\ V6Net(<<a, b>>)[1] = a /\ V6Net(<<a, b>>)[2] = b
           /\ \A k \in 3..16 : V6Net(<<a, b>>)[k] = 0
<1> DEFINE octets == <<a, b>>
           net == V6Net(octets)
<1>1. octets \in Seq(Octet) /\ Len(octets) = 2
  OBVIOUS
<1>2. octets[1] = a /\ octets[2] = b
  OBVIOUS
<1> HIDE DEF octets
<1>3. Len(octets) <= 16
  BY <1>1
<1>4. /\ net \in Address /\ Len(net) = 16
      /\ \A k \in 1..Len(octets) : net[k] = octets[k]
      /\ \A k \in Len(octets) + 1 .. 16 : net[k] = 0
  BY <1>1, <1>3, NetOctets
<1> HIDE DEF net
<1>5. /\ \A k \in 1..2 : net[k] = octets[k]
      /\ \A k \in 3..16 : net[k] = 0
  BY <1>1, <1>4
<1>6. net[1] = a /\ net[2] = b
  BY <1>2, <1>5
<1> QED
  BY <1>4, <1>5, <1>6 DEF net, octets

LEMMA Net4 ==
    ASSUME NEW a \in Octet, NEW b \in Octet, NEW c \in Octet, NEW d \in Octet
    PROVE  /\ V6Net(<<a, b, c, d>>) \in Address /\ Len(V6Net(<<a, b, c, d>>)) = 16
           /\ V6Net(<<a, b, c, d>>)[1] = a /\ V6Net(<<a, b, c, d>>)[2] = b /\ V6Net(<<a, b, c, d>>)[3] = c /\ V6Net(<<a, b, c, d>>)[4] = d
<1> DEFINE octets == <<a, b, c, d>>
           net == V6Net(octets)
<1>1. octets \in Seq(Octet) /\ Len(octets) = 4
  OBVIOUS
<1>2. octets[1] = a /\ octets[2] = b /\ octets[3] = c /\ octets[4] = d
  OBVIOUS
<1> HIDE DEF octets
<1>3. Len(octets) <= 16
  BY <1>1
<1>4. /\ net \in Address /\ Len(net) = 16
      /\ \A k \in 1..Len(octets) : net[k] = octets[k]
      /\ \A k \in Len(octets) + 1 .. 16 : net[k] = 0
  BY <1>1, <1>3, NetOctets
<1> HIDE DEF net
<1>5. /\ \A k \in 1..4 : net[k] = octets[k]
      /\ \A k \in 5..16 : net[k] = 0
  BY <1>1, <1>4
<1>6. net[1] = a /\ net[2] = b /\ net[3] = c /\ net[4] = d
  BY <1>2, <1>5
<1> QED
  BY <1>4, <1>5, <1>6 DEF net, octets

\* The ranges of the registries are the tests of special_v6.
LEMMA Special6Octets ==
    ASSUME NEW x \in Address, Len(x) = 16
    PROVE  special_v6(x) <=> \E special \in Special6 : InRange(x, special[1], special[2])
<1> DEFINE a == x[1]
           b == x[2]
           c == x[3]
           d == x[4]
<1>0. a \in Octet /\ b \in Octet /\ c \in Octet /\ d \in Octet
  <2>1. \A k \in 1..16 : x[k] \in Octet
    BY AddressSeq
  <2> QED
    BY <2>1
<1>1. (\E special \in Special6 : InRange(x, special[1], special[2])) <=>
        \/ InRange(x, Zeros(16), 128)
        \/ InRange(x, Zeros(15) \o <<1>>, 128)
        \/ InRange(x, V6Net(<<1>>), 64)
        \/ InRange(x, V6Net(<<32, 1>>), 32)
        \/ InRange(x, V6Net(<<32, 1, 13, 184>>), 32)
        \/ InRange(x, V6Net(<<252>>), 7)
        \/ InRange(x, V6Net(<<254, 128>>), 10)
        \/ InRange(x, V6Net(<<254, 192>>), 10)
        \/ InRange(x, V6Net(<<255>>), 8)
  BY DEF Special6
<1>2. InRange(x, Zeros(16), 128) <=> Unspecified(x)
  <2> DEFINE zeros == Zeros(16)
  <2>1. zeros \in Seq(Octet) /\ Len(zeros) = 16 /\ \A k \in 1..16 : zeros[k] = 0
    BY ZerosTyped
  <2>2. zeros \in Address
    BY <2>1 DEF Address
  <2> HIDE DEF zeros
  <2>3. InRange(x, zeros, 128) <=> \A k \in 1..16 : zeros[k] = x[k]
    <3>1. 128 \in 0..128
      OBVIOUS
    <3>2. InRange(x, zeros, 128) <=> SameOctets(zeros, x, 128)
      BY <2>1, <2>2, <3>1, Range6
    <3>3. SameOctets(zeros, x, 128) <=> \A k \in 1..16 : zeros[k] = x[k]
      BY SameAt
    <3> QED
      BY <3>2, <3>3
  <2>4. (\A k \in 1..16 : zeros[k] = x[k]) <=> \A k \in 1..16 : x[k] = 0
    BY <2>1
  <2>5. Unspecified(x) <=> \A k \in 1..16 : x[k] = 0
    BY Tests
  <2>6. InRange(x, zeros, 128) <=> Unspecified(x)
    BY <2>3, <2>4, <2>5
  <2> QED
    BY <2>6 DEF zeros
<1>3. InRange(x, Zeros(15) \o <<1>>, 128) <=> Loopback(x)
  <2>1. LocalHost \in Address
    BY LocalHostOctets DEF Address
  <2>2. InRange(x, LocalHost, 128) <=> \A k \in 1..16 : LocalHost[k] = x[k]
    <3>1. 128 \in 0..128 /\ Len(LocalHost) = 16
      BY LocalHostOctets
    <3>2. InRange(x, LocalHost, 128) <=> SameOctets(LocalHost, x, 128)
      BY <2>1, <3>1, Range6
    <3>3. SameOctets(LocalHost, x, 128) <=> \A k \in 1..16 : LocalHost[k] = x[k]
      BY SameAt
    <3> QED
      BY <3>2, <3>3
  <2>3. (\A k \in 1..16 : LocalHost[k] = x[k]) <=> (\A k \in 1..15 : x[k] = 0) /\ x[16] = 1
    BY LocalHostOctets
  <2>4. Loopback(x) <=> (\A k \in 1..15 : x[k] = 0) /\ x[16] = 1
    BY Tests
  <2>5. InRange(x, LocalHost, 128) <=> Loopback(x)
    BY <2>2, <2>3, <2>4
  <2> QED
    BY <2>5 DEF LocalHost
<1>4. InRange(x, V6Net(<<1>>), 64) <=> IsPrefix(<<1>> \o Zeros(7), x)
  <2> DEFINE zeros == Zeros(7)
             one == <<1>>
             head == one \o zeros
             net == V6Net(<<1>>)
  <2>1. zeros \in Seq(Octet) /\ Len(zeros) = 7 /\ \A k \in 1..7 : zeros[k] = 0
    BY ZerosTyped
  <2>2. one \in Seq(Octet) /\ Len(one) = 1 /\ one[1] = 1
    BY DEF Octet
  <2>3. 1 \in Octet
    BY DEF Octet
  <2>4. net \in Address /\ Len(net) = 16 /\ net[1] = 1 /\ \A k \in 2..16 : net[k] = 0
    BY <2>3, Net1
  <2> HIDE DEF zeros, one, net
  <2>5. /\ head \in Seq(Octet) /\ Len(head) = Len(one) + Len(zeros)
        /\ \A k \in 1..Len(one) : head[k] = one[k]
        /\ \A k \in 1..Len(zeros) : head[Len(one) + k] = zeros[k]
    BY <2>1, <2>2, Joined
  <2> HIDE DEF head
  <2>6. Len(head) = 8 /\ head[1] = 1 /\ \A k \in 1..7 : head[1 + k] = 0
    BY <2>1, <2>2, <2>5
  <2>7. \A k \in 1..8 : head[k] = net[k]
    <3> SUFFICES ASSUME NEW k \in 2..8
                 PROVE  head[k] = net[k]
      BY <2>4, <2>6
    <3>1. k - 1 \in 1..7 /\ 1 + (k - 1) = k
      OBVIOUS
    <3> QED
      BY <2>4, <2>6, <3>1
  <2>8. InRange(x, net, 64) <=> \A k \in 1..8 : net[k] = x[k]
    BY <2>4, Range6, SameAt
  <2>9. IsPrefix(head, x) <=> \A k \in 1..8 : head[k] = x[k]
    <3>1. x \in Seq(Octet) /\ Len(head) <= Len(x)
      BY <2>6, AddressSeq
    <3>2. IsPrefix(head, x) <=> \A k \in 1..Len(head) : head[k] = x[k]
      BY <2>5, <3>1, PrefixOctets
    <3> QED
      BY <2>6, <3>2
  <2>10. InRange(x, net, 64) <=> IsPrefix(head, x)
    BY <2>7, <2>8, <2>9
  <2> QED
    BY <2>10 DEF net, head, one, zeros
<1>5. /\ 1 \in Octet /\ 32 \in Octet /\ 13 \in Octet /\ 184 \in Octet /\ 252 \in Octet
      /\ 254 \in Octet /\ 128 \in Octet /\ 192 \in Octet /\ 255 \in Octet
  BY DEF Octet
<1>6. InRange(x, V6Net(<<32, 1>>), 32) <=> a = 32 /\ b = 1 /\ c = 0 /\ d = 0
  <2> DEFINE net == V6Net(<<32, 1>>)
  <2>1. net \in Address /\ Len(net) = 16 /\ net[1] = 32 /\ net[2] = 1 /\ \A k \in 3..16 : net[k] = 0
    BY <1>5, Net2
  <2> HIDE DEF net
  <2>2. InRange(x, net, 32) <=> net[1] = a /\ net[2] = b /\ net[3] = c /\ net[4] = d
    BY <2>1, Range6, SameAt
  <2>3. InRange(x, net, 32) <=> a = 32 /\ b = 1 /\ c = 0 /\ d = 0
    BY <2>1, <2>2
  <2> QED
    BY <2>3 DEF net
<1>7. InRange(x, V6Net(<<32, 1, 13, 184>>), 32) <=> a = 32 /\ b = 1 /\ c = 13 /\ d = 184
  <2> DEFINE net == V6Net(<<32, 1, 13, 184>>)
  <2>1. net \in Address /\ Len(net) = 16 /\ net[1] = 32 /\ net[2] = 1 /\ net[3] = 13 /\ net[4] = 184
    BY <1>5, Net4
  <2> HIDE DEF net
  <2>2. InRange(x, net, 32) <=> net[1] = a /\ net[2] = b /\ net[3] = c /\ net[4] = d
    BY <2>1, Range6, SameAt
  <2>3. InRange(x, net, 32) <=> a = 32 /\ b = 1 /\ c = 13 /\ d = 184
    BY <2>1, <2>2
  <2> QED
    BY <2>3 DEF net
<1>8. InRange(x, V6Net(<<252>>), 7) <=> a \in {252, 253}
  <2> DEFINE net == V6Net(<<252>>)
  <2>1. net \in Address /\ Len(net) = 16 /\ net[1] = 252
    BY <1>5, Net1
  <2> HIDE DEF net
  <2>2. InRange(x, net, 7) <=> Tops(net[1], 7) = Tops(a, 7)
    BY <2>1, Range6, SameAt
  <2>3. InRange(x, net, 7) <=> a \in {252, 253}
    BY <1>0, <2>1, <2>2, TopParts
  <2> QED
    BY <2>3 DEF net
<1>9. InRange(x, V6Net(<<254, 128>>), 10) <=> a = 254 /\ b \in 128..191
  <2> DEFINE net == V6Net(<<254, 128>>)
  <2>1. net \in Address /\ Len(net) = 16 /\ net[1] = 254 /\ net[2] = 128
    BY <1>5, Net2
  <2> HIDE DEF net
  <2>2. InRange(x, net, 10) <=> net[1] = a /\ Tops(net[2], 2) = Tops(b, 2)
    BY <2>1, Range6, SameAt
  <2>3. InRange(x, net, 10) <=> a = 254 /\ b \in 128..191
    BY <1>0, <2>1, <2>2, TopParts
  <2> QED
    BY <2>3 DEF net
<1>10. InRange(x, V6Net(<<254, 192>>), 10) <=> a = 254 /\ b >= 192
  <2> DEFINE net == V6Net(<<254, 192>>)
  <2>1. net \in Address /\ Len(net) = 16 /\ net[1] = 254 /\ net[2] = 192
    BY <1>5, Net2
  <2> HIDE DEF net
  <2>2. InRange(x, net, 10) <=> net[1] = a /\ Tops(net[2], 2) = Tops(b, 2)
    BY <2>1, Range6, SameAt
  <2>3. InRange(x, net, 10) <=> a = 254 /\ b >= 192
    BY <1>0, <2>1, <2>2, TopParts
  <2> QED
    BY <2>3 DEF net
<1>11. InRange(x, V6Net(<<255>>), 8) <=> a = 255
  <2> DEFINE net == V6Net(<<255>>)
  <2>1. net \in Address /\ Len(net) = 16 /\ net[1] = 255
    BY <1>5, Net1
  <2> HIDE DEF net
  <2>2. InRange(x, net, 8) <=> net[1] = a
    BY <2>1, Range6, SameAt
  <2>3. InRange(x, net, 8) <=> a = 255
    BY <2>1, <2>2
  <2> QED
    BY <2>3 DEF net
<1>12. Segment(x, 1) = a * 256 + b /\ Segment(x, 2) = c * 256 + d
  BY DEF Segment
<1> HIDE DEF a, b, c, d
<1>13. special_v6(x) <=>
        \/ Unspecified(x) \/ Loopback(x)
        \/ a = 255
        \/ a \in {252, 253}
        \/ a = 254 /\ b \in 128..191
        \/ a = 254 /\ b >= 192
        \/ a = 32 /\ b = 1 /\ c = 0 /\ d = 0
        \/ a = 32 /\ b = 1 /\ c = 13 /\ d = 184
        \/ IsPrefix(<<1>> \o Zeros(7), x)
  <2> DEFINE discard == IsPrefix(<<1>> \o Zeros(7), x)
             first == Segment(x, 1)
             second == Segment(x, 2)
  <2>1. special_v6(x) <=>
          \/ Unspecified(x) \/ Loopback(x)
          \/ a = 255
          \/ Masked(first, 9) = 64512
          \/ Masked(first, 6) \in {65152, 65216}
          \/ first = 8193 /\ second \in {0, 3512}
          \/ discard
    BY DEF special_v6, a
  <2>2. /\ Masked(first, 9) = 64512 <=> a \in {252, 253}
        /\ Masked(first, 6) = 65152 <=> a = 254 /\ b \in 128..191
        /\ Masked(first, 6) = 65216 <=> a = 254 /\ b >= 192
        /\ first = 8193 <=> a = 32 /\ b = 1
    BY <1>0, <1>12, Segments
  <2>3. second = 0 <=> c = 0 /\ d = 0
    BY <1>0, <1>12, Segments
  <2>4. second = 3512 <=> c = 13 /\ d = 184
    BY <1>0, <1>12, Segments
  <2> HIDE DEF discard, first, second
  <2>5. special_v6(x) <=>
          \/ Unspecified(x) \/ Loopback(x)
          \/ a = 255
          \/ a \in {252, 253}
          \/ a = 254 /\ b \in 128..191
          \/ a = 254 /\ b >= 192
          \/ a = 32 /\ b = 1 /\ c = 0 /\ d = 0
          \/ a = 32 /\ b = 1 /\ c = 13 /\ d = 184
          \/ discard
    BY <2>1, <2>2, <2>3, <2>4
  <2> QED
    BY <2>5 DEF discard
<1> QED
  BY <1>1, <1>2, <1>3, <1>4, <1>6, <1>7, <1>8, <1>9, <1>10, <1>11, <1>13

\* Each range of the registries is of one family.
LEMMA Families ==
    /\ \A special \in Special4 : Len(special[1]) = 4
    /\ \A special \in Special6 : Len(special[1]) = 16
<1>1. \A special \in Special4 : Len(special[1]) = 4
  BY DEF Special4
<1>2. Len(Zeros(16)) = 16 /\ Len(Zeros(15) \o <<1>>) = 16
  BY ZerosTyped, LocalHostOctets DEF LocalHost
<1>3. /\ 1 \in Octet /\ 32 \in Octet /\ 13 \in Octet /\ 184 \in Octet /\ 252 \in Octet
      /\ 254 \in Octet /\ 128 \in Octet /\ 192 \in Octet /\ 255 \in Octet
  BY DEF Octet
<1>4. Len(V6Net(<<1>>)) = 16 /\ Len(V6Net(<<252>>)) = 16 /\ Len(V6Net(<<255>>)) = 16
  BY <1>3, Net1
<1>5. Len(V6Net(<<32, 1>>)) = 16 /\ Len(V6Net(<<254, 128>>)) = 16 /\ Len(V6Net(<<254, 192>>)) = 16
  BY <1>3, Net2
<1>6. Len(V6Net(<<32, 1, 13, 184>>)) = 16
  BY <1>3, Net4
<1>7. \A special \in Special6 : Len(special[1]) = 16
  <2>1. ASSUME NEW special \in Special6
        PROVE  special[1] \in {Zeros(16), Zeros(15) \o <<1>>, V6Net(<<1>>), V6Net(<<32, 1>>),
                               V6Net(<<32, 1, 13, 184>>), V6Net(<<252>>), V6Net(<<254, 128>>),
                               V6Net(<<254, 192>>), V6Net(<<255>>)}
    BY DEF Special6
  <2> QED
    BY <1>2, <1>4, <1>5, <1>6, <2>1
<1> QED
  BY <1>1, <1>7

\* is_public refuses exactly the ranges of the registries.
LEMMA PublicIsUnregistered ==
    ASSUME NEW x \in Address, canonical(x) = x
    PROVE  is_public(x) <=>
             ~ \E special \in Special4 \cup Special6 : InRange(x, special[1], special[2])
<1>1. CASE Len(x) = 4
  <2>1. \A special \in Special6 : ~InRange(x, special[1], special[2])
    BY <1>1, Families DEF InRange
  <2>2. is_public(x) <=> ~special_v4(x)
    BY <1>1 DEF is_public, V4
  <2>3. special_v4(x) <=> \E special \in Special4 : InRange(x, special[1], special[2])
    BY <1>1, Special4Octets
  <2> QED
    BY <2>1, <2>2, <2>3
<1>2. CASE Len(x) = 16
  <2>1. \A special \in Special4 : ~InRange(x, special[1], special[2])
    BY <1>2, Families DEF InRange
  <2>2. is_public(x) <=> ~special_v6(x)
    BY <1>2 DEF is_public, V4
  <2>3. special_v6(x) <=> \E special \in Special6 : InRange(x, special[1], special[2])
    BY <1>2, Special6Octets
  <2> QED
    BY <2>1, <2>2, <2>3
<1> QED
  BY <1>1, <1>2, AddressSeq

--------------------------------------------------------------------------------
(***************************************************************************)
(* The verdict.                                                            *)
(***************************************************************************)
\* DestinationPolicy::permits, for every file whose ranges parse: whatever way
\* an address is spelled, the verdict is the one the file asks for on the
\* address itself - the bits of every denied range, and all of the registered
\* special-purpose space.
THEOREM OneVerdict ==
    ASSUME NEW file, \A range \in file.denied : Parsed(range),
           NEW x \in Address, Plain(x), NEW s \in SpellingsOf(x)
    PROVE  permits(file, s) <=> ReferenceVerdict(file, x)
<1>1. canonical(s) = x
  BY CanonicalOfSpelling
<1>2. canonical(x) = x
  <2>1. x \in SpellingsOf(x)
    BY DEF SpellingsOf
  <2> QED
    BY <2>1, CanonicalOfSpelling
<1>3. ASSUME NEW range \in file.denied
      PROVE  contains(range, x) <=> InRange(x, range.network, range.prefix)
  <2>1. range.network \in Address /\ range.prefix \in 0 .. 8 * Len(range.network)
    BY DEF Parsed
  <2>2. (Len(range.network) = Len(x) /\ matches_prefix(range.network, x, range.prefix))
          <=> InRange(x, range.network, range.prefix)
    BY <2>1, MatchesBits
  <2> QED
    BY <1>2, <2>2 DEF contains
<1>4. is_public(x) <=>
        ~ \E special \in Special4 \cup Special6 : InRange(x, special[1], special[2])
  BY <1>2, PublicIsUnregistered
<1> QED
  BY <1>1, <1>3, <1>4 DEF permits, ReferenceVerdict

\* canonical ends at an address that spells no other, whatever it begins with:
\* four of the sixteen octets, or an address none of its tests recognises.
LEMMA CanonicalIsPlain ==
    ASSUME NEW a \in Address
    PROVE  canonical(a) \in Address /\ Plain(canonical(a))
<1>1. ASSUME NEW first \in {3, 13}, Len(a) = 16
      PROVE  SubSeq(a, first, first + 3) \in Address /\ V4(SubSeq(a, first, first + 3))
  <2> DEFINE last == first + 3
             taken == SubSeq(a, first, last)
  <2>1. a \in Seq(Octet)
    BY AddressSeq
  <2>2. first \in Nat \ {0} /\ last \in Nat /\ first <= last /\ last <= Len(a)
    BY <1>1
  <2>3. last + 1 - first = 4
    BY <1>1
  <2> HIDE DEF last
  <2>4. taken \in Seq(Octet) /\ Len(taken) = last + 1 - first
    BY <2>1, <2>2, Sliced
  <2> HIDE DEF taken
  <2>5. taken \in Address /\ V4(taken)
    BY <2>3, <2>4 DEF Address, V4
  <2> QED
    BY <2>5 DEF taken, last
<1>2. CASE Len(a) = 4
  BY <1>2 DEF canonical, V4, Plain
<1>3. CASE Len(a) = 16
  <2>1. SubSeq(a, 13, 16) \in Address /\ V4(SubSeq(a, 13, 16))
    <3>1. SubSeq(a, 13, 13 + 3) \in Address /\ V4(SubSeq(a, 13, 13 + 3))
      BY <1>1, <1>3
    <3> QED
      BY <3>1
  <2>2. SubSeq(a, 3, 6) \in Address /\ V4(SubSeq(a, 3, 6))
    <3>1. SubSeq(a, 3, 3 + 3) \in Address /\ V4(SubSeq(a, 3, 3 + 3))
      BY <1>1, <1>3
    <3> QED
      BY <3>1
  <2>3. CASE canonical(a) \in {SubSeq(a, 13, 16), SubSeq(a, 3, 6)}
    BY <2>1, <2>2, <2>3 DEF Plain
  <2>4. CASE canonical(a) \notin {SubSeq(a, 13, 16), SubSeq(a, 3, 6)}
    <3>1. /\ ~IsPrefix(Mapped, a) /\ ~IsPrefix(SixToFour, a) /\ ~IsPrefix(Nat64, a)
          /\ ~IsPrefix(Compatible, a) \/ Unspecified(a) \/ Loopback(a)
      BY <1>3, <2>4, CanonicalCases
    <3>2. canonical(a) = a
      BY <1>3, <3>1, CanonicalCases
    <3>3. CASE Unspecified(a) \/ Loopback(a)
      BY <1>3, <3>2, <3>3 DEF Unspecified, Loopback, V4, Plain
    <3>4. CASE ~IsPrefix(Compatible, a)
      <4>1. /\ ~InRange(a, V6Net(Mapped), 96) /\ ~InRange(a, V6Net(Compatible), 96)
            /\ ~InRange(a, V6Net(Nat64), 96) /\ ~InRange(a, V6Net(SixToFour), 16)
        BY <1>3, <3>1, <3>4, Carriers
      <4>2. ~ \E carrier \in {<<Mapped, 96>>, <<Compatible, 96>>, <<Nat64, 96>>, <<SixToFour, 16>>} :
                InRange(a, V6Net(carrier[1]), carrier[2])
        BY <4>1
      <4> QED
        BY <3>2, <4>2 DEF Plain
    <3> QED
      BY <3>1, <3>3, <3>4
  <2> QED
    BY <2>3, <2>4
<1> QED
  BY <1>2, <1>3, AddressSeq

\* And there is no address beyond those spellings: of each of them, a 6to4
\* address with any subnet and interface included, the verdict is the one the
\* file asks for on an address that spells no other.
THEOREM EveryAddressJudged ==
    ASSUME NEW file, \A range \in file.denied : Parsed(range), NEW a \in Address
    PROVE  /\ Plain(canonical(a))
           /\ permits(file, a) <=> ReferenceVerdict(file, canonical(a))
<1> DEFINE known == canonical(a)
<1>1. known \in Address /\ Plain(known)
  BY CanonicalIsPlain
<1>2. known \in SpellingsOf(known)
  BY DEF SpellingsOf
<1> HIDE DEF known
<1>3. canonical(known) = known
  BY <1>1, <1>2, CanonicalOfSpelling
<1>4. permits(file, known) <=> ReferenceVerdict(file, known)
  BY <1>1, <1>2, OneVerdict
<1>5. permits(file, a) <=> permits(file, known)
  BY <1>3 DEF permits, known
<1> QED
  BY <1>1, <1>4, <1>5 DEF known

\* "One classification for every spelling" (policy.rs), of every address and
\* every policy file that loads.
THEOREM OneClassification == Spec => []VerdictIsOfPlainAddress
<1>1. Init => VerdictIsOfPlainAddress
  BY DEF Init, VerdictIsOfPlainAddress
<1>2. VerdictIsOfPlainAddress /\ [Next]_input => VerdictIsOfPlainAddress'
  <2> SUFFICES ASSUME VerdictIsOfPlainAddress, [Next]_input
               PROVE  VerdictIsOfPlainAddress'
    OBVIOUS
  <2>1. CASE CheckAddress
    <3>1. PICK address \in Addresses, file \in Files :
            \E spelled \in SpellingsOf(address) :
              input' = [kind |-> "address", plain |-> address, spelled |-> spelled, file |-> file]
      BY <2>1 DEF CheckAddress
    <3>2. PICK spelled \in SpellingsOf(address) :
            input' = [kind |-> "address", plain |-> address, spelled |-> spelled, file |-> file]
      BY <3>1
    <3>3. input'.plain = address /\ input'.spelled = spelled /\ input'.file = file
      BY <3>2
    <3>4. address \in Address /\ Plain(address)
      BY RulesAssumption
    <3>5. ASSUME Loads(file)
          PROVE  permits(file, spelled) <=> ReferenceVerdict(file, address)
      <4>1. \A range \in file.denied : Parsed(range)
        BY <3>5, RulesAssumption DEF Loads
      <4> QED
        BY <3>4, <4>1, OneVerdict
    <3> QED
      BY <3>3, <3>5 DEF VerdictIsOfPlainAddress
  <2>2. CASE CheckEnvelope \/ CheckData \/ CheckEntry
    <3>1. input'.kind # "address"
      BY <2>2 DEF CheckEnvelope, CheckData, CheckEntry
    <3> QED
      BY <3>1 DEF VerdictIsOfPlainAddress
  <2>3. CASE UNCHANGED input
    BY <2>3 DEF VerdictIsOfPlainAddress
  <2> QED
    BY <2>1, <2>2, <2>3 DEF Next
<1> QED
  BY <1>1, <1>2, PTL DEF Spec
================================================================================
