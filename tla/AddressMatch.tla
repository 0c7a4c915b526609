---------------------------- MODULE AddressMatch ----------------------------
(***************************************************************************)
(* Matching an address against an entry of an access list: isIpInCidr      *)
(* (utils/net.cpp), on addresses of AddressBits bits instead of 32.  A     *)
(* word is the set of its bits that are set, 0 being the lowest.           *)
(*                                                                         *)
(* An entry is an address, or an address and a prefix length after a       *)
(* slash.  A base that inet_pton refuses is NotAddress.  An entry whose    *)
(* prefix is not a number is not among them: std::stoi throws there, which *)
(* nothing on a worker's path catches.                                     *)
(***************************************************************************)
EXTENDS Integers

CONSTANT AddressBits    \* 32 in the code

ASSUME AddressAssumption == AddressBits \in Nat \ {0}

\* All bits of a word: ~0
AllBits == 0 .. AddressBits - 1

Addresses == SUBSET AllBits

\* A text that is no address: not a word at all.
NotAddress == {-1}

Entries == [base : Addresses \cup {NotAddress}, slash : BOOLEAN, prefix : Int]

\* x << n: what is shifted out is lost
ShiftLeft(x, n) == {i + n : i \in x} \cap AllBits

\* Mutant: without the case of its own a prefix of 0 shifts by the whole width,
\* which the processor takes as not shifting at all.
Mask_NoZeroCase(prefix) == ShiftLeft(AllBits, (AddressBits - prefix) % AddressBits)

\* prefix == 0 ? 0 : 0xFFFFFFFFu << (32 - prefix)
Mask(prefix) ==
    IF prefix = 0 THEN {} ELSE ShiftLeft(AllBits, AddressBits - prefix)

isIpInCidr(ip, cidr) ==
    IF ~cidr.slash THEN ip = cidr.base
    ELSE /\ cidr.prefix \in 0 .. AddressBits
         /\ cidr.base # NotAddress
         /\ ip \cap Mask(cidr.prefix) = cidr.base \cap Mask(cidr.prefix)

-----------------------------------------------------------------------------
\* What an entry means: the addresses whose first bits are those of its base; without
\* a prefix, the address itself.
InNetwork(ip, entry) ==
    LET prefix == IF entry.slash THEN entry.prefix ELSE AddressBits
    IN  /\ entry.base # NotAddress /\ prefix \in 0 .. AddressBits
        /\ \A k \in 1 .. prefix : AddressBits - k \in ip <=> AddressBits - k \in entry.base
=============================================================================
