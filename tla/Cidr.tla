-------------------------------- MODULE Cidr --------------------------------
(***************************************************************************)
(* util::expand_cidr with addresses of Bits bits instead of 32 and at most *)
(* MaxHosts results instead of 65536; addresses wrap like std::uint32_t.   *)
(***************************************************************************)
EXTENDS Integers, Sequences

CONSTANTS Bits, MaxHosts

Pow2[n \in Nat] == IF n = 0 THEN 1 ELSE 2 * Pow2[n - 1]
Width == Pow2[Bits]

ASSUME CidrSizes == Bits \in Nat \ {0} /\ MaxHosts \in Nat \ {0}

\* The part of an address that its prefix leaves free: 2^(32 - prefix_len).
Block(prefix) == Pow2[Bits - prefix]

\* The loop of expand_cidr, as if it started at the address that was given.
Bug_StartsAtBase(base, prefix) ==
    [i \in 1..(IF Block(prefix) > MaxHosts THEN MaxHosts ELSE Block(prefix)) |->
        (base + i - 1) % Width]

\* base & mask, count and the loop that adds i to the network address.
Hosts(base, prefix) ==
    LET mask == IF prefix = 0 THEN 0 ELSE Width - Block(prefix)
        network == base - (base % (Width - mask))
        count == IF Block(prefix) > MaxHosts THEN MaxHosts ELSE Block(prefix)
    IN  [i \in 1..count |-> (network + i - 1) % Width]

\* expand_cidr: without a slash the text itself; a prefix that is no number or out
\* of range, or a base that is no address, give nothing.
ExpandCidr(text) ==
    CASE text.form = "no slash" -> <<text.base>>
      [] text.form = "cidr" /\ text.prefix \in 0..Bits -> Hosts(text.base, text.prefix)
      [] OTHER -> <<>>
=============================================================================
