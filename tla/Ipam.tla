-------------------------------- MODULE Ipam --------------------------------
(***************************************************************************)
(* Address arithmetic of internal/hub/ipam.go, on narrow addresses.  The   *)
(* code works on the 16 byte form of an address so that one loop serves    *)
(* both families; here a byte has ByteBits bits, an IPv6 address Bytes     *)
(* bytes and an IPv4 one V4Bytes, and the carries between bytes, the       *)
(* mapped form and the ends of both spaces are as in the code.             *)
(***************************************************************************)
EXTENDS Integers, Sequences

CONSTANTS ByteBits, Bytes, V4Bytes, Invalid

ASSUME WidthAssumption ==
  /\ ByteBits \in Nat \ {0} /\ V4Bytes \in Nat \ {0}
  /\ Bytes \in Nat /\ Bytes > V4Bytes

Radix == 2 ^ ByteBits
V4Bits == V4Bytes * ByteBits
V6Bits == Bytes * ByteBits

-----------------------------------------------------------------------------
(* netip: addresses and prefixes.                                          *)

BitLen(addr) == IF addr.is4 THEN V4Bits ELSE V6Bits
Addr(is4, n) == [is4 |-> is4, n |-> n]
Addrs == {Addr(TRUE, n) : n \in 0 .. 2 ^ V4Bits - 1} \cup {Addr(FALSE, n) : n \in 0 .. 2 ^ V6Bits - 1}

\* The byte before an IPv4 address is all ones, the others are zero.
MappedBase == (Radix - 1) * 2 ^ V4Bits

As16(addr) ==
  LET n == addr.n + IF addr.is4 THEN MappedBase ELSE 0
  IN  [i \in 1 .. Bytes |-> (n \div Radix ^ (Bytes - i)) % Radix]

AddrFromSlice(raw) ==
  LET upTo[i \in 0 .. Bytes] == IF i = 0 THEN 0 ELSE upTo[i - 1] * Radix + raw[i]
  IN  Addr(FALSE, upTo[Bytes])

Unmap(addr) ==
  IF ~addr.is4 /\ addr.n \in MappedBase .. MappedBase + 2 ^ V4Bits - 1
  THEN Addr(TRUE, addr.n - MappedBase) ELSE addr

NextAddr(addr) == IF addr.n = 2 ^ BitLen(addr) - 1 THEN Invalid ELSE [addr EXCEPT !.n = @ + 1]

Prefix(addr, bits) == [addr |-> addr, bits |-> bits]
HostBits(prefix) == BitLen(prefix.addr) - prefix.bits
Masked(prefix) ==
  [prefix EXCEPT !.addr.n = @ - (@ % 2 ^ HostBits(prefix))]

Contains(prefix, addr) ==
  /\ addr # Invalid
  /\ addr.is4 = prefix.addr.is4
  /\ addr.n \div 2 ^ HostBits(prefix) = prefix.addr.n \div 2 ^ HostBits(prefix)

Overlaps(p, q) == Contains(p, q.addr) \/ Contains(q, p.addr)

-----------------------------------------------------------------------------
(* ipam.go.                                                                *)

\* Every host bit is set, counted from the end of the 16 byte form.
lastAddr(prefix) ==
  LET base == Masked(prefix).addr
      set(byte, bit) == IF (byte \div 2 ^ bit) % 2 = 1 THEN byte ELSE byte + 2 ^ bit
      raw[i \in 0 .. HostBits(prefix)] ==
        IF i = 0 THEN As16(base)
        ELSE [raw[i - 1] EXCEPT ![Bytes - ((i - 1) \div ByteBits)] = set(@, (i - 1) % ByteBits)]
      out == AddrFromSlice(raw[HostBits(prefix)])
  IN  IF base.is4 THEN Unmap(out) ELSE out

isBroadcast(prefix, addr) ==
  /\ addr.is4 /\ prefix.bits < V4Bits - 1
  /\ ~Contains(prefix, NextAddr(addr))

lowestFree(prefix, taken) ==
  LET walk[i \in 1 .. 2 ^ HostBits(prefix)] ==
        LET addr == [Masked(prefix).addr EXCEPT !.n = @ + i]
        IN  IF ~Contains(prefix, addr) THEN Invalid
            ELSE IF addr \notin taken /\ ~isBroadcast(prefix, addr) THEN addr
            ELSE walk[i + 1]
  IN  walk[1]

\* Wrong on purpose: the network address is given out.
highestFreeOfAll(prefix, taken) ==
  LET walk[i \in 0 .. 2 ^ HostBits(prefix)] ==
        LET addr == [lastAddr(prefix) EXCEPT !.n = @ - i]
        IN  IF ~Contains(prefix, addr) THEN Invalid
            ELSE IF addr \notin taken /\ ~isBroadcast(prefix, addr) THEN addr
            ELSE walk[i + 1]
  IN  walk[0]

highestFree(prefix, taken) ==
  LET walk[i \in 0 .. 2 ^ HostBits(prefix)] ==
        LET addr == [lastAddr(prefix) EXCEPT !.n = @ - i]
        IN  IF ~Contains(prefix, addr) THEN Invalid
            ELSE IF addr \notin taken /\ ~isBroadcast(prefix, addr) /\ addr # Masked(prefix).addr
                 THEN addr
            ELSE walk[i + 1]
  IN  walk[0]

\* One byte of the addition; a carry that was used up stops the loop.
Carried(s, i) ==
  LET sum == s.raw[i] + s.carry
  IN  IF s.carry = 0 THEN s
      ELSE [raw |-> [s.raw EXCEPT ![i] = sum % Radix], carry |-> IF sum < Radix THEN 0 ELSE 1]

\* Wrong on purpose: the carry out of the first byte is dropped.
nextSubnetOneByte(prefix, size) ==
  LET addr == Masked(prefix).addr
      shift == BitLen(addr) - size
      index == Bytes - (shift \div ByteBits)
      s == Carried([raw |-> As16(addr), carry |-> 2 ^ (shift % ByteBits)], index)
      next == AddrFromSlice(s.raw)
  IN  Prefix(IF addr.is4 THEN Unmap(next) ELSE next, size)

\* One is added to the subnet's number, which starts `shift' bits from the end.
\* A step past the end of the IPv4 space leaves the mapped form and the family.
nextSubnet(prefix, size) ==
  LET addr == Masked(prefix).addr
      shift == BitLen(addr) - size
      index == Bytes - (shift \div ByteBits)
      before[i \in 0 .. index] ==
        IF i = index THEN [raw |-> As16(addr), carry |-> 2 ^ (shift % ByteBits)]
        ELSE Carried(before[i + 1], i + 1)
      next == AddrFromSlice(before[0].raw)
  IN  IF before[0].carry # 0 THEN Invalid
      ELSE Prefix(IF addr.is4 THEN Unmap(next) ELSE next, size)

\* A pool and the size of the slices it is cut into.
Pool(prefix, size) == [prefix |-> prefix, size |-> size]
Slices(pool) == 2 ^ (pool.size - pool.prefix.bits)

\* The first slice of one pool that is not taken.
FirstIn(pool, taken) ==
  LET walk[i \in 0 .. Slices(pool)] ==
        IF i = 0 THEN Prefix(Masked(pool.prefix).addr, pool.size)
        ELSE IF walk[i - 1] = Invalid \/ walk[i - 1] \notin taken THEN walk[i - 1]
        ELSE LET next == nextSubnet(walk[i - 1], pool.size)
             IN  IF next # Invalid /\ Contains(pool.prefix, next.addr) THEN next ELSE Invalid
  IN  walk[Slices(pool)]

allocateOverlay(pools, taken) ==
  LET from[i \in 1 .. Len(pools) + 1] ==
        IF i > Len(pools) THEN Invalid
        ELSE IF FirstIn(pools[i], taken) # Invalid THEN FirstIn(pools[i], taken)
        ELSE from[i + 1]
  IN  from[1]

refuseOverlap(pools) ==
  \E i, j \in 1 .. Len(pools) : i < j /\ Overlaps(pools[i].prefix, pools[j].prefix)
=============================================================================
