------------------------------ MODULE Overlays ------------------------------
(***************************************************************************)
(* The prefixes a hub hands to its instances and takes back, over the      *)
(* pools of one family, and what the walk that finds the next one must     *)
(* find.  A hub restarted with one more pool goes on with what it has      *)
(* handed out.                                                             *)
(***************************************************************************)
EXTENDS Ipam, FiniteSets

CONSTANTS
  Sizes,      \* sizes of the slices a pool may be cut into
  MaxPools,   \* bound on pools
  MaxSlices   \* bound on the slices of a pool

VARIABLES
  pools,      \* the pools in the order they are configured
  taken       \* the prefixes instances hold

overlayVars == <<pools, taken>>

\* What ParsePool lets through, up to the bounds.  A pool may be written with
\* host bits set; every use of it masks them.
Pools(is4) ==
  {p \in {Pool(Masked(Prefix(a, b)), s) : a \in {x \in Addrs : x.is4 = is4},
                                          b \in 0 .. (IF is4 THEN V4Bits ELSE V6Bits), s \in Sizes} :
     p.size >= p.prefix.bits /\ p.size <= BitLen(p.prefix.addr) /\ Slices(p) <= MaxSlices}

OverlaysInit ==
  /\ \E is4 \in BOOLEAN : \E p \in Pools(is4) : pools = <<p>>
  /\ taken = {}

CreateOverlay ==
  /\ allocateOverlay(pools, taken) # Invalid
  /\ taken' = taken \cup {allocateOverlay(pools, taken)}
  /\ UNCHANGED pools

Release(p) == p \in taken /\ taken' = taken \ {p} /\ UNCHANGED pools

\* The configuration is read again with one more pool of the family.
AddPool(p) ==
  /\ Len(pools) < MaxPools
  /\ ~refuseOverlap(Append(pools, p))
  /\ pools' = Append(pools, p)
  /\ UNCHANGED taken

OverlaysNext ==
  \/ CreateOverlay
  \/ \E p \in taken : Release(p)
  \/ \E p \in Pools(pools[1].prefix.addr.is4) : AddPool(p)

OverlaysSpec == OverlaysInit /\ [][OverlaysNext]_overlayVars
-----------------------------------------------------------------------------
\* The slices of a pool, by definition.
SlicesOf(pool) ==
  LET base == Masked(pool.prefix).addr
  IN  {Prefix([base EXCEPT !.n = @ + i * 2 ^ (BitLen(base) - pool.size)], pool.size) :
         i \in 0 .. Slices(pool) - 1}

Free(i) == SlicesOf(pools[i]) \ taken

\* "The lowest free subnet, taking pools in the order they were configured and
\* moving to the next when one is full" (allocateOverlay), to the last slice.
LowestOfFirst ==
  LET open == {i \in 1 .. Len(pools) : Free(i) # {}}
      got == allocateOverlay(pools, taken)
  IN  IF open = {} THEN got = Invalid
      ELSE \E i \in open : /\ \A j \in open : i <= j
                           /\ got \in Free(i)
                           /\ \A p \in Free(i) : got.addr.n <= p.addr.n
=============================================================================
