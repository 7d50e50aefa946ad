------------------------------ MODULE HostPool ------------------------------
(***************************************************************************)
(* The addresses of one overlay: connectors come down from the top,        *)
(* everybody else up from the bottom, and an address given up may go to    *)
(* the next.  Module Membership takes a pool to be the set of its usable   *)
(* hosts; here that set is compared with what the two walks find.          *)
(***************************************************************************)
EXTENDS Ipam

CONSTANT MaxHostBits   \* bound on the size of an overlay

VARIABLES
  overlay,   \* the prefix, masked, as allocateOverlay returns it
  held       \* addresses that are taken

hostVars == <<overlay, held>>

HostPoolInit ==
  /\ overlay \in {Masked(Prefix(a, BitLen(a) - h)) : a \in Addrs, h \in 0 .. MaxHostBits}
  /\ held = {}

\* fromPool for a connector and for anybody else.
Connector ==
  /\ highestFree(overlay, held) # Invalid
  /\ held' = held \cup {highestFree(overlay, held)}
  /\ UNCHANGED overlay

Tenant ==
  /\ lowestFree(overlay, held) # Invalid
  /\ held' = held \cup {lowestFree(overlay, held)}
  /\ UNCHANGED overlay

GiveUp(a) == held' = held \ {a} /\ UNCHANGED overlay

HostPoolNext == Connector \/ Tenant \/ \E a \in held : GiveUp(a)

HostPoolSpec == HostPoolInit /\ [][HostPoolNext]_hostVars
-----------------------------------------------------------------------------
\* The hosts of a prefix that may be given out: all but the first, and for
\* IPv4 but the last.
Usable ==
  LET h == HostBits(overlay)
      top == IF overlay.addr.is4 /\ h > 1 THEN 2 ^ h - 2 ELSE 2 ^ h - 1
  IN  {[overlay.addr EXCEPT !.n = @ + i] : i \in 1 .. top}

\* lowestFree and highestFree find the ends of the usable hosts nobody holds,
\* and nothing only when there is none: "the two walks meet in the middle
\* rather than at a boundary".
WalksFindTheEnds ==
  LET free == Usable \ held
      low == lowestFree(overlay, held)
      high == highestFree(overlay, held)
  IN  IF free = {} THEN low = Invalid /\ high = Invalid
      ELSE /\ low \in free /\ high \in free
           /\ \A a \in free : low.n <= a.n /\ a.n <= high.n
=============================================================================
