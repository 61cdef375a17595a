-------------------------- MODULE AbstractAllocator --------------------------
(***************************************************************************)
(* What the allocator of the registered memory promises: a request gets a  *)
(* run of free bytes whenever there is one that is long enough, and        *)
(* nothing that is in use is ever given out.  A release may fail; then the *)
(* region stays out of use for good.                                       *)
(***************************************************************************)
EXTENDS Integers

CONSTANTS MemSize, Sizes

VARIABLES
    free,       \* the free bytes
    used,       \* the regions in use
    result      \* how the last call ended

bytes(region) == region.offset .. region.offset + region.size - 1

Regions == {[offset |-> o, size |-> s] : o \in 0 .. MemSize - 1, s \in Sizes}

Runs(size) == {r \in Regions : r.size = size /\ bytes(r) \subseteq free}

Init ==
    /\ free = 0 .. MemSize - 1
    /\ used = {}
    /\ result = "none"

Alloc(size) ==
    \/ \E r \in Runs(size) :
          /\ free' = free \ bytes(r)
          /\ used' = used \cup {r}
          /\ result' = "ok"
    \/ /\ Runs(size) = {}
       /\ result' = "null"
       /\ UNCHANGED <<free, used>>

Release(r) ==
    /\ used' = used \ {r}
    /\ \/ free' = free \cup bytes(r) /\ result' = "ok"
       \/ free' = free /\ result' = "thrown"

Next ==
    \/ \E size \in Sizes : Alloc(size)
    \/ \E r \in used : Release(r)

Spec == Init /\ [][Next]_<<free, used, result>>
=============================================================================
