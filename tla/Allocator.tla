------------------------------ MODULE Allocator ------------------------------
(***************************************************************************)
(* The allocator of the registered memory (BaseRDMA): a list of free       *)
(* regions, searched first-fit, and a map of the regions in use.  It backs *)
(* localAlloc and localFree, and the server's answers to remoteAlloc and   *)
(* remoteFree, which lock m_memLock; every call is one step here.          *)
(***************************************************************************)
EXTENDS Integers, Sequences, SequencesExt, FiniteSets

CONSTANTS
    MemSize,    \* m_memSize
    Sizes       \* bound: the sizes that are asked for; nobody asks for 0 bytes

ASSUME MemAssumption ==
    /\ MemSize \in Nat \ {0}
    /\ Sizes \subseteq Nat \ {0}

VARIABLES
    m_rdmaMem,      \* the free regions, a list
    m_usedRdmaMem,  \* the regions in use
    lost,           \* history: the regions whose release failed
    result          \* how the last call ended

vars == <<m_rdmaMem, m_usedRdmaMem, lost, result>>

Regions == [offset : 0 .. MemSize - 1, size : 1 .. MemSize]

bytes(region) == region.offset .. region.offset + region.size - 1

TypeOK ==
    /\ m_rdmaMem \in Seq(Regions)
    /\ m_usedRdmaMem \subseteq Regions
    /\ lost \subseteq Regions
    /\ result \in {"none", "ok", "null", "thrown"}

Init ==
    /\ m_rdmaMem = <<[offset |-> 0, size |-> MemSize]>>
    /\ m_usedRdmaMem = {}
    /\ lost = {}
    /\ result = "none"

-----------------------------------------------------------------------------
(***************************************************************************)
(* internalAlloc                                                           *)
(***************************************************************************)
\* Mutant: a region that fits exactly is not taken.
fitsLarger(k, size) == m_rdmaMem[k].size > size

fits(k, size) == m_rdmaMem[k].size >= size

\* What is left of a free region.
rest(region, size) ==
    IF region.size > size
    THEN <<[offset |-> region.offset + size, size |-> region.size - size]>> ELSE <<>>

\* The first free region that is large enough; its front is used.
internalAlloc(size) ==
    LET fitting == {k \in DOMAIN m_rdmaMem : fits(k, size)} IN
    IF fitting = {}
    THEN /\ result' = "null"
         /\ UNCHANGED <<m_rdmaMem, m_usedRdmaMem, lost>>
    ELSE LET k == CHOOSE k \in fitting : \A j \in fitting : k <= j
             region == m_rdmaMem[k] IN
         /\ m_rdmaMem' = SubSeq(m_rdmaMem, 1, k - 1) \o rest(region, size)
                            \o SubSeq(m_rdmaMem, k + 1, Len(m_rdmaMem))
         /\ m_usedRdmaMem' = m_usedRdmaMem \cup
                                {[offset |-> region.offset, size |-> size]}
         /\ result' = "ok"
         /\ UNCHANGED lost

-----------------------------------------------------------------------------
(***************************************************************************)
(* internalFree and mergeFreeMem                                           *)
(***************************************************************************)
adjacent(a, b) == a.offset + a.size = b.offset

\* Mutant: only the region before is looked at.
mergePrev(list, k) ==
    IF k > 1 /\ adjacent(list[k - 1], list[k])
    THEN SubSeq(list, 1, k - 2)
            \o <<[offset |-> list[k - 1].offset, size |-> list[k - 1].size + list[k].size]>>
            \o SubSeq(list, k + 1, Len(list))
    ELSE list

\* The region at k is joined with the ones before and behind it that touch it.
mergeFreeMem(list, k) ==
    LET first == IF k > 1 /\ adjacent(list[k - 1], list[k]) THEN k - 1 ELSE k
        last == IF k < Len(list) /\ adjacent(list[k], list[k + 1]) THEN k + 1 ELSE k
        joined == [offset |-> list[first].offset,
                   size |-> list[last].offset + list[last].size - list[first].offset] IN
    SubSeq(list, 1, first - 1) \o <<joined>> \o SubSeq(list, last + 1, Len(list))

\* The value of lastOffset when the loop reaches position k: the offsets before it, added up.
lastOffset[k \in 1 .. Len(m_rdmaMem) + 1] ==
    IF k = 1 THEN 0 ELSE lastOffset[k - 1] + m_rdmaMem[k - 1].offset

insertable(k, offset) == lastOffset[k] <= offset /\ offset < m_rdmaMem[k].offset

\* The region is inserted at the first place that the loop accepts, or, when there
\* is none and the list is not empty, the call throws and the region is gone.
internalFree(region) ==
    LET places == {k \in DOMAIN m_rdmaMem : insertable(k, region.offset)} IN
    /\ m_usedRdmaMem' = m_usedRdmaMem \ {region}
    /\ IF m_rdmaMem = <<>>
       THEN m_rdmaMem' = <<region>> /\ result' = "ok" /\ UNCHANGED lost
       ELSE IF places # {}
       THEN LET k == CHOOSE k \in places : \A j \in places : k <= j IN
            /\ m_rdmaMem' = mergeFreeMem(InsertAt(m_rdmaMem, k, region), k)
            /\ result' = "ok"
            /\ UNCHANGED lost
       ELSE /\ lost' = lost \cup {region}
            /\ result' = "thrown"
            /\ UNCHANGED m_rdmaMem

Next ==
    \/ \E size \in Sizes : internalAlloc(size)
    \/ \E region \in m_usedRdmaMem : internalFree(region)

Spec == Init /\ [][Next]_vars

-----------------------------------------------------------------------------
(***************************************************************************)
(* Properties                                                              *)
(***************************************************************************)
freeBytes == UNION {bytes(m_rdmaMem[k]) : k \in DOMAIN m_rdmaMem}

\* The free list is sorted, and no two regions of it touch: internalFree relies on
\* the order, internalAlloc on the joining.
FreeListCoalesced ==
    \A j, k \in DOMAIN m_rdmaMem :
        j < k => m_rdmaMem[j].offset + m_rdmaMem[j].size < m_rdmaMem[k].offset

\* Every byte of the memory is in one free region, in use, or was in a region whose
\* release failed, and in no two of them.
EveryByteOnce ==
    \A b \in 0 .. MemSize - 1 :
        Cardinality({k \in DOMAIN m_rdmaMem : b \in bytes(m_rdmaMem[k])})
      + Cardinality({r \in m_usedRdmaMem : b \in bytes(r)})
      + Cardinality({r \in lost : b \in bytes(r)}) = 1

\* What the calls rely on and keep: the state of the free list and of the memory.
AllocatorInv == TypeOK /\ FreeListCoalesced /\ EveryByteOnce

\* The allocator implements AbstractAllocator; above all it refuses a request only
\* when there is no run of free bytes that is long enough.
Abstract == INSTANCE AbstractAllocator WITH free <- freeBytes, used <- m_usedRdmaMem
AbstractSpec == Abstract!Spec

\* "lookup the memory region that was assigned to this pointer": a region that was
\* assigned is found, and goes back to the free list.
FreeReturnsRegion == result # "thrown"
=============================================================================
