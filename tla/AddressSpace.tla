---------------------------- MODULE AddressSpace ----------------------------
(***************************************************************************)
(* What an allocator of device memory promises, without its lists: which   *)
(* ranges are taken, where an allocation lands, when it fails, and which   *)
(* is the lowest address in use.  FreeList implements it.                  *)
(***************************************************************************)
EXTENDS Integers, FiniteSets, FiniteSetsExt

CONSTANTS
    Size,           \* bytes of a bank, a multiple of Alignment
    Offset,         \* address of the first one, a multiple of Alignment
    Alignment,      \* of every address and of every size
    Limit           \* the address some allocations must not be below

VARIABLES
    taken,          \* the ranges that are allocated
    policy,         \* "first" or "best"
    lowest,         \* the lowest address that is allocated, relative to Offset; -1 for none
    reply,          \* how the last call ended
    open,           \* the device is open
    buffers         \* the addresses of the allocations that succeeded and were not deallocated

vars == <<taken, policy, lowest, reply, open, buffers>>

Space == Offset .. Offset + Size - 1
Bytes(r) == r.address .. r.address + r.size - 1
FreeBytes == Space \ UNION {Bytes(r) : r \in taken}

\* Where n of the free bytes fit, and how long the free stretch around an address is.
Fits(free, n) == {a \in free : a % Alignment = 0 /\ a .. a + n - 1 \subseteq free}
Stretch(free, a) == Cardinality({z \in free : Min({a, z}) .. Max({a, z}) \subseteq free})

\* Where an allocation of n bytes lands, if it fits: as low or as high as it goes, in a shortest stretch for "best".
Place(n, bottom_up) ==
    LET free == FreeBytes
        fits == Fits(free, n)
        shortest == Min({Stretch(free, a) : a \in fits})
        choice == IF policy = "first" THEN fits ELSE {a \in fits : Stretch(free, a) = shortest}
    IN  IF fits = {} THEN {} ELSE IF bottom_up THEN {Min(choice)} ELSE {Max(choice)}

Lowest(T) == IF T = {} THEN -1 ELSE Min({r.address : r \in T}) - Offset

Init ==
    /\ taken = {} /\ policy \in {"first", "best"} /\ lowest = -1
    /\ reply = "none" /\ open = TRUE /\ buffers = {}

Take(a, n) ==
    /\ taken' = taken \cup {[address |-> a, size |-> n]}
    /\ lowest' = Lowest(taken')

\* An allocation that lands below its limit is refused, yet its range stays taken.
Allocate(n, bottom_up, limit) ==
    /\ open /\ reply' \in {"address", "throw"}
    /\ \E a \in Place(n, bottom_up) :
         /\ Take(a, n)
         /\ reply' = "throw" <=> a < limit
         /\ buffers' = IF a < limit THEN buffers ELSE buffers \cup {a}
    /\ UNCHANGED <<policy, open>>

AllocateAt(a, n) ==
    /\ open /\ reply' = "address"
    /\ a \in Fits(FreeBytes, n)
    /\ Take(a, n)
    /\ buffers' = buffers \cup {a}
    /\ UNCHANGED <<policy, open>>

\* Only if there is no room.
OutOfMemory(n) ==
    /\ open /\ reply' = "nullopt"
    /\ Fits(FreeBytes, n) = {}
    /\ UNCHANGED <<taken, policy, lowest, open, buffers>>

NoRoomAt(a, n) ==
    /\ open /\ reply' = "nullopt"
    /\ a \notin Fits(FreeBytes, n)
    /\ UNCHANGED <<taken, policy, lowest, open, buffers>>

\* The range that was allocated at a.
Deallocate(a) ==
    /\ open /\ reply' = "none"
    /\ taken' = {r \in taken : r.address # a}
    /\ lowest' = Lowest(taken')
    /\ buffers' = buffers \ {a}
    /\ UNCHANGED <<policy, open>>

\* Buffers that are destroyed after the device was closed change nothing.
DeallocateClosed(a) ==
    /\ ~open /\ reply' = "none"
    /\ buffers' = buffers \ {a}
    /\ UNCHANGED <<taken, policy, lowest, open>>

Clear ==
    /\ open
    /\ taken' = {} /\ reply' = "none" /\ open' = FALSE
    /\ UNCHANGED <<policy, lowest, buffers>>

Lengths == {k * Alignment : k \in 1 .. Size \div Alignment}
Addresses == {a \in Space : a % Alignment = 0}

Next ==
    \/ \E n \in Lengths :
         \/ \E up \in BOOLEAN, limit \in {0, Limit} : Allocate(n, up, limit)
         \/ OutOfMemory(n)
         \/ \E a \in Addresses : AllocateAt(a, n) \/ NoRoomAt(a, n)
    \/ \E a \in buffers : Deallocate(a) \/ DeallocateClosed(a)
    \/ Clear

Spec == Init /\ [][Next]_vars
=============================================================================
