-------------------------- MODULE WorkerConfigBuffer --------------------------
(***************************************************************************)
(* WorkerConfigBufferMgr: the host's book-keeping of the kernel            *)
(* configuration ring in the L1 of the workers, one ring per type of core. *)
(* A program reserves a piece of each ring, frees what the sync it waits   *)
(* for frees, and allocates what it reserved.  The ring of one core type   *)
(* is a record of the table of entries and its two indices; when free and  *)
(* alloc are equal the ring is empty, and entries[alloc].addr is always    *)
(* the next address.  Addresses count from the base of the ring.           *)
(***************************************************************************)
EXTENDS Integers, Sequences, FiniteSets

CONSTANTS
    NumTypes,       \* programmable core types
    RingSize,       \* RingSize[i]: bytes of the ring of core type i
    EntryCount      \* kernel_config_entry_count

CoreTypes == 1 .. NumTypes

ASSUME ConfigAssumption ==
    /\ NumTypes \in Nat \ {0}
    /\ RingSize \in [CoreTypes -> Nat \ {0}]
    /\ EntryCount \in Nat /\ EntryCount >= 2

ConfigEntry == [addr : Nat, size : Nat, sync : Nat]
Ring == [entries : [0 .. EntryCount - 1 -> ConfigEntry],
         alloc : 0 .. EntryCount - 1, free : 0 .. EntryCount - 1]

\* init_add_core
EmptyRing == [entries |-> [e \in 0 .. EntryCount - 1 |-> [addr |-> 0, size |-> 0, sync |-> 0]],
              alloc |-> 0, free |-> 0]

NextIndex(e) == IF e + 1 = EntryCount THEN 0 ELSE e + 1

-----------------------------------------------------------------------------
(* reserve *)

\* What one round of the loop finds for a piece of the given size of ring r, when the entries before f count as freed.
Round(i, r, size, f) ==
    LET end(a, e) == IF a >= r.entries[e].addr THEN RingSize[i] ELSE r.entries[e].addr
        next == r.entries[r.alloc].addr
        wraps == next + size > end(next, f) /\ end(next, f) = RingSize[i]
        addr == IF wraps THEN 0 ELSE next
        short == addr + size > (IF wraps THEN r.entries[f].addr ELSE end(next, f))
        nf == NextIndex(f)
    IN [again     |-> short /\ nf # r.alloc /\ addr + size > end(addr, nf),
        addr      |-> IF short /\ nf = r.alloc THEN 0 ELSE addr,
        need_sync |-> short \/ NextIndex(r.alloc) = f,
        sync      |-> r.entries[f].sync]

\* The free index the loop ends with, a number of entries ahead.
Ahead(r, k) == (r.free + k) % EntryCount

\* The reservation of a piece of ring r; nothing is looked at for an empty one.
ReserveOne(i, r, size) ==
    IF size = 0
    THEN [addr |-> r.entries[r.alloc].addr, size |-> 0, need_sync |-> FALSE, sync |-> 0]
    ELSE LET ends == {n \in 0 .. EntryCount - 1 : ~Round(i, r, size, Ahead(r, n)).again}
             k == CHOOSE n \in ends : \A m \in ends : n <= m
             found == Round(i, r, size, Ahead(r, k))
         IN [addr |-> found.addr, size |-> size, need_sync |-> found.need_sync, sync |-> found.sync]

\* reserve: a sync for one core type is a sync for all; the last core type that reserves sets the count.
reserve(rings, sizes) ==
    LET one == [i \in CoreTypes |-> ReserveOne(i, rings[i], sizes[i])]
        last == CHOOSE i \in CoreTypes : sizes[i] # 0 /\ \A j \in CoreTypes : sizes[j] # 0 => j <= i
    IN [need_sync |-> \E i \in CoreTypes : one[i].need_sync,
        sync      |-> one[last].sync,
        at        |-> [i \in CoreTypes |-> [addr |-> one[i].addr, size |-> one[i].size]]]

-----------------------------------------------------------------------------
\* free: at most one entry of every ring.
free(rings, upTo) ==
    [i \in CoreTypes |->
        IF upTo >= rings[i].entries[rings[i].free].sync /\ rings[i].free # rings[i].alloc
        THEN [rings[i] EXCEPT !.free = NextIndex(rings[i].free)]
        ELSE rings[i]]

\* alloc: the reservation becomes the entry at alloc; its end is the address of the next entry.
\* (The code marks the sync count of that entry with a pattern that nothing compares while it is unused.)
alloc(rings, at, sync) ==
    [i \in CoreTypes |->
        LET r == rings[i]
            n == NextIndex(r.alloc)
        IN [r EXCEPT !.entries[r.alloc] = [addr |-> at[i].addr, size |-> at[i].size, sync |-> sync],
                     !.entries[n] = [addr |-> at[i].addr + at[i].size, size |-> 0, sync |-> 0],
                     !.alloc = n]]

=============================================================================
