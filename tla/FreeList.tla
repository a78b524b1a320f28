------------------------------ MODULE FreeList ------------------------------
(***************************************************************************)
(* The free-list allocator of device memory (free_list.cpp) as             *)
(* BankManager (allocator.cpp) and Buffer (buffer.cpp) use it.  A bank is  *)
(* a doubly linked list of blocks in the order of their addresses; the     *)
(* free ones form a second list.  Whether a block is allocated is not      *)
(* recorded: it is free if it has a free neighbour in the second list or   *)
(* is an end of it.                                                        *)
(*                                                                         *)
(* The links are modelled as they are, block by block.  block_tail_ is     *)
(* left out: nothing but its own update reads it (and the two merges of    *)
(* deallocate do not keep it).                                             *)
(***************************************************************************)
EXTENDS Integers, Sequences, FiniteSets, SequencesExt

CONSTANTS
    max_size_bytes, offset_bytes, alignment,
    page_size, num_banks, num_shards,
    Pages,          \* numbers of pages of the buffers that are considered
    Sizes,          \* bytes of the allocations at an address
    address_limit,  \* interleaved L1 buffers must not be below
    Nil             \* the null pointer

ASSUME FreeListAssumption ==
    /\ offset_bytes \in Nat /\ alignment \in Nat \ {0} /\ max_size_bytes \in Nat \ {0}
    /\ offset_bytes % alignment = 0 /\ max_size_bytes % alignment = 0
    /\ page_size \in Nat \ {0} /\ num_banks \in Nat \ {0} /\ num_shards \in Nat \ {0}
    /\ Pages \subseteq Nat \ {0} /\ Sizes \subseteq Nat /\ address_limit \in Nat

VARIABLES
    list,           \* the blocks and the ends of the two lists
    search_policy,
    lowest,         \* lowest_occupied_address_, -1 for none
    reply,          \* how the last call ended
    open,           \* the device is open
    buffers         \* the Buffers that hold memory

vars == <<list, search_policy, lowest, reply, open, buffers>>

MaxBlocks == max_size_bytes \div alignment

Block(a, n, pb, nb, pf, nf) ==
    [address |-> a, size |-> n, prev_block |-> pb, next_block |-> nb, prev_free |-> pf, next_free |-> nf]

\* FreeList::init
EmptyList ==
    [b |-> (1 :> Block(0, max_size_bytes, Nil, Nil, Nil, Nil)), block_head |-> 1, free_head |-> 1, free_tail |-> 1]

Init ==
    /\ list = EmptyList
    /\ search_policy \in {"first", "best"}
    /\ lowest = -1 /\ reply = "none" /\ open = TRUE /\ buffers = {}

-----------------------------------------------------------------------------
(* Links *)

\* if (x != nullptr) x->link = y
SetLink(f, x, link, y) == IF x = Nil THEN f ELSE [f EXCEPT !.b[x][link] = y]

\* make_local_shared<Block>; a block that nothing refers to is gone.
Fresh(f) == CHOOSE x \in 1 .. MaxBlocks : x \notin DOMAIN f.b
New(f, x, block) == [f EXCEPT !.b = (x :> block) @@ f.b]
Gone(f, x) == [f EXCEPT !.b = [y \in DOMAIN f.b \ {x} |-> f.b[y]]]

\* The blocks a loop meets that starts at x and follows link, and the first one it would stop at.
Chain(f, x, link) ==
    LET at[n \in 1 .. MaxBlocks] == IF n = 1 THEN x ELSE IF at[n - 1] = Nil THEN Nil ELSE f.b[at[n - 1]][link]
    IN  SelectSeq([n \in 1 .. MaxBlocks |-> at[n]], LAMBDA y : y # Nil)

First(s, Test(_)) == LET t == SelectSeq(s, Test) IN IF t = <<>> THEN Nil ELSE t[1]

is_allocated(f, x) ==
    f.b[x].prev_free = Nil /\ f.b[x].next_free = Nil /\ x # f.free_head /\ x # f.free_tail

-----------------------------------------------------------------------------
(* Allocation *)

FreeChain(f, bottom_up) ==
    IF bottom_up THEN Chain(f, f.free_head, "next_free") ELSE Chain(f, f.free_tail, "prev_free")

search_first(f, n, bottom_up) == First(FreeChain(f, bottom_up), LAMBDA x : f.b[x].size >= n)

\* The first one among the smallest that are large enough.
search_best(f, n, bottom_up) ==
    LET fits == {x \in ToSet(FreeChain(f, bottom_up)) : f.b[x].size >= n}
    IN  First(FreeChain(f, bottom_up), LAMBDA x : x \in fits /\ \A y \in fits : f.b[x].size <= f.b[y].size)

search(f, n, bottom_up) ==
    IF search_policy = "best" THEN search_best(f, n, bottom_up) ELSE search_first(f, n, bottom_up)

allocate_entire_free_block(f, x) ==
    LET r == f.b[x]
        g == SetLink(SetLink(f, r.prev_free, "next_free", r.next_free), r.next_free, "prev_free", r.prev_free)
    IN  [g EXCEPT !.free_head = IF x = @ THEN r.next_free ELSE @,
                  !.free_tail = IF x = @ THEN r.prev_free ELSE @,
                  !.b[x] = [@ EXCEPT !.prev_free = Nil, !.next_free = Nil]]

\* The block x keeps what is behind the first n bytes.
update_left_aligned(f, x, n) ==
    LET r == f.b[x]
        a == Fresh(f)
        g == SetLink(New(f, a, Block(r.address, n, r.prev_block, x, Nil, Nil)), r.prev_block, "next_block", a)
    IN  [g EXCEPT !.block_head = IF x = @ THEN a ELSE @,
                  !.b[x] = [@ EXCEPT !.prev_block = a, !.address = r.address + n, !.size = r.size - n]]

\* The block x keeps what is in front of the last n bytes.
update_right_aligned(f, x, n) ==
    LET r == f.b[x]
        a == Fresh(f)
        g == SetLink(New(f, a, Block(r.address + r.size - n, n, x, r.next_block, Nil, Nil)), r.next_block, "prev_block", a)
    IN  [g EXCEPT !.b[x] = [@ EXCEPT !.next_block = a, !.size = r.size - n]]

\* The block x keeps what is in front, a new free block what is behind.
split_middle(f, x, off, n) ==
    LET r == f.b[x]
        a == Fresh(f)
        g1 == New(f, a, Block(r.address + off, n, x, Nil, Nil, Nil))
        q == Fresh(g1)
        g2 == New(g1, q, Block(r.address + off + n, r.size - off - n, a, r.next_block, x, r.next_free))
        g3 == SetLink(SetLink(g2, r.next_block, "prev_block", q), r.next_free, "prev_free", q)
    IN  [g3 EXCEPT !.free_tail = IF x = @ THEN q ELSE @,
                   !.b[a].next_block = q,
                   !.b[x] = [@ EXCEPT !.next_block = a, !.next_free = q, !.size = off]]

allocate_slice_of_free_block(f, x, off, n) ==
    CASE off = 0 /\ n = f.b[x].size       -> allocate_entire_free_block(f, x)
      [] off = 0 /\ n < f.b[x].size       -> update_left_aligned(f, x, n)
      [] off > 0 /\ off + n = f.b[x].size -> update_right_aligned(f, x, n)
      [] off > 0 /\ off + n < f.b[x].size -> split_middle(f, x, off, n)

align(n) == ((n + alignment - 1) \div alignment) * alignment
alloc_size(n) == align(IF n < alignment THEN alignment ELSE n)

update_lowest(a) == IF lowest = -1 \/ a < lowest THEN a ELSE lowest

\* FreeList::allocate.  The limit is looked at when the slice has been taken: a refused allocation is not undone.
allocate(n, bottom_up, limit) ==
    LET size == alloc_size(n)
        x == search(list, size, bottom_up)
        off == IF bottom_up THEN 0 ELSE list.b[x].size - size
        a == list.b[x].address + off
        fine == a + offset_bytes >= limit
    IN  /\ open
        /\ UNCHANGED <<search_policy, open>>
        /\ IF x = Nil
           THEN reply' = "nullopt" /\ UNCHANGED <<list, lowest, buffers>>
           ELSE /\ list' = allocate_slice_of_free_block(list, x, off, size)
                /\ lowest' = update_lowest(a)
                /\ reply' = IF fine THEN "address" ELSE "throw"
                /\ buffers' = IF fine THEN buffers \cup {a + offset_bytes} ELSE buffers

SizeBytesPerBank(pages, banks) == (IF pages = 1 THEN 1 ELSE 1 + ((pages - 1) \div banks)) * align(page_size)

\* BankManager::allocate_buffer for an L1 buffer; only interleaved ones have a limit.
allocate_buffer(pages, bottom_up, is_sharded) ==
    allocate(SizeBytesPerBank(pages, IF is_sharded THEN num_shards ELSE num_banks), bottom_up,
             IF is_sharded THEN 0 ELSE address_limit)

allocate_at_address(absolute, n) ==
    LET size == alloc_size(n)
        start == absolute - offset_bytes
        Holds(x) == LET r == list.b[x] IN
                      /\ r.size >= size
                      /\ r.address = start \/ (start > r.address /\ start + size <= r.address + r.size)
        x == First(FreeChain(list, TRUE), Holds)
    IN  /\ open
        /\ UNCHANGED <<search_policy, open>>
        /\ IF x = Nil
           THEN reply' = "nullopt" /\ UNCHANGED <<list, lowest, buffers>>
           ELSE /\ list' = allocate_slice_of_free_block(list, x, start - list.b[x].address, size)
                /\ lowest' = update_lowest(start)
                /\ reply' = "address"
                /\ buffers' = buffers \cup {absolute}

-----------------------------------------------------------------------------
(* Deallocation *)

merge_prev(f, x) ==
    LET r == f.b[x]
        g == SetLink(SetLink(f, r.prev_block, "next_block", r.next_block), r.next_block, "prev_block", r.prev_block)
    IN  Gone([g EXCEPT !.b[r.prev_block].size = @ + r.size], x)

\* Mutant: a block that has swallowed its free successor does not take its place in the list.
merge_nextNoPrev(f, x, q, merged_prev) ==
    LET r == f.b[q]
        g1 == SetLink(SetLink(f, x, "next_block", r.next_block), r.next_block, "prev_block", x)
        g2 == [g1 EXCEPT !.free_head = IF q = @ THEN x ELSE @, !.free_tail = IF q = @ THEN x ELSE @]
        g3 == SetLink(SetLink(g2, x, "next_free", r.next_free), r.next_free, "prev_free", x)
    IN  Gone([g3 EXCEPT !.b[x].size = @ + r.size], q)

\* The block x swallows the free block q behind it; it is in the free list already if merged_prev.
merge_next(f, x, q, merged_prev) ==
    LET r == f.b[q]
        g1 == SetLink(SetLink(f, x, "next_block", r.next_block), r.next_block, "prev_block", x)
        g2 == [g1 EXCEPT !.free_head = IF q = @ THEN x ELSE @, !.free_tail = IF q = @ THEN x ELSE @]
        g3 == SetLink(SetLink(g2, x, "next_free", r.next_free), r.next_free, "prev_free", x)
        g4 == IF merged_prev THEN g3 ELSE SetLink(SetLink(g3, x, "prev_free", r.prev_free), r.prev_free, "next_free", x)
    IN  Gone([g4 EXCEPT !.b[x].size = @ + r.size], q)

\* Neither neighbour is free: the nearest free blocks on both sides are looked for.
insert_free(f, x) ==
    LET p == First(Chain(f, f.b[x].prev_block, "prev_block"), LAMBDA y : ~is_allocated(f, y))
        q == First(Chain(f, f.b[x].next_block, "next_block"), LAMBDA y : ~is_allocated(f, y))
        g == SetLink(SetLink(f, p, "next_free", x), q, "prev_free", x)
    IN  [g EXCEPT !.free_head = IF p = Nil THEN x ELSE @,
                  !.free_tail = IF q = Nil THEN x ELSE @,
                  !.b[x] = [@ EXCEPT !.prev_free = p, !.next_free = q]]

free_block(f, x) ==
    LET p == f.b[x].prev_block
        q == f.b[x].next_block
        merged_prev == p # Nil /\ ~is_allocated(f, p)
        merged_next == q # Nil /\ ~is_allocated(f, q)
        g == IF merged_prev THEN merge_prev(f, x) ELSE f
    IN  IF merged_next THEN merge_next(g, IF merged_prev THEN p ELSE x, q, merged_prev)
        ELSE IF merged_prev THEN g ELSE insert_free(f, x)

find_block(f, a) == First(Chain(f, f.block_head, "next_block"), LAMBDA x : f.b[x].address = a)

\* Mutant: the first block, allocated or not.
lowest_ofHead(f) == f.b[f.block_head].address

\* update_lowest_occupied_address: the first allocated block.
lowest_of(f) ==
    LET x == First(Chain(f, f.block_head, "next_block"), LAMBDA y : is_allocated(f, y))
    IN  IF x = Nil THEN -1 ELSE f.b[x].address

\* FreeList::deallocate; an address that no allocated block begins at is ignored.
deallocate(absolute) ==
    LET a == absolute - offset_bytes
        x == find_block(list, a)
    IN  IF x = Nil \/ ~is_allocated(list, x)
        THEN UNCHANGED <<list, lowest>>
        ELSE /\ list' = free_block(list, x)
             /\ lowest' = IF a = lowest THEN lowest_of(list') ELSE lowest

\* Buffer::deallocate, which marks the Buffer so that it is done once.
deallocate_buffer(absolute) ==
    /\ buffers' = buffers \ {absolute}
    /\ deallocate(absolute)
    /\ reply' = "none"
    /\ UNCHANGED <<search_policy, open>>

\* Device::close: the lists start anew while Buffers may still hold addresses.
clear ==
    /\ open
    /\ list' = EmptyList
    /\ open' = FALSE /\ reply' = "none"
    /\ UNCHANGED <<search_policy, lowest, buffers>>

-----------------------------------------------------------------------------
Addresses == {offset_bytes + k * alignment : k \in 0 .. MaxBlocks - 1}

Next ==
    \/ \E n \in Pages, bottom_up \in BOOLEAN, is_sharded \in BOOLEAN : allocate_buffer(n, bottom_up, is_sharded)
    \/ \E a \in Addresses, n \in Sizes : allocate_at_address(a, n)
    \/ \E a \in buffers : deallocate_buffer(a)
    \/ clear

Spec == Init /\ [][Next]_vars

-----------------------------------------------------------------------------
(* Properties *)

Blocks == DOMAIN list.b
FreeBlocks == {x \in Blocks : ~is_allocated(list, x)}

\* The links next and prev and the ends head and tail hold exactly the blocks of S, in the order of their
\* addresses, from both ends.
Linked(S, next, prev) ==
    \A x \in S :
      LET after == {y \in S : list.b[y].address > list.b[x].address}
          before == {y \in S : list.b[y].address < list.b[x].address}
          Nearest(T, y) == y \in T /\ \A z \in T : ~(list.b[z].address \in (list.b[x].address .. list.b[y].address)
                                                        \cup (list.b[y].address .. list.b[x].address)) \/ z = y
      IN  /\ IF after = {} THEN list.b[x][next] = Nil ELSE Nearest(after, list.b[x][next])
          /\ IF before = {} THEN list.b[x][prev] = Nil ELSE Nearest(before, list.b[x][prev])

\* Through splits and merges in any order the two lists stay what the loops take them for: the blocks cover the
\* bank without gap or overlap, both directions of both lists agree, the free list has exactly the free blocks and
\* its ends, and two neighbours are never both free.
ListsAgree ==
    /\ \A x \in Blocks : /\ \A l \in {"prev_block", "next_block", "prev_free", "next_free"} : list.b[x][l] \in Blocks \cup {Nil}
                         /\ list.b[x].size > 0
    /\ list.block_head \in Blocks /\ list.b[list.block_head].address = 0
    /\ \A x \in Blocks : LET end == list.b[x].address + list.b[x].size
                             q == list.b[x].next_block
                         IN  IF q = Nil THEN end = max_size_bytes
                             ELSE list.b[q].address = end /\ (x \in FreeBlocks => q \notin FreeBlocks)
    /\ Linked(Blocks, "next_block", "prev_block")
    /\ Linked(FreeBlocks, "next_free", "prev_free")
    /\ IF FreeBlocks = {} THEN list.free_head = Nil /\ list.free_tail = Nil
       ELSE /\ list.free_head \in FreeBlocks /\ list.b[list.free_head].prev_free = Nil
            /\ list.free_tail \in FreeBlocks /\ list.b[list.free_tail].next_free = Nil

\* The allocator without its lists.
Abstract == INSTANCE AddressSpace WITH
    Size <- max_size_bytes, Offset <- offset_bytes, Alignment <- alignment, Limit <- address_limit, policy <- search_policy,
    taken <- {[address |-> list.b[x].address + offset_bytes, size |-> list.b[x].size] : x \in Blocks \ FreeBlocks}

\* Allocations never overlap and are aligned, land where first fit or best fit puts them, fail only when there is no
\* room, a deallocation gives back exactly its range, and the cached lowest address is exact.
ImplementsAddressSpace == Abstract!Spec
=============================================================================
