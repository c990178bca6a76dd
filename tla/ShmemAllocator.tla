--------------------------- MODULE ShmemAllocator ---------------------------
(***************************************************************************)
(* The lock-free allocator of the connection pool's shared memory          *)
(* (utils/cuckoo_shmem_allocator.c).                                       *)
(*                                                                         *)
(* The memory is an array of pages.  A page has one bit per block of the   *)
(* smallest size; an allocation is an aligned run of 2^k blocks, of level  *)
(* LevelCount - 1 - k, and takes its bits with one compare-and-exchange on *)
(* the word of the page.  A hint per level says where to start to look.    *)
(* Memory is allocated and freed by the threads of the connection pool and *)
(* by the PostgreSQL backends that answer them: a reply is allocated by    *)
(* one process and freed by another.                                       *)
(*                                                                         *)
(* A word is the set of its bits.  An address is the number of the first   *)
(* block, over all pages.                                                  *)
(***************************************************************************)
EXTENDS Integers, FiniteSets

CONSTANTS
    Proc,        \* the threads and backends that use the memory
    PageCount,   \* allocator->pageCount
    LevelCount,  \* CUCKOO_SHMEM_ALLOCATOR_FREE_LIST_COUNT
    Width,       \* LevelBlockOccupyBitMap: the blocks an allocation of a level takes
    BlockSize,   \* CUCKOO_SHMEM_ALLOCATOR_MIN_BLOCK_SIZE
    HdrSize,     \* sizeof(MemoryHdr)
    Size,        \* the sizes that are asked for
    MaxHeld      \* bound: the allocations that live at a time

Page == 0 .. PageCount - 1
Level == 0 .. LevelCount - 1

ASSUME PageCountAssumption == PageCount \in Nat
ASSUME LevelCountAssumption == LevelCount \in Nat \ {0}
ASSUME WidthAssumption == Width \in [Level -> Nat \ {0}]
ASSUME WidthHalves ==
    \A l \in Level : Width[l] = IF l = LevelCount - 1 THEN 1 ELSE 2 * Width[l + 1]

BitCount == Width[0]
Bit == 0 .. BitCount - 1
PageSize == BitCount * BlockSize

(* LevelBlockOccupyBitMap[level] << bit.                                     *)
Occupied(level, bit) == bit .. bit + Width[level] - 1
(* LevelBlockMask: where the blocks of a level start.                        *)
LevelBlockMask(level) == {b \in Bit : b % Width[level] = 0}

(* The bitmap of a level: the blocks of that level that have a used bit.     *)
(* The code folds the word onto itself; Folded, below, is that computation.  *)
LevelBitmap(bits, level) ==
    {b \in LevelBlockMask(level) : Occupied(level, b) \cap bits # {}}

(* A plausible slip: the shift is not doubled.                               *)
FoldedByOne(bits, level) ==
    LET Fold[j \in Level] ==
            IF j = LevelCount - 1 THEN bits
            ELSE LET finer == Fold[j + 1]
                 IN  ({b - 1 : b \in {c \in finer : c >= 1}} \cup finer)
                         \cap LevelBlockMask(j)
    IN  Fold[level]

(* bitmap = ((bitmap >> shift) | bitmap) & LevelBlockMask[j - 1], from the   *)
(* finest level down to the level asked for, shift doubling.                 *)
Folded(bits, level) ==
    LET Fold[j \in Level] ==
            IF j = LevelCount - 1 THEN bits
            ELSE LET finer == Fold[j + 1]
                     shift == Width[j + 1]
                 IN  ({b - shift : b \in {c \in finer : c >= shift}} \cup finer)
                         \cap LevelBlockMask(j)
    IN  Fold[level]

(* The block a request gets: the header is part of it, the size is rounded   *)
(* up to a power of two of blocks.  requiredSize is capped below by the      *)
(* smallest block; larger requests are refused.                              *)
TooLarge(size) == size > PageSize - HdrSize
Holds(level, size) == size + HdrSize <= Width[level] * BlockSize
IsLevelOf(size, level) ==
    /\ Holds(level, size)
    /\ \A l \in Level : Holds(l, size) => l <= level

Block == [page : Page, bit : Bit, level : Level]
Bits(block) == Occupied(block.level, block.bit)

VARIABLES
    bitmap,   \* pageCntlArray
    hint,     \* freeListHint
    hdr,      \* the level of the capacity in the header of a block
    held,     \* the blocks that callers have been given and have not freed
    call      \* where a process is in Malloc or Free, and its locals

vars == <<bitmap, hint, hdr, held, call>>

None == -1

(* The locals of a call: the level, the scan, where it started, the page,    *)
(* the word last seen, pageIsFull and the hint last seen.  calm is not in    *)
(* the code: no bit has been cleared since the call started.                 *)
Idle == [pc |-> "idle", level |-> 0, scan |-> 0, start |-> 0, page |-> 0,
         bits |-> {}, bit |-> 0, full |-> FALSE, freeHint |-> 0, calm |-> TRUE]

Init ==
    /\ bitmap = [p \in Page |-> {}]
    /\ hint = [l \in Level |-> 0]
    /\ hdr = [p \in Page |-> [b \in Bit |-> None]]
    /\ held = {}
    /\ call = [p \in Proc |-> Idle]

At(p, pc) == call[p].pc = pc

-----------------------------------------------------------------------------
(* CuckooShmemAllocatorMalloc                                                *)

(* A size that no page can hold is refused.  The first scan starts at the    *)
(* hint of the level.                                                        *)
MallocTooLarge(p, size) ==
    /\ At(p, "idle") /\ TooLarge(size)
    /\ call' = [call EXCEPT ![p] = [Idle EXCEPT !.pc = "refused"]]
    /\ UNCHANGED <<bitmap, hint, hdr, held>>

Malloc(p, size) ==
    /\ At(p, "idle") /\ ~TooLarge(size)
    /\ \E level \in Level :
       /\ IsLevelOf(size, level)
       /\ call' = [call EXCEPT ![p] =
                      [Idle EXCEPT !.pc = "load", !.level = level, !.start = hint[level],
                                   !.page = hint[level]]]
    /\ UNCHANGED <<bitmap, hint, hdr, held>>

(* The word of a page is read ...                                            *)
LoadPage(p) ==
    /\ At(p, "load") /\ call[p].page < PageCount
    /\ call' = [call EXCEPT ![p].pc = "cas", ![p].full = FALSE,
                            ![p].bits = bitmap[call[p].page]]
    /\ UNCHANGED <<bitmap, hint, hdr, held>>

(* A plausible slip: the second scan starts where the first one did.         *)
SecondScanFromHint(p) ==
    /\ At(p, "load") /\ call[p].page >= PageCount /\ call[p].scan = 0
    /\ call' = [call EXCEPT ![p].scan = 1, ![p].page = call[p].start]
    /\ UNCHANGED <<bitmap, hint, hdr, held>>

(* ... after the last page the second scan starts from the first ...         *)
SecondScan(p) ==
    /\ At(p, "load") /\ call[p].page >= PageCount /\ call[p].scan = 0
    /\ call' = [call EXCEPT ![p].scan = 1, ![p].start = 0, ![p].page = 0]
    /\ UNCHANGED <<bitmap, hint, hdr, held>>

(* ... and after that there is no segment.                                   *)
CannotFind(p) ==
    /\ At(p, "load") /\ call[p].page >= PageCount /\ call[p].scan = 1
    /\ call' = [call EXCEPT ![p].pc = "failed"]
    /\ UNCHANGED <<bitmap, hint, hdr, held>>

(* The blocks of the level that are free in the word last seen: at level 0   *)
(* the whole page, if no bit of it is used.                                  *)
FreeBlocks(p) == LevelBlockMask(call[p].level) \ LevelBitmap(call[p].bits, call[p].level)

(* All of the blocks in this level are used: the next page.                  *)
NextPage(p) ==
    /\ At(p, "cas") /\ FreeBlocks(p) = {}
    /\ call' = [call EXCEPT ![p].pc = "load", ![p].page = @ + 1, ![p].bits = {}]
    /\ UNCHANGED <<bitmap, hint, hdr, held>>

(* __builtin_ctzll: the first of them.                                       *)
IsFirstFree(p, bit) == \A c \in FreeBlocks(p) : bit <= c

(* pageIsFull: the end of the block, in bytes from the start of the memory,  *)
(* is compared with the size of a page, so that it is never set on another   *)
(* page than the first; it stays set when the exchange is tried again.       *)
PageIsFull(p, bit) ==
    \/ call[p].full
    \/ /\ call[p].level # 0
       /\ call[p].page * PageSize + (bit + Width[call[p].level]) * BlockSize = PageSize

(* A plausible slip: the bits are set without a look at the word.            *)
CasBlind(p) ==
    /\ At(p, "cas")
    /\ \E bit \in FreeBlocks(p) :
       /\ IsFirstFree(p, bit)
       /\ bitmap' = [bitmap EXCEPT ![call[p].page] = @ \cup Occupied(call[p].level, bit)]
       /\ call' = [call EXCEPT ![p].pc = "hint", ![p].bits = {}, ![p].bit = bit,
                               ![p].full = PageIsFull(p, bit)]
    /\ UNCHANGED <<hint, hdr, held>>

(* The exchange: it sets the bits if the word is the one last seen ...       *)
CasSucceeds(p) ==
    /\ At(p, "cas")
    /\ bitmap[call[p].page] = call[p].bits
    /\ \E bit \in FreeBlocks(p) :
       /\ IsFirstFree(p, bit)
       /\ bitmap' = [bitmap EXCEPT ![call[p].page] = @ \cup Occupied(call[p].level, bit)]
       /\ call' = [call EXCEPT ![p].pc = "hint", ![p].bits = {}, ![p].bit = bit,
                               ![p].full = PageIsFull(p, bit)]
    /\ UNCHANGED <<hint, hdr, held>>

(* ... and else returns the word it found.                                   *)
CasFails(p) ==
    /\ At(p, "cas")
    /\ bitmap[call[p].page] # call[p].bits
    /\ \E bit \in FreeBlocks(p) :
       /\ IsFirstFree(p, bit)
       /\ call' = [call EXCEPT ![p].bits = bitmap[call[p].page], ![p].full = PageIsFull(p, bit)]
    /\ UNCHANGED <<bitmap, hint, hdr, held>>

(* Renew freeListHint.  In the first scan it is moved forward, unless it has *)
(* changed since; in the second it is lowered, as in Free.                   *)
RenewHint(p) ==
    LET c == call[p]
        ahead == IF c.full THEN c.page + 1 ELSE c.page
        moves == (c.full \/ c.page # c.start) /\ hint[c.level] = c.start
    IN  /\ At(p, "hint") /\ c.scan = 0
        /\ hint' = IF moves THEN [hint EXCEPT ![c.level] = ahead] ELSE hint
        /\ call' = [call EXCEPT ![p].pc = "header", ![p].start = 0]
        /\ UNCHANGED <<bitmap, hdr, held>>

RenewHintInSecondScan(p) ==
    /\ At(p, "hint") /\ call[p].scan = 1
    /\ call' = [call EXCEPT ![p].pc = IF call[p].full THEN "header" ELSE "lower_malloc",
                            ![p].freeHint = hint[call[p].level]]
    /\ UNCHANGED <<bitmap, hint, hdr, held>>

(* The header is written and the caller gets the block.                      *)
Owned(p) == [page |-> call[p].page, bit |-> call[p].bit, level |-> call[p].level]

WriteHeader(p) ==
    /\ At(p, "header")
    /\ hdr' = [hdr EXCEPT ![call[p].page][call[p].bit] = call[p].level]
    /\ held' = held \cup {Owned(p)}
    /\ call' = [call EXCEPT ![p] = Idle]
    /\ UNCHANGED <<bitmap, hint>>

(* 0 is returned.                                                            *)
ReturnNull(p) ==
    /\ call[p].pc \in {"refused", "failed"}
    /\ call' = [call EXCEPT ![p] = Idle]
    /\ UNCHANGED <<bitmap, hint, hdr, held>>

-----------------------------------------------------------------------------
(* CuckooShmemAllocatorFree                                                  *)

(* A plausible slip: the level is the one of the smallest block.             *)
FreeSmallest(p, block) ==
    /\ At(p, "idle") /\ block \in held
    /\ held' = held \ {block}
    /\ call' = [call EXCEPT ![p] =
                   [Idle EXCEPT !.pc = "clear", !.page = block.page, !.bit = block.bit,
                                !.level = LevelCount - 1]]
    /\ hdr' = [hdr EXCEPT ![block.page][block.bit] = None]
    /\ UNCHANGED <<bitmap, hint>>

(* The level is the one of the capacity in the header.  A capacity that is   *)
(* no power of two of blocks makes Free return and do nothing; Malloc writes *)
(* no such capacity.  The header of memory that nobody owns has no value.    *)
Free(p, block) ==
    /\ At(p, "idle") /\ block \in held
    /\ held' = held \ {block}
    /\ call' = [call EXCEPT ![p] =
                   [Idle EXCEPT !.pc = "clear", !.page = block.page, !.bit = block.bit,
                                !.level = hdr[block.page][block.bit]]]
    /\ hdr' = [hdr EXCEPT ![block.page][block.bit] = None]
    /\ UNCHANGED <<bitmap, hint>>

(* The bits are cleared by one fetch-and.                                    *)
ClearBits(p) ==
    /\ At(p, "clear")
    /\ bitmap' = [bitmap EXCEPT ![call[p].page] = @ \ Occupied(call[p].level, call[p].bit)]
    /\ call' = [q \in Proc |->
                   IF q = p THEN [call[p] EXCEPT !.pc = "freed"]
                   ELSE [call[q] EXCEPT !.calm = call[q].pc = "idle"]]
    /\ UNCHANGED <<hint, hdr, held>>

(* Then the hint is read ...                                                 *)
LoadFreeHint(p) ==
    /\ At(p, "freed")
    /\ call' = [call EXCEPT ![p].pc = "lower_free", ![p].freeHint = hint[call[p].level]]
    /\ UNCHANGED <<bitmap, hint, hdr, held>>

(* ... and lowered to the page by a compare-and-exchange loop.               *)
LowerHint(p) ==
    LET c == call[p]
        lowered == c.freeHint <= c.page \/ hint[c.level] = c.freeHint
    IN  /\ c.pc \in {"lower_malloc", "lower_free"}
        /\ hint' = IF c.freeHint > c.page /\ lowered THEN [hint EXCEPT ![c.level] = c.page] ELSE hint
        /\ call' = [call EXCEPT ![p] =
                       IF ~lowered THEN [c EXCEPT !.freeHint = hint[c.level]]
                       ELSE IF c.pc = "lower_free" THEN Idle
                       ELSE [c EXCEPT !.pc = "header", !.freeHint = 0]]
        /\ UNCHANGED <<bitmap, hdr, held>>

-----------------------------------------------------------------------------
(* The allocations with their owners: a caller that has been given a block,  *)
(* or a process that has it on its way from the bitmap to a caller or back.  *)
(* A block that is handed out twice is two of them.                          *)
Takes(p) == call[p].pc \in {"hint", "lower_malloc", "header", "clear"}
Live == {[owner |-> "caller", block |-> b] : b \in held}
        \cup {[owner |-> p, block |-> Owned(p)] : p \in {q \in Proc : Takes(q)}}

Step(p) ==
    \/ \E size \in Size : Cardinality(Live) < MaxHeld /\ (Malloc(p, size) \/ MallocTooLarge(p, size))
    \/ LoadPage(p) \/ SecondScan(p) \/ CannotFind(p) \/ NextPage(p)
    \/ CasSucceeds(p) \/ CasFails(p)
    \/ RenewHint(p) \/ RenewHintInSecondScan(p) \/ WriteHeader(p) \/ ReturnNull(p)
    \/ \E block \in held : Free(p, block)
    \/ ClearBits(p) \/ LoadFreeHint(p) \/ LowerHint(p)

Next == \E p \in Proc : Step(p)

Spec == Init /\ [][Next]_vars

-----------------------------------------------------------------------------

(* Two allocations that live at the same time, of different owners or of one *)
(* process, share no memory (and so are not the same block), whatever the    *)
(* interleaving of the exchanges of Malloc with the fetch-and of Free: the   *)
(* requests and the replies of different connections do not overwrite each   *)
(* other.                                                                    *)
BlocksDisjoint ==
    \A a, b \in Live : a # b /\ a.block.page = b.block.page =>
        Bits(a.block) \cap Bits(b.block) = {}

(* A bit is set exactly as long as it belongs to a live allocation: no       *)
(* memory is lost when allocations and frees of different sizes cross.       *)
BitmapExact ==
    \A page \in Page : bitmap[page] = UNION {Bits(a.block) : a \in {c \in Live : c.block.page = page}}

(* A caller that no Free has crossed is refused only when no page has room:  *)
(* the hints, which may be stale or beyond the last page, only cost time.    *)
RefusedOnlyWhenFull ==
    \A p \in Proc : call[p].pc = "failed" /\ call[p].calm =>
        \A page \in Page : LevelBitmap(bitmap[page], call[p].level) = LevelBlockMask(call[p].level)

(* The folding of the word computes the bitmap of the level.                 *)
FoldingCorrect ==
    \A p \in Proc : call[p].pc = "cas" =>
        Folded(call[p].bits, call[p].level) = LevelBitmap(call[p].bits, call[p].level)
=============================================================================
