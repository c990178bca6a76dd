------------------------ MODULE ShmemAllocatorProofs ------------------------
(***************************************************************************)
(* The allocator hands out disjoint memory and loses none, for every       *)
(* number of processes, pages and levels.                                  *)
(*                                                                         *)
(* The invariant speaks of owners: a block is owned by the caller that     *)
(* holds it or by the process that is between the exchange and the return  *)
(* of Malloc, or between the call and the fetch-and of Free.  Disjointness *)
(* alone is not inductive: an exchange takes the blocks that are clear in  *)
(* the word, so every owned bit must be set (Covered); a free clears the   *)
(* bits the header names, so the header of a held block must be the one    *)
(* its owner wrote (HeadersKept).  That no bit is set without an owner     *)
(* (Accounted) needs disjointness in turn: the fetch-and of one owner      *)
(* clears no bit of another.                                               *)
(*                                                                         *)
(* Two more results rest on it: what a scan knows when it gives up         *)
(* (ScanInv), and that the folding of a word, by induction over the levels,*)
(* gives the bitmap of the level (FoldedIsLevelBitmap).                    *)
(***************************************************************************)
EXTENDS ShmemAllocator, WellFoundedInduction, TLAPS

Pc == {"idle", "refused", "load", "cas", "hint", "header", "lower_malloc", "failed", "clear",
       "freed", "lower_free"}
Call == [pc : Pc, level : Level, scan : {0, 1}, start : Nat, page : Nat, bits : SUBSET Nat,
         bit : Bit, full : BOOLEAN, freeHint : Nat, calm : BOOLEAN]

(* The types the proof needs.  That a block ends within its page rests on    *)
(* the divisibility of the widths: BlockInPage, below.                       *)
Types ==
    /\ bitmap \in [Page -> SUBSET Nat]
    /\ hint \in [Level -> Nat]
    /\ hdr \in [Page -> [Bit -> Level \cup {None}]]
    /\ held \subseteq Block
    /\ call \in [Proc -> Call]

PagesExist == \A p \in Proc : (Takes(p) \/ call[p].pc = "cas") => call[p].page \in Page
HeadersKept == \A a \in held : hdr[a.page][a.bit] = a.level
HeldDisjoint == \A a, b \in held : a # b /\ a.page = b.page => Bits(a) \cap Bits(b) = {}
HeldTakenDisjoint ==
    \A a \in held : \A p \in Proc :
        Takes(p) /\ a.page = call[p].page => Bits(a) \cap Bits(Owned(p)) = {}
TakenDisjoint ==
    \A p, q \in Proc :
        p # q /\ Takes(p) /\ Takes(q) /\ call[p].page = call[q].page =>
            Bits(Owned(p)) \cap Bits(Owned(q)) = {}
Covered ==
    /\ \A a \in held : Bits(a) \subseteq bitmap[a.page]
    /\ \A p \in Proc : Takes(p) => Bits(Owned(p)) \subseteq bitmap[call[p].page]
Accounted ==
    \A page \in Page : \A x \in bitmap[page] :
        \/ \E a \in held : a.page = page /\ x \in Bits(a)
        \/ \E p \in Proc : Takes(p) /\ call[p].page = page /\ x \in Bits(Owned(p))

IInv ==
    /\ Types /\ PagesExist /\ HeadersKept
    /\ HeldDisjoint /\ HeldTakenDisjoint /\ TakenDisjoint
    /\ Covered /\ Accounted

(* A block has a first bit, and its bits are block numbers.                  *)
LEMMA BlocksNonempty ==
    ASSUME NEW l \in Level, NEW b \in Bit
    PROVE  b \in Occupied(l, b) /\ Occupied(l, b) \subseteq Nat
  <1>1. Width[l] \in Nat /\ Width[l] > 0
    BY WidthAssumption, SMTT(60)
  <1>2. b \in Nat
    BY SMTT(60) DEF Bit
  <1> QED
    BY <1>1, <1>2, SMTT(60) DEF Occupied

(* A block that is free in the bitmap of its level has no bit in the word.   *)
LEMMA FreeIsClear ==
    ASSUME NEW p \in Proc, call \in [Proc -> Call], NEW b \in FreeBlocks(p)
    PROVE  b \in Bit /\ Occupied(call[p].level, b) \cap call[p].bits = {}
  BY ZenonT(60) DEF FreeBlocks, LevelBitmap, LevelBlockMask

(* A step that leaves the memory and every owner alone leaves the ownership  *)
(* part of the invariant alone.                                              *)
LEMMA Quiet ==
    ASSUME IInv,
           UNCHANGED <<bitmap, hdr, held>>,
           \A q \in Proc : Takes(q)' = Takes(q),
           \A q \in Proc : Takes(q) => Owned(q)' = Owned(q)
    PROVE  (HeadersKept /\ HeldDisjoint /\ HeldTakenDisjoint /\ TakenDisjoint /\ Covered /\ Accounted)'
  <1>1. ASSUME NEW q \in Proc, Takes(q) PROVE call'[q].page = call[q].page
    <2>1. Owned(q).page = call[q].page /\ Owned(q)'.page = call'[q].page
      BY ZenonT(60) DEF Owned
    <2> QED
      BY <1>1, <2>1, ZenonT(60)
  <1>2. HeadersKept' /\ HeldDisjoint'
    BY ZenonT(60) DEF IInv, HeadersKept, HeldDisjoint, Bits
  <1>3. HeldTakenDisjoint'
    BY <1>1, ZenonT(60) DEF IInv, HeldTakenDisjoint, Bits
  <1>4. TakenDisjoint'
    BY <1>1, ZenonT(60) DEF IInv, TakenDisjoint, Bits
  <1>5. Covered'
    BY <1>1, ZenonT(60) DEF IInv, Covered, Bits
  <1>6. Accounted'
    BY <1>1, SMTT(60) DEF IInv, Accounted, Bits
  <1> QED
    BY <1>2, <1>3, <1>4, <1>5, <1>6, ZenonT(60)

LEMMA InitEstablishes == Init => IInv
  <1> SUFFICES ASSUME Init PROVE IInv
    BY ZenonT(60)
  <1>1. Idle \in Call /\ Idle.pc = "idle"
    BY LevelCountAssumption, WidthAssumption, SMTT(60) DEF Idle, Call, Pc, Level, Bit, BitCount
  <1>2. Types
    BY <1>1, ZenonT(60) DEF Init, Types, Block, None
  <1>3. \A p \in Proc : ~Takes(p) /\ call[p].pc # "cas"
    BY <1>1, ZenonT(60) DEF Init, Takes
  <1> QED
    BY <1>2, <1>3, ZenonT(60) DEF Init, IInv, PagesExist, HeadersKept, HeldDisjoint, HeldTakenDisjoint,
       TakenDisjoint, Covered, Accounted

(* The exchange of Malloc: the block is clear in the word, so it is disjoint *)
(* from every owned block.                                                   *)
LEMMA CasKeeps ==
    ASSUME IInv, NEW p \in Proc, CasSucceeds(p)
    PROVE  IInv'
  <1>1. PICK bit \in FreeBlocks(p) :
          /\ bitmap' = [bitmap EXCEPT ![call[p].page] = @ \cup Occupied(call[p].level, bit)]
          /\ call' = [call EXCEPT ![p].pc = "hint", ![p].bits = {}, ![p].bit = bit,
                                  ![p].full = PageIsFull(p, bit)]
    BY ZenonT(60) DEF CasSucceeds
  <1>2. /\ call[p] \in Call /\ call[p].pc = "cas" /\ call[p].page \in Page
        /\ bitmap[call[p].page] = call[p].bits
        /\ UNCHANGED <<hint, hdr, held>>
    BY ZenonT(60) DEF CasSucceeds, At, IInv, Types, PagesExist
  <1>3. bit \in Bit /\ Occupied(call[p].level, bit) \cap call[p].bits = {}
    BY <1>1, FreeIsClear, ZenonT(60) DEF IInv, Types
  <1>4. PageIsFull(p, bit) \in BOOLEAN
    BY <1>2, ZenonT(60) DEF PageIsFull, Call
  <1>5. Occupied(call[p].level, bit) \subseteq Nat
    BY <1>2, <1>3, BlocksNonempty, ZenonT(60) DEF Call
  <1>6. Types'
    <2>1. bitmap' \in [Page -> SUBSET Nat]
      BY <1>1, <1>2, <1>5, ZenonT(60) DEF IInv, Types
    <2> DEFINE after == [call[p] EXCEPT !.pc = "hint", !.bits = {}, !.bit = bit,
                                        !.full = PageIsFull(p, bit)]
    <2>2. after \in Call
      BY <1>2, <1>3, <1>4, ZenonT(60) DEF Call, Pc
    <2>3. call' = [call EXCEPT ![p] = after]
      BY <1>1, ZenonT(60)
    <2>4. call' \in [Proc -> Call]
      BY <2>2, <2>3, ZenonT(60) DEF IInv, Types
    <2> QED
      BY <1>2, <2>1, <2>4, ZenonT(60) DEF IInv, Types
  <1>7. /\ ~Takes(p) /\ Takes(p)' /\ Owned(p)' = [page |-> call[p].page, bit |-> bit, level |-> call[p].level]
        /\ call'[p].page = call[p].page
    BY <1>1, <1>2, ZenonT(60) DEF IInv, Types, Takes, Owned, Call
  <1>8. \A q \in Proc : q # p => call'[q] = call[q] /\ Takes(q)' = Takes(q) /\ Owned(q)' = Owned(q)
    BY <1>1, ZenonT(60) DEF IInv, Types, Takes, Owned
  <1>9. Bits(Owned(p))' = Occupied(call[p].level, bit)
    BY <1>7, SMTT(60) DEF Bits
  <1>10. \A q \in Proc : q # p => Bits(Owned(q))' = Bits(Owned(q))
    BY <1>8, ZenonT(60) DEF Bits
  <1>11. PagesExist'
    BY <1>2, <1>7, <1>8, ZenonT(60) DEF IInv, PagesExist
  <1>12. HeadersKept' /\ HeldDisjoint'
    BY <1>2, ZenonT(60) DEF IInv, HeadersKept, HeldDisjoint, Bits
  <1>13. HeldTakenDisjoint'
    <2> SUFFICES ASSUME NEW a \in held, NEW q \in Proc, Takes(q)', a.page = call'[q].page
                 PROVE  Bits(a) \cap Bits(Owned(q))' = {}
      BY <1>2, ZenonT(60) DEF HeldTakenDisjoint, Bits
    <2>1. CASE q = p
      <3>1. Bits(a) \subseteq call[p].bits
        BY <1>2, <1>7, <2>1, ZenonT(60) DEF IInv, Covered
      <3> QED
        BY <1>3, <1>9, <2>1, <3>1, ZenonT(60)
    <2>2. CASE q # p
      BY <1>8, <1>10, <2>2, ZenonT(60) DEF IInv, HeldTakenDisjoint
    <2> QED
      BY <2>1, <2>2, ZenonT(60)
  <1>14. ASSUME NEW q \in Proc, q # p, Takes(q), call[q].page = call[p].page
         PROVE  Bits(Owned(q)) \cap Occupied(call[p].level, bit) = {}
    <2>1. Bits(Owned(q)) \subseteq call[p].bits
      BY <1>2, <1>14, ZenonT(60) DEF IInv, Covered
    <2> QED
      BY <1>3, <2>1, ZenonT(60)
  <1>15. TakenDisjoint'
    <2> SUFFICES ASSUME NEW q \in Proc, NEW r \in Proc, q # r, Takes(q)', Takes(r)',
                        call'[q].page = call'[r].page
                 PROVE  Bits(Owned(q))' \cap Bits(Owned(r))' = {}
      BY ZenonT(60) DEF TakenDisjoint
    <2>1. CASE q = p
      BY <1>7, <1>8, <1>9, <1>10, <1>14, <2>1, ZenonT(60)
    <2>2. CASE r = p
      BY <1>7, <1>8, <1>9, <1>10, <1>14, <2>2, ZenonT(60)
    <2>3. CASE q # p /\ r # p
      BY <1>8, <1>10, <2>3, ZenonT(60) DEF IInv, TakenDisjoint
    <2> QED
      BY <2>1, <2>2, <2>3, ZenonT(60)
  <1>16. Covered'
    <2>1. \A page \in Page : bitmap[page] \subseteq bitmap'[page]
      BY <1>1, ZenonT(60) DEF IInv, Types
    <2>2. Occupied(call[p].level, bit) \subseteq bitmap'[call[p].page]
      BY <1>1, <1>2, ZenonT(60) DEF IInv, Types
    <2>3. \A a \in held : Bits(a) \subseteq bitmap'[a.page]
      BY <2>1, ZenonT(60) DEF IInv, Types, Covered, Block
    <2>4. ASSUME NEW q \in Proc, Takes(q)' PROVE Bits(Owned(q))' \subseteq bitmap'[call'[q].page]
      <3>1. CASE q = p
        BY <1>7, <1>9, <2>2, <3>1, ZenonT(60)
      <3>2. CASE q # p
        BY <1>8, <1>10, <2>1, <2>4, <3>2, ZenonT(60) DEF IInv, Covered, PagesExist
      <3> QED
        BY <3>1, <3>2, ZenonT(60)
    <2> QED
      BY <1>2, <2>3, <2>4, ZenonT(60) DEF Covered, Bits
  <1>17. Accounted'
    <2> SUFFICES ASSUME NEW page \in Page, NEW x \in bitmap'[page]
                 PROVE  \/ \E a \in held : a.page = page /\ x \in Bits(a)
                        \/ \E q \in Proc : Takes(q)' /\ call'[q].page = page /\ x \in Bits(Owned(q))'
      BY <1>2, ZenonT(60) DEF Accounted, Bits
    <2>1. CASE x \in bitmap[page]
      <3>1. \/ \E a \in held : a.page = page /\ x \in Bits(a)
            \/ \E q \in Proc : Takes(q) /\ call[q].page = page /\ x \in Bits(Owned(q))
        BY <2>1, ZenonT(60) DEF IInv, Accounted
      <3> QED
        BY <1>7, <1>8, <1>10, <3>1, ZenonT(60)
    <2>2. CASE x \notin bitmap[page]
      <3>1. page = call[p].page /\ x \in Occupied(call[p].level, bit)
        BY <1>1, <1>2, <2>2, ZenonT(60) DEF IInv, Types
      <3> QED
        BY <1>7, <1>9, <3>1, ZenonT(60)
    <2> QED
      BY <2>1, <2>2, ZenonT(60)
  <1> QED
    BY <1>6, <1>11, <1>12, <1>13, <1>15, <1>16, <1>17, ZenonT(60) DEF IInv

(* The end of Malloc: the block passes from the process to its caller.       *)
LEMMA HeaderKeeps ==
    ASSUME IInv, NEW p \in Proc, WriteHeader(p)
    PROVE  IInv'
  <1> DEFINE block == Owned(p)
  <1>1. /\ call[p] \in Call /\ Takes(p) /\ call[p].page \in Page
        /\ held' = held \cup {block}
        /\ hdr' = [hdr EXCEPT ![call[p].page][call[p].bit] = call[p].level]
        /\ call' = [call EXCEPT ![p] = Idle]
        /\ UNCHANGED <<bitmap, hint>>
    BY ZenonT(60) DEF WriteHeader, At, IInv, Types, PagesExist, Takes
  <1>2. /\ block \in Block /\ block.page = call[p].page /\ block.bit = call[p].bit
        /\ block.level = call[p].level
    BY <1>1, ZenonT(60) DEF Owned, Block, Call
  <1>3. Idle \in Call /\ Idle.pc = "idle"
    BY LevelCountAssumption, WidthAssumption, SMTT(60) DEF Idle, Call, Pc, Level, Bit, BitCount
  <1>4. Types'
    <2>1. hdr' \in [Page -> [Bit -> Level \cup {None}]]
      BY <1>1, ZenonT(60) DEF IInv, Types, Call
    <2>2. call' \in [Proc -> Call]
      BY <1>1, <1>3, ZenonT(60) DEF IInv, Types
    <2> QED
      BY <1>1, <1>2, <2>1, <2>2, ZenonT(60) DEF IInv, Types
  <1>5. ~Takes(p)' /\ call'[p].pc # "cas"
    BY <1>1, <1>3, ZenonT(60) DEF IInv, Types, Takes
  <1>6. \A q \in Proc : q # p => call'[q] = call[q] /\ Takes(q)' = Takes(q) /\ Owned(q)' = Owned(q)
    BY <1>1, ZenonT(60) DEF IInv, Types, Takes, Owned
  <1>7. ASSUME NEW a \in held, a.page = block.page
        PROVE  a.bit # block.bit /\ Bits(a) \cap Bits(block) = {}
    <2>1. Bits(a) \cap Bits(block) = {}
      BY <1>1, <1>2, <1>7, ZenonT(60) DEF IInv, HeldTakenDisjoint
    <2>2. a.bit \in Bits(a) /\ block.bit \in Bits(block)
      BY <1>2, BlocksNonempty, ZenonT(60) DEF IInv, Types, Block, Bits
    <2> QED
      BY <2>1, <2>2, ZenonT(60)
  <1>8. PagesExist'
    BY <1>5, <1>6, ZenonT(60) DEF IInv, PagesExist
  <1>9. HeadersKept'
    <2> SUFFICES ASSUME NEW a \in held' PROVE hdr'[a.page][a.bit] = a.level
      BY ZenonT(60) DEF HeadersKept
    <2>1. CASE a = block
      BY <1>1, <1>2, <2>1, ZenonT(60) DEF IInv, Types, Call
    <2>2. CASE a # block
      <3>1. a \in held /\ a \in Block
        BY <1>1, <2>2, ZenonT(60) DEF IInv, Types
      <3>2. hdr'[a.page][a.bit] = hdr[a.page][a.bit]
        BY <1>1, <1>2, <1>7, <3>1, ZenonT(60) DEF IInv, Types, Call, Block
      <3> QED
        BY <3>1, <3>2, ZenonT(60) DEF IInv, HeadersKept
    <2> QED
      BY <2>1, <2>2, ZenonT(60)
  <1>10. HeldDisjoint'
    <2> SUFFICES ASSUME NEW a \in held', NEW b \in held', a # b, a.page = b.page
                 PROVE  Bits(a) \cap Bits(b) = {}
      BY ZenonT(60) DEF HeldDisjoint, Bits
    <2>1. CASE a = block
      BY <1>1, <1>7, <2>1, ZenonT(60)
    <2>2. CASE b = block
      BY <1>1, <1>7, <2>2, ZenonT(60)
    <2>3. CASE a # block /\ b # block
      BY <1>1, <2>3, ZenonT(60) DEF IInv, HeldDisjoint
    <2> QED
      BY <2>1, <2>2, <2>3, ZenonT(60)
  <1>11. HeldTakenDisjoint'
    <2> SUFFICES ASSUME NEW a \in held', NEW q \in Proc, Takes(q)', a.page = call'[q].page
                 PROVE  Bits(a) \cap Bits(Owned(q))' = {}
      BY ZenonT(60) DEF HeldTakenDisjoint, Bits
    <2>1. q # p /\ Takes(q) /\ call[q].page = a.page /\ Bits(Owned(q))' = Bits(Owned(q))
      BY <1>5, <1>6, ZenonT(60) DEF Bits
    <2>2. CASE a = block
      BY <1>1, <1>2, <2>1, <2>2, ZenonT(60) DEF IInv, TakenDisjoint
    <2>3. CASE a # block
      BY <1>1, <2>1, <2>3, ZenonT(60) DEF IInv, HeldTakenDisjoint
    <2> QED
      BY <2>2, <2>3, ZenonT(60)
  <1>12. TakenDisjoint'
    BY <1>5, <1>6, SMTT(60) DEF IInv, TakenDisjoint, Bits
  <1>13. Covered'
    <2>1. \A a \in held' : Bits(a) \subseteq bitmap[a.page]
      BY <1>1, <1>2, ZenonT(60) DEF IInv, Covered
    <2>2. \A q \in Proc : Takes(q)' => Bits(Owned(q))' \subseteq bitmap[call'[q].page]
      BY <1>5, <1>6, ZenonT(60) DEF IInv, Covered, Bits
    <2> QED
      BY <1>1, <2>1, <2>2, ZenonT(60) DEF Covered, Bits
  <1>14. Accounted'
    <2> SUFFICES ASSUME NEW page \in Page, NEW x \in bitmap[page]
                 PROVE  \/ \E a \in held' : a.page = page /\ x \in Bits(a)
                        \/ \E q \in Proc : Takes(q)' /\ call'[q].page = page /\ x \in Bits(Owned(q))'
      BY <1>1, ZenonT(60) DEF Accounted, Bits
    <2>1. CASE \E a \in held : a.page = page /\ x \in Bits(a)
      BY <1>1, <2>1, ZenonT(60)
    <2>2. CASE \E q \in Proc : Takes(q) /\ call[q].page = page /\ x \in Bits(Owned(q))
      <3>1. PICK q \in Proc : Takes(q) /\ call[q].page = page /\ x \in Bits(Owned(q))
        BY <2>2, ZenonT(60)
      <3>2. CASE q = p
        BY <1>1, <1>2, <3>1, <3>2, ZenonT(60)
      <3>3. CASE q # p
        BY <1>6, <3>1, <3>3, ZenonT(60) DEF Bits
      <3> QED
        BY <3>2, <3>3, ZenonT(60)
    <2> QED
      BY <2>1, <2>2, ZenonT(60) DEF IInv, Accounted
  <1> QED
    BY <1>4, <1>8, <1>9, <1>10, <1>11, <1>12, <1>13, <1>14, ZenonT(60) DEF IInv

(* The call of Free: the block passes from the caller to the process, at the *)
(* level its header names.                                                   *)
LEMMA FreeKeeps ==
    ASSUME IInv, NEW p \in Proc, NEW block \in held, Free(p, block)
    PROVE  IInv'
  <1> DEFINE after == [Idle EXCEPT !.pc = "clear", !.page = block.page, !.bit = block.bit,
                                   !.level = hdr[block.page][block.bit]]
  <1>1. /\ call[p] \in Call /\ ~Takes(p)
        /\ held' = held \ {block}
        /\ hdr' = [hdr EXCEPT ![block.page][block.bit] = None]
        /\ call' = [call EXCEPT ![p] = after]
        /\ UNCHANGED <<bitmap, hint>>
    BY ZenonT(60) DEF Free, At, IInv, Types, Takes
  <1>2. /\ block \in Block /\ block.page \in Page /\ block.bit \in Bit /\ block.level \in Level
        /\ hdr[block.page][block.bit] = block.level
        /\ block.page \in Nat
    BY PageCountAssumption, SMTT(60) DEF IInv, Types, Block, HeadersKept, Page
  <1>3. Idle \in Call
    BY LevelCountAssumption, WidthAssumption, SMTT(60) DEF Idle, Call, Pc, Level, Bit, BitCount
  <1>4. after \in Call
    BY <1>2, <1>3, ZenonT(60) DEF Call, Pc
  <1>5. after.pc = "clear" /\ after.page = block.page /\ after.bit = block.bit /\ after.level = block.level
    BY <1>2, ZenonT(60) DEF Idle
  <1> HIDE DEF after
  <1>6. Takes(p)' /\ call'[p].page = block.page /\ Bits(Owned(p))' = Bits(block)
    BY <1>1, <1>5, ZenonT(60) DEF IInv, Types, Takes, Owned, Bits
  <1>7. \A q \in Proc : q # p => call'[q] = call[q] /\ Takes(q)' = Takes(q) /\ Bits(Owned(q))' = Bits(Owned(q))
    BY <1>1, ZenonT(60) DEF IInv, Types, Takes, Owned, Bits
  <1>8. Types'
    <2>1. hdr' \in [Page -> [Bit -> Level \cup {None}]]
      BY <1>1, <1>2, ZenonT(60) DEF IInv, Types
    <2>2. call' \in [Proc -> Call]
      BY <1>1, <1>4, ZenonT(60) DEF IInv, Types
    <2> QED
      BY <1>1, <2>1, <2>2, ZenonT(60) DEF IInv, Types
  <1>9. PagesExist'
    BY <1>2, <1>6, <1>7, ZenonT(60) DEF IInv, PagesExist
  <1>10. HeadersKept'
    <2> SUFFICES ASSUME NEW a \in held, a # block PROVE hdr'[a.page][a.bit] = a.level
      BY <1>1, ZenonT(60) DEF HeadersKept
    <2>1. a \in Block /\ ~(a.page = block.page /\ a.bit = block.bit)
      <3>1. a.bit \in Bits(a) /\ block.bit \in Bits(block)
        BY <1>2, BlocksNonempty, ZenonT(60) DEF IInv, Types, Block, Bits
      <3> QED
        BY <3>1, ZenonT(60) DEF IInv, Types, HeldDisjoint
    <2> QED
      BY <1>1, <1>2, <2>1, ZenonT(60) DEF IInv, Types, HeadersKept, Block
  <1>11. HeldDisjoint'
    BY <1>1, ZenonT(60) DEF IInv, HeldDisjoint, Bits
  <1>12. HeldTakenDisjoint'
    <2> SUFFICES ASSUME NEW a \in held, a # block, NEW q \in Proc, Takes(q)', a.page = call'[q].page
                 PROVE  Bits(a) \cap Bits(Owned(q))' = {}
      BY <1>1, ZenonT(60) DEF HeldTakenDisjoint, Bits
    <2>1. CASE q = p
      BY <1>6, <2>1, ZenonT(60) DEF IInv, HeldDisjoint
    <2>2. CASE q # p
      BY <1>7, <2>2, ZenonT(60) DEF IInv, HeldTakenDisjoint
    <2> QED
      BY <2>1, <2>2, ZenonT(60)
  <1>13. TakenDisjoint'
    <2> SUFFICES ASSUME NEW q \in Proc, NEW r \in Proc, q # r, Takes(q)', Takes(r)',
                        call'[q].page = call'[r].page
                 PROVE  Bits(Owned(q))' \cap Bits(Owned(r))' = {}
      BY ZenonT(60) DEF TakenDisjoint
    <2>1. CASE q = p
      BY <1>6, <1>7, <2>1, SMTT(60) DEF IInv, HeldTakenDisjoint
    <2>2. CASE r = p
      BY <1>6, <1>7, <2>2, SMTT(60) DEF IInv, HeldTakenDisjoint
    <2>3. CASE q # p /\ r # p
      BY <1>7, <2>3, ZenonT(60) DEF IInv, TakenDisjoint
    <2> QED
      BY <2>1, <2>2, <2>3, ZenonT(60)
  <1>14. Covered'
    <2>1. \A a \in held' : Bits(a) \subseteq bitmap[a.page]
      BY <1>1, ZenonT(60) DEF IInv, Covered
    <2>2. \A q \in Proc : Takes(q)' => Bits(Owned(q))' \subseteq bitmap[call'[q].page]
      BY <1>6, <1>7, ZenonT(60) DEF IInv, Covered
    <2> QED
      BY <1>1, <2>1, <2>2, ZenonT(60) DEF Covered, Bits
  <1>15. Accounted'
    <2> SUFFICES ASSUME NEW page \in Page, NEW x \in bitmap[page]
                 PROVE  \/ \E a \in held' : a.page = page /\ x \in Bits(a)
                        \/ \E q \in Proc : Takes(q)' /\ call'[q].page = page /\ x \in Bits(Owned(q))'
      BY <1>1, ZenonT(60) DEF Accounted, Bits
    <2>1. CASE \E a \in held : a.page = page /\ x \in Bits(a)
      <3>1. PICK a \in held : a.page = page /\ x \in Bits(a)
        BY <2>1, ZenonT(60)
      <3>2. CASE a = block
        BY <1>6, <3>1, <3>2, ZenonT(60)
      <3>3. CASE a # block
        BY <1>1, <3>1, <3>3, ZenonT(60)
      <3> QED
        BY <3>2, <3>3, ZenonT(60)
    <2>2. CASE \E q \in Proc : Takes(q) /\ call[q].page = page /\ x \in Bits(Owned(q))
      BY <1>1, <1>7, <2>2, ZenonT(60)
    <2> QED
      BY <2>1, <2>2, ZenonT(60) DEF IInv, Accounted
  <1> QED
    BY <1>8, <1>9, <1>10, <1>11, <1>12, <1>13, <1>14, <1>15, ZenonT(60) DEF IInv

(* The fetch-and of Free: it clears the bits of the block and of no other.   *)
LEMMA ClearKeeps ==
    ASSUME IInv, NEW p \in Proc, ClearBits(p)
    PROVE  IInv'
  <1> DEFINE lost == Bits(Owned(p))
             after(q) == IF q = p
                         THEN [call[p] EXCEPT !.pc = "freed"]
                         ELSE [call[q] EXCEPT !.calm = call[q].pc = "idle"]
  <1>1. /\ call[p] \in Call /\ Takes(p) /\ call[p].page \in Page
        /\ bitmap' = [bitmap EXCEPT ![call[p].page] = @ \ Occupied(call[p].level, call[p].bit)]
        /\ call' = [q \in Proc |-> after(q)]
        /\ UNCHANGED <<hint, hdr, held>>
    BY ZenonT(60) DEF ClearBits, At, IInv, Types, PagesExist, Takes
  <1>2. Occupied(call[p].level, call[p].bit) = lost
    BY ZenonT(60) DEF Owned, Bits
  <1>3. \A q \in Proc : call[q] \in Call /\ hint[call[q].level] \in Nat
    BY ZenonT(60) DEF IInv, Types, Call
  <1>4. ASSUME NEW q \in Proc PROVE after(q) \in Call
    <2>1. CASE q = p
      <3>1. [call[p] EXCEPT !.pc = "freed"] \in Call
        <4>1. "freed" \in Pc
          BY ZenonT(60) DEF Pc
        <4> QED
          BY <1>3, <4>1, ZenonT(60) DEF Call
      <3> QED
        BY <2>1, <3>1, ZenonT(60)
    <2>2. CASE q # p
      <3>1. [call[q] EXCEPT !.calm = call[q].pc = "idle"] \in Call
        BY <1>3, ZenonT(60) DEF Call
      <3> QED
        BY <2>2, <3>1, ZenonT(60)
    <2> QED
      BY <2>1, <2>2, ZenonT(60)
  <1>5. ~Takes(p)' /\ call'[p].pc # "cas"
    <2>1. call'[p] = [call[p] EXCEPT !.pc = "freed"]
      BY <1>1, ZenonT(60)
    <2>2. call'[p].pc = "freed"
      BY <1>3, <2>1, ZenonT(60) DEF Call
    <2> QED
      BY <2>2, ZenonT(60) DEF Takes
  <1>6. ASSUME NEW q \in Proc, q # p
        PROVE  /\ call'[q].page = call[q].page /\ call'[q].pc = call[q].pc
               /\ call'[q].bit = call[q].bit /\ call'[q].level = call[q].level
    <2>1. call'[q] = [call[q] EXCEPT !.calm = call[q].pc = "idle"]
      BY <1>1, <1>6, ZenonT(60)
    <2> QED
      BY <1>3, <2>1, ZenonT(60) DEF Call
  <1>7. \A q \in Proc : q # p => Takes(q)' = Takes(q) /\ Bits(Owned(q))' = Bits(Owned(q))
    <2>1. \A q \in Proc : q # p => Takes(q)' = Takes(q)
      BY <1>6, ZenonT(60) DEF Takes
    <2>2. \A q \in Proc : q # p => Owned(q)' = Owned(q)
      BY <1>6, ZenonT(60) DEF Owned
    <2> QED
      BY <2>1, <2>2, ZenonT(60) DEF Bits
  <1>8. Types'
    <2>1. bitmap' \in [Page -> SUBSET Nat]
      BY <1>1, ZenonT(60) DEF IInv, Types
    <2> HIDE DEF after
    <2>2. call' \in [Proc -> Call]
      BY <1>1, <1>4, ZenonT(60)
    <2> QED
      BY <1>1, <2>1, <2>2, ZenonT(60) DEF IInv, Types
  <1> HIDE DEF after, lost
  <1>9. PagesExist'
    BY <1>5, <1>6, <1>7, ZenonT(60) DEF IInv, PagesExist
  <1>10. HeadersKept' /\ HeldDisjoint'
    BY <1>1, ZenonT(60) DEF IInv, HeadersKept, HeldDisjoint, Bits
  <1>11. HeldTakenDisjoint'
    <2> SUFFICES ASSUME NEW a \in held, NEW q \in Proc, Takes(q)', a.page = call'[q].page
                 PROVE  Bits(a) \cap Bits(Owned(q))' = {}
      BY <1>1, ZenonT(60) DEF HeldTakenDisjoint, Bits
    <2>1. q # p /\ Takes(q) /\ call[q].page = a.page /\ Bits(Owned(q))' = Bits(Owned(q))
      BY <1>5, <1>6, <1>7, ZenonT(60)
    <2> QED
      BY <2>1, ZenonT(60) DEF IInv, HeldTakenDisjoint
  <1>12. TakenDisjoint'
    <2> SUFFICES ASSUME NEW q \in Proc, NEW r \in Proc, q # r, Takes(q)', Takes(r)',
                        call'[q].page = call'[r].page
                 PROVE  Bits(Owned(q))' \cap Bits(Owned(r))' = {}
      BY ZenonT(60) DEF TakenDisjoint
    <2>1. /\ Takes(q) /\ Takes(r) /\ call[q].page = call[r].page
          /\ Bits(Owned(q))' = Bits(Owned(q)) /\ Bits(Owned(r))' = Bits(Owned(r))
      BY <1>5, <1>6, <1>7, ZenonT(60)
    <2> QED
      BY <2>1, ZenonT(60) DEF IInv, TakenDisjoint
  <1>13. ASSUME NEW page \in Page, NEW x
         PROVE  x \in bitmap'[page] <=> x \in bitmap[page] /\ ~(page = call[p].page /\ x \in lost)
    <2>1. bitmap' = [bitmap EXCEPT ![call[p].page] = @ \ lost] /\ bitmap \in [Page -> SUBSET Nat]
      BY <1>1, <1>2, ZenonT(60) DEF IInv, Types
    <2> QED
      BY <2>1, ZenonT(60)
  <1>14. Covered'
    <2>1. ASSUME NEW a \in held PROVE Bits(a) \subseteq bitmap'[a.page]
      <3>1. a.page \in Page /\ Bits(a) \subseteq bitmap[a.page]
        BY ZenonT(60) DEF IInv, Types, Block, Covered
      <3>2. a.page = call[p].page => Bits(a) \cap lost = {}
        BY <1>1, ZenonT(60) DEF IInv, HeldTakenDisjoint, lost
      <3> QED
        BY <1>13, <3>1, <3>2, ZenonT(60)
    <2>2. ASSUME NEW q \in Proc, Takes(q)' PROVE Bits(Owned(q))' \subseteq bitmap'[call'[q].page]
      <3>1. /\ q # p /\ Takes(q) /\ call'[q].page = call[q].page
            /\ Bits(Owned(q))' = Bits(Owned(q))
        BY <1>5, <1>6, <1>7, <2>2, ZenonT(60)
      <3>2. call[q].page \in Page /\ Bits(Owned(q)) \subseteq bitmap[call[q].page]
        BY <3>1, ZenonT(60) DEF IInv, PagesExist, Covered
      <3>3. call[q].page = call[p].page => Bits(Owned(q)) \cap lost = {}
        BY <1>1, <3>1, ZenonT(60) DEF IInv, TakenDisjoint, lost
      <3> QED
        BY <1>13, <3>1, <3>2, <3>3, ZenonT(60)
    <2> QED
      BY <1>1, <2>1, <2>2, ZenonT(60) DEF Covered, Bits
  <1>15. Accounted'
    <2> SUFFICES ASSUME NEW page \in Page, NEW x \in bitmap'[page]
                 PROVE  \/ \E a \in held : a.page = page /\ x \in Bits(a)
                        \/ \E q \in Proc : Takes(q)' /\ call'[q].page = page /\ x \in Bits(Owned(q))'
      BY <1>1, ZenonT(60) DEF Accounted, Bits
    <2>1. x \in bitmap[page] /\ (page = call[p].page => x \notin lost)
      BY <1>13, ZenonT(60)
    <2>2. CASE \E a \in held : a.page = page /\ x \in Bits(a)
      BY <2>2, ZenonT(60)
    <2>3. CASE \E q \in Proc : Takes(q) /\ call[q].page = page /\ x \in Bits(Owned(q))
      <3>1. PICK q \in Proc : Takes(q) /\ call[q].page = page /\ x \in Bits(Owned(q))
        BY <2>3, ZenonT(60)
      <3>2. q # p
        BY <2>1, <3>1, ZenonT(60) DEF lost
      <3> QED
        BY <1>6, <1>7, <3>1, <3>2, ZenonT(60)
    <2> QED
      BY <2>1, <2>2, <2>3, ZenonT(60) DEF IInv, Accounted
  <1> QED
    BY <1>8, <1>9, <1>10, <1>11, <1>12, <1>14, <1>15, ZenonT(60) DEF IInv

(* A step of one process that neither takes nor gives up a block.            *)
LocalStep(p, after) ==
    /\ call' = [call EXCEPT ![p] = after]
    /\ UNCHANGED <<bitmap, hdr, held>>
    /\ hint' \in [Level -> Nat]
    /\ after.pc \in {"hint", "lower_malloc", "header", "clear"} <=> Takes(p)
    /\ Takes(p) => /\ after.page = call[p].page /\ after.bit = call[p].bit
                   /\ after.level = call[p].level
    /\ after.pc = "cas" => after.page \in Page

LEMMA LocalKeeps ==
    ASSUME IInv, NEW p \in Proc, NEW after \in Call, LocalStep(p, after)
    PROVE  IInv'
  <1>1. call'[p] = after /\ \A q \in Proc : q # p => call'[q] = call[q]
    BY ZenonT(60) DEF IInv, Types, LocalStep
  <1>2. ASSUME NEW q \in Proc PROVE Takes(q)' = Takes(q)
    BY <1>1, SMTT(60) DEF Takes, LocalStep
  <1>3. ASSUME NEW q \in Proc, Takes(q) PROVE Owned(q)' = Owned(q)
    BY <1>1, <1>3, ZenonT(60) DEF Owned, LocalStep
  <1>4. Types'
    BY ZenonT(60) DEF IInv, Types, LocalStep
  <1>5. PagesExist'
    BY <1>1, <1>2, ZenonT(60) DEF IInv, PagesExist, LocalStep
  <1>6. UNCHANGED <<bitmap, hdr, held>>
    BY ZenonT(60) DEF LocalStep
  <1> QED
    BY <1>2, <1>3, <1>4, <1>5, <1>6, Quiet, ZenonT(60) DEF IInv

LEMMA IdleIsCall == Idle \in Call /\ Idle.pc = "idle"
  BY LevelCountAssumption, WidthAssumption, SMTT(60) DEF Idle, Call, Pc, Level, Bit, BitCount

LEMMA LocalSteps ==
    ASSUME IInv, NEW p \in Proc,
           \/ \E size \in Size : Malloc(p, size) \/ MallocTooLarge(p, size)
           \/ LoadPage(p) \/ SecondScan(p) \/ CannotFind(p) \/ NextPage(p) \/ CasFails(p)
           \/ RenewHint(p) \/ RenewHintInSecondScan(p) \/ ReturnNull(p)
           \/ LoadFreeHint(p) \/ LowerHint(p)
    PROVE  IInv'
  <1>1. call \in [Proc -> Call] /\ call[p] \in Call /\ hint \in [Level -> Nat]
    BY ZenonT(60) DEF IInv, Types
  <1>2. /\ call[p].pc \in Pc /\ call[p].level \in Level /\ call[p].page \in Nat
        /\ hint[call[p].level] \in Nat
        /\ call[p].page < PageCount => call[p].page \in Page
        /\ Takes(p) \/ call[p].pc = "cas" => call[p].page \in Page
    BY <1>1, PageCountAssumption, SMTT(60) DEF Call, Page, IInv, PagesExist
  <1>3. CASE \E size \in Size : Malloc(p, size)
    <2>1. PICK level \in Level :
            call' = [call EXCEPT ![p] = [Idle EXCEPT !.pc = "load", !.level = level,
                                                     !.start = hint[level], !.page = hint[level]]]
      BY <1>3, ZenonT(60) DEF Malloc
    <2> DEFINE after == [Idle EXCEPT !.pc = "load", !.level = level, !.start = hint[level],
                                     !.page = hint[level]]
    <2>2. hint[level] \in Nat
      BY <1>1, ZenonT(60)
    <2>3. after \in Call
      BY IdleIsCall, <2>2, ZenonT(60) DEF Call, Pc
    <2>4. after.pc = "load"
      BY IdleIsCall, ZenonT(60) DEF Call
    <2>5. call[p].pc = "idle" /\ UNCHANGED <<bitmap, hint, hdr, held>>
      BY <1>3, ZenonT(60) DEF Malloc, At
    <2>6. ~Takes(p) /\ call' = [call EXCEPT ![p] = after]
      BY <2>1, <2>5, ZenonT(60) DEF Takes
    <2> HIDE DEF after
    <2>local. LocalStep(p, after)
      BY <1>1, <2>3, <2>4, <2>5, <2>6, ZenonT(60) DEF LocalStep
    <2> QED
      BY <1>1, <2>1, <2>3, <2>4, <2>local, LocalKeeps, ZenonT(60)
  <1>4. CASE \E size \in Size : MallocTooLarge(p, size)
    <2> DEFINE after == [Idle EXCEPT !.pc = "refused"]
    <2>1. call' = [call EXCEPT ![p] = after] /\ UNCHANGED <<bitmap, hint, hdr, held>> /\ call[p].pc = "idle"
      BY <1>4, ZenonT(60) DEF MallocTooLarge, At
    <2>2. after \in Call /\ after.pc = "refused"
      BY IdleIsCall, ZenonT(60) DEF Call, Pc
    <2>3. ~Takes(p)
      BY <2>1, ZenonT(60) DEF Takes
    <2> HIDE DEF after
    <2>local. LocalStep(p, after)
      BY <1>1, <2>1, <2>2, <2>3, ZenonT(60) DEF LocalStep
    <2> QED
      BY <1>1, <2>1, <2>2, <2>3, <2>local, LocalKeeps, ZenonT(60)
  <1>5. CASE LoadPage(p)
    <2> DEFINE after == [call[p] EXCEPT !.pc = "cas", !.full = FALSE, !.bits = bitmap[call[p].page]]
    <2>1. /\ call' = [call EXCEPT ![p] = after] /\ UNCHANGED <<bitmap, hint, hdr, held>>
          /\ call[p].pc = "load" /\ call[p].page < PageCount
      BY <1>5, ZenonT(60) DEF LoadPage, At
    <2>2. bitmap[call[p].page] \in SUBSET Nat
      BY <1>2, <2>1, ZenonT(60) DEF IInv, Types
    <2>3. after \in Call /\ after.pc = "cas" /\ after.page = call[p].page
      BY <1>1, <2>2, ZenonT(60) DEF Call, Pc
    <2>4. ~Takes(p)
      BY <2>1, ZenonT(60) DEF Takes
    <2> HIDE DEF after
    <2>local. LocalStep(p, after)
      BY <1>1, <1>2, <2>1, <2>3, <2>4, ZenonT(60) DEF LocalStep
    <2> QED
      BY <1>1, <1>2, <2>1, <2>3, <2>4, <2>local, LocalKeeps, ZenonT(60)
  <1>6. CASE SecondScan(p)
    <2> DEFINE after == [call[p] EXCEPT !.scan = 1, !.start = 0, !.page = 0]
    <2>1. call' = [call EXCEPT ![p] = after] /\ UNCHANGED <<bitmap, hint, hdr, held>> /\ call[p].pc = "load"
      BY <1>6, ZenonT(60) DEF SecondScan, At
    <2>2. 0 \in Nat
      BY ZenonT(60)
    <2>3. after \in Call /\ after.pc = call[p].pc
      BY <1>1, <2>2, ZenonT(60) DEF Call, Pc
    <2>4. ~Takes(p)
      BY <2>1, ZenonT(60) DEF Takes
    <2> HIDE DEF after
    <2>local. LocalStep(p, after)
      BY <1>1, <2>1, <2>3, <2>4, ZenonT(60) DEF LocalStep
    <2> QED
      BY <1>1, <2>1, <2>3, <2>4, <2>local, LocalKeeps, ZenonT(60)
  <1>7. CASE CannotFind(p)
    <2> DEFINE after == [call[p] EXCEPT !.pc = "failed"]
    <2>1. call' = [call EXCEPT ![p] = after] /\ UNCHANGED <<bitmap, hint, hdr, held>> /\ call[p].pc = "load"
      BY <1>7, ZenonT(60) DEF CannotFind, At
    <2>2. after \in Call /\ after.pc = "failed"
      BY <1>1, ZenonT(60) DEF Call, Pc
    <2>3. ~Takes(p)
      BY <2>1, ZenonT(60) DEF Takes
    <2> HIDE DEF after
    <2>local. LocalStep(p, after)
      BY <1>1, <2>1, <2>2, <2>3, ZenonT(60) DEF LocalStep
    <2> QED
      BY <1>1, <2>1, <2>2, <2>3, <2>local, LocalKeeps, ZenonT(60)
  <1>8. CASE NextPage(p)
    <2> DEFINE after == [call[p] EXCEPT !.pc = "load", !.page = @ + 1, !.bits = {}]
    <2>1. call' = [call EXCEPT ![p] = after] /\ UNCHANGED <<bitmap, hint, hdr, held>> /\ call[p].pc = "cas"
      BY <1>8, ZenonT(60) DEF NextPage, At
    <2>2. call[p].page + 1 \in Nat
      BY <1>2, SMTT(60)
    <2>3. after \in Call /\ after.pc = "load"
      BY <1>1, <2>2, ZenonT(60) DEF Call, Pc
    <2>4. ~Takes(p)
      BY <2>1, ZenonT(60) DEF Takes
    <2> HIDE DEF after
    <2>local. LocalStep(p, after)
      BY <1>1, <2>1, <2>3, <2>4, ZenonT(60) DEF LocalStep
    <2> QED
      BY <1>1, <2>1, <2>3, <2>4, <2>local, LocalKeeps, ZenonT(60)
  <1>9. CASE CasFails(p)
    <2>1. PICK bit :
            call' = [call EXCEPT ![p].bits = bitmap[call[p].page], ![p].full = PageIsFull(p, bit)]
      BY <1>9, ZenonT(60) DEF CasFails
    <2> DEFINE after == [call[p] EXCEPT !.bits = bitmap[call[p].page], !.full = PageIsFull(p, bit)]
    <2>2. call' = [call EXCEPT ![p] = after]
      BY <2>1, ZenonT(60)
    <2>3. call[p].pc = "cas" /\ UNCHANGED <<bitmap, hint, hdr, held>>
      BY <1>9, ZenonT(60) DEF CasFails, At
    <2>4. bitmap[call[p].page] \in SUBSET Nat
      BY <1>2, <2>3, ZenonT(60) DEF IInv, Types
    <2>5. PageIsFull(p, bit) \in BOOLEAN
      BY <1>1, ZenonT(60) DEF PageIsFull, Call
    <2>6. after \in Call /\ after.pc = call[p].pc /\ after.page = call[p].page
      BY <1>1, <2>4, <2>5, ZenonT(60) DEF Call
    <2>7. ~Takes(p)
      BY <2>3, ZenonT(60) DEF Takes
    <2> HIDE DEF after
    <2>local. LocalStep(p, after)
      BY <1>1, <1>2, <2>2, <2>3, <2>6, <2>7, ZenonT(60) DEF LocalStep
    <2> QED
      BY <1>1, <1>2, <2>2, <2>3, <2>6, <2>7, <2>local, LocalKeeps, ZenonT(60)
  <1>10. CASE RenewHint(p)
    <2> DEFINE after == [call[p] EXCEPT !.pc = "header", !.start = 0]
    <2>1. call' = [call EXCEPT ![p] = after] /\ UNCHANGED <<bitmap, hdr, held>> /\ call[p].pc = "hint"
      BY <1>10, ZenonT(60) DEF RenewHint, At
    <2>2. hint' \in [Level -> Nat]
      BY <1>1, <1>2, <1>10, SMTT(60) DEF RenewHint
    <2>3. 0 \in Nat
      BY ZenonT(60)
    <2>4. /\ after \in Call /\ after.pc = "header" /\ after.page = call[p].page
          /\ after.bit = call[p].bit /\ after.level = call[p].level
      BY <1>1, <2>3, ZenonT(60) DEF Call, Pc
    <2>5. Takes(p)
      BY <2>1, ZenonT(60) DEF Takes
    <2> HIDE DEF after
    <2>local. LocalStep(p, after)
      BY <2>1, <2>2, <2>4, <2>5, ZenonT(60) DEF LocalStep
    <2> QED
      BY <2>1, <2>2, <2>4, <2>5, <2>local, LocalKeeps, ZenonT(60)
  <1>11. CASE RenewHintInSecondScan(p)
    <2> DEFINE after == [call[p] EXCEPT !.pc = IF call[p].full THEN "header" ELSE "lower_malloc",
                                        !.freeHint = hint[call[p].level]]
    <2>1. call' = [call EXCEPT ![p] = after] /\ UNCHANGED <<bitmap, hint, hdr, held>> /\ call[p].pc = "hint"
      BY <1>11, ZenonT(60) DEF RenewHintInSecondScan, At
    <2>2. /\ after \in Call /\ after.pc \in {"header", "lower_malloc"} /\ after.page = call[p].page
          /\ after.bit = call[p].bit /\ after.level = call[p].level
      BY <1>1, <1>2, ZenonT(60) DEF Call, Pc
    <2>3. Takes(p)
      BY <2>1, ZenonT(60) DEF Takes
    <2> HIDE DEF after
    <2>local. LocalStep(p, after)
      BY <1>1, <2>1, <2>2, <2>3, ZenonT(60) DEF LocalStep
    <2> QED
      BY <1>1, <2>1, <2>2, <2>3, <2>local, LocalKeeps, ZenonT(60)
  <1>12. CASE ReturnNull(p)
    <2>1. /\ call' = [call EXCEPT ![p] = Idle] /\ UNCHANGED <<bitmap, hint, hdr, held>>
          /\ call[p].pc \in {"refused", "failed"}
      BY <1>12, ZenonT(60) DEF ReturnNull
    <2>2. ~Takes(p)
      BY <2>1, ZenonT(60) DEF Takes
    <2>local. LocalStep(p, Idle)
      BY <1>1, <2>1, <2>2, IdleIsCall, ZenonT(60) DEF LocalStep
    <2> QED
      BY <1>1, <2>1, <2>2, IdleIsCall, <2>local, LocalKeeps, ZenonT(60)
  <1>13. CASE LowerHint(p)
    <2>1. /\ call[p].pc \in {"lower_malloc", "lower_free"} /\ UNCHANGED <<bitmap, hdr, held>>
          /\ hint' \in [Level -> Nat]
      BY <1>1, <1>2, <1>13, ZenonT(60) DEF LowerHint
    <2>2. \/ call' = [call EXCEPT ![p] = [call[p] EXCEPT !.freeHint = hint[call[p].level]]]
          \/ call[p].pc = "lower_free" /\ call' = [call EXCEPT ![p] = Idle]
          \/ /\ call[p].pc # "lower_free"
             /\ call' = [call EXCEPT ![p] = [call[p] EXCEPT !.pc = "header", !.freeHint = 0]]
      BY <1>13, ZenonT(60) DEF LowerHint
    <2>3. CASE call' = [call EXCEPT ![p] = [call[p] EXCEPT !.freeHint = hint[call[p].level]]]
      <3> DEFINE after == [call[p] EXCEPT !.freeHint = hint[call[p].level]]
      <3>1. /\ after \in Call /\ after.pc = call[p].pc /\ after.page = call[p].page
            /\ after.bit = call[p].bit /\ after.level = call[p].level
        BY <1>1, <1>2, ZenonT(60) DEF Call
      <3>2. call' = [call EXCEPT ![p] = after]
        BY <2>3, ZenonT(60)
      <3> HIDE DEF after
      <3>local. LocalStep(p, after)
        BY <2>1, <3>1, <3>2, ZenonT(60) DEF LocalStep, Takes
      <3> QED
        BY <2>1, <3>1, <3>2, <3>local, LocalKeeps, ZenonT(60)
    <2>4. CASE call[p].pc = "lower_free" /\ call' = [call EXCEPT ![p] = Idle]
      <3>1. LocalStep(p, Idle)
        BY <2>1, <2>4, IdleIsCall, ZenonT(60) DEF LocalStep, Takes
      <3> QED
        BY <3>1, IdleIsCall, LocalKeeps, ZenonT(60)
    <2>5. CASE /\ call[p].pc # "lower_free"
               /\ call' = [call EXCEPT ![p] = [call[p] EXCEPT !.pc = "header", !.freeHint = 0]]
      <3> DEFINE after == [call[p] EXCEPT !.pc = "header", !.freeHint = 0]
      <3>1. 0 \in Nat
        BY ZenonT(60)
      <3>2. /\ after \in Call /\ after.pc = "header" /\ after.page = call[p].page
            /\ after.bit = call[p].bit /\ after.level = call[p].level
        BY <1>1, <3>1, ZenonT(60) DEF Call, Pc
      <3>3. call' = [call EXCEPT ![p] = after] /\ Takes(p)
        BY <2>1, <2>5, ZenonT(60) DEF Takes
      <3> HIDE DEF after
      <3>local. LocalStep(p, after)
        BY <2>1, <3>2, <3>3, ZenonT(60) DEF LocalStep
      <3> QED
        BY <2>1, <3>2, <3>3, <3>local, LocalKeeps, ZenonT(60)
    <2> QED
      BY <2>2, <2>3, <2>4, <2>5, ZenonT(60)
  <1>14. CASE LoadFreeHint(p)
    <2> DEFINE after == [call[p] EXCEPT !.pc = "lower_free", !.freeHint = hint[call[p].level]]
    <2>1. call' = [call EXCEPT ![p] = after] /\ UNCHANGED <<bitmap, hint, hdr, held>> /\ call[p].pc = "freed"
      BY <1>14, ZenonT(60) DEF LoadFreeHint, At
    <2>2. after \in Call /\ after.pc = "lower_free"
      BY <1>1, <1>2, ZenonT(60) DEF Call, Pc
    <2>3. ~Takes(p)
      BY <2>1, ZenonT(60) DEF Takes
    <2> HIDE DEF after
    <2>local. LocalStep(p, after)
      BY <1>1, <2>1, <2>2, <2>3, ZenonT(60) DEF LocalStep
    <2> QED
      BY <1>1, <2>1, <2>2, <2>3, <2>local, LocalKeeps, ZenonT(60)
  <1> QED
    BY <1>3, <1>4, <1>5, <1>6, <1>7, <1>8, <1>9, <1>10, <1>11, <1>12, <1>13, <1>14, ZenonT(60)

(* The invariant is inductive.                                               *)
THEOREM AllocatorInvariant == Spec => []IInv
  <1>1. ASSUME IInv, [Next]_vars PROVE IInv'
    <2>1. CASE UNCHANGED vars
      <3>1. UNCHANGED <<bitmap, hint, hdr, held, call>>
        BY <2>1, ZenonT(60) DEF vars
      <3>2. Types' /\ PagesExist'
        BY <1>1, <3>1, ZenonT(60) DEF IInv, Types, PagesExist, Takes
      <3>3. HeadersKept' /\ HeldDisjoint'
        BY <1>1, <3>1, ZenonT(60) DEF IInv, HeadersKept, HeldDisjoint
      <3>4. HeldTakenDisjoint' /\ TakenDisjoint'
        BY <1>1, <3>1, ZenonT(60) DEF IInv, HeldTakenDisjoint, TakenDisjoint, Takes, Owned
      <3>5. Covered'
        BY <1>1, <3>1, ZenonT(60) DEF IInv, Covered, Takes, Owned
      <3>6. Accounted'
        BY <1>1, <3>1, SMTT(60) DEF IInv, Accounted, Takes, Owned
      <3> QED
        BY <3>2, <3>3, <3>4, <3>5, <3>6, ZenonT(60) DEF IInv
    <2>2. ASSUME NEW p \in Proc, Step(p) PROVE IInv'
      BY <1>1, <2>2, CasKeeps, HeaderKeeps, FreeKeeps, ClearKeeps, LocalSteps, ZenonT(60) DEF Step
    <2> QED
      BY <1>1, <2>1, <2>2, ZenonT(60) DEF Next
  <1> QED
    BY <1>1, InitEstablishes, PTL DEF Spec

(* Two live allocations share no memory, and no block is given to two        *)
(* owners, for any number of processes, pages and levels and any             *)
(* interleaving of CuckooShmemAllocatorMalloc and CuckooShmemAllocatorFree.  *)
THEOREM AllocationsDisjoint == Spec => []BlocksDisjoint
  <1>1. ASSUME IInv PROVE BlocksDisjoint
    <2> SUFFICES ASSUME NEW a \in Live, NEW b \in Live, a # b, a.block.page = b.block.page
                 PROVE  Bits(a.block) \cap Bits(b.block) = {}
      BY ZenonT(60) DEF BlocksDisjoint
    <2>1. ASSUME NEW x \in Live
          PROVE  \/ \E c \in held : x = [owner |-> "caller", block |-> c] /\ x.block = c
                 \/ \E p \in Proc : Takes(p) /\ x = [owner |-> p, block |-> Owned(p)] /\ x.block = Owned(p)
      <3>1. \/ x \in {[owner |-> "caller", block |-> c] : c \in held}
            \/ x \in {[owner |-> p, block |-> Owned(p)] : p \in {q \in Proc : Takes(q)}}
        BY <2>1, ZenonT(60) DEF Live
      <3>2. ASSUME NEW c \in held, x = [owner |-> "caller", block |-> c] PROVE x.block = c
        BY <3>2, SMTT(60)
      <3>3. ASSUME NEW p \in Proc, x = [owner |-> p, block |-> Owned(p)] PROVE x.block = Owned(p)
        BY <3>3, SMTT(60)
      <3> QED
        BY <3>1, <3>2, <3>3, ZenonT(60)
    <2>2. \A p \in Proc : Owned(p).page = call[p].page
      BY ZenonT(60) DEF Owned
    <2>3. CASE a.block \in held /\ b.block \in held /\ a.block # b.block
      BY <1>1, <2>3, ZenonT(60) DEF IInv, HeldDisjoint
    <2>4. ASSUME NEW p \in Proc, Takes(p), a.block \in held, b.block = Owned(p)
          PROVE  Bits(a.block) \cap Bits(b.block) = {}
      BY <1>1, <2>2, <2>4, ZenonT(60) DEF IInv, HeldTakenDisjoint
    <2>5. ASSUME NEW p \in Proc, Takes(p), b.block \in held, a.block = Owned(p)
          PROVE  Bits(a.block) \cap Bits(b.block) = {}
      BY <1>1, <2>2, <2>5, ZenonT(60) DEF IInv, HeldTakenDisjoint
    <2>6. ASSUME NEW p \in Proc, NEW q \in Proc, p # q, Takes(p), Takes(q), a.block = Owned(p), b.block = Owned(q)
          PROVE  Bits(a.block) \cap Bits(b.block) = {}
      BY <1>1, <2>2, <2>6, ZenonT(60) DEF IInv, TakenDisjoint
    <2> QED
      BY <2>1, <2>3, <2>4, <2>5, <2>6, ZenonT(60)
  <1> QED
    BY <1>1, AllocatorInvariant, PTL

(* A bit of a page is set exactly while it belongs to a live allocation: no  *)
(* CuckooShmemAllocatorFree leaves a bit behind, and no compare-and-swap     *)
(* that fails does, for any number of processes, pages and levels.           *)
THEOREM BitmapIsExact == Spec => []BitmapExact
  <1>1. ASSUME IInv PROVE BitmapExact
    <2> SUFFICES ASSUME NEW page \in Page
                 PROVE  bitmap[page] = UNION {Bits(a.block) : a \in {c \in Live : c.block.page = page}}
      BY ZenonT(60) DEF BitmapExact
    <2>1. \A p \in Proc : Owned(p).page = call[p].page
      BY ZenonT(60) DEF Owned
    <2>2. ASSUME NEW x \in bitmap[page] PROVE \E a \in Live : a.block.page = page /\ x \in Bits(a.block)
      <3>1. CASE \E c \in held : c.page = page /\ x \in Bits(c)
        <4>1. PICK c \in held : c.page = page /\ x \in Bits(c)
          BY <3>1, ZenonT(60)
        <4>2. [owner |-> "caller", block |-> c] \in Live
          BY <4>1, ZenonT(60) DEF Live
        <4> QED
          BY <4>1, <4>2, ZenonT(60)
      <3>2. CASE \E p \in Proc : Takes(p) /\ call[p].page = page /\ x \in Bits(Owned(p))
        <4>1. PICK p \in Proc : Takes(p) /\ call[p].page = page /\ x \in Bits(Owned(p))
          BY <3>2, ZenonT(60)
        <4>2. [owner |-> p, block |-> Owned(p)] \in Live
          BY <4>1, ZenonT(60) DEF Live
        <4> QED
          BY <2>1, <4>1, <4>2, ZenonT(60)
      <3> QED
        BY <1>1, <2>2, <3>1, <3>2, ZenonT(60) DEF IInv, Accounted
    <2>3. ASSUME NEW a \in Live, a.block.page = page PROVE Bits(a.block) \subseteq bitmap[page]
      <3>1. a.block \in held \/ \E p \in Proc : Takes(p) /\ a.block = Owned(p)
        <4>1. \/ a \in {[owner |-> "caller", block |-> c] : c \in held}
              \/ a \in {[owner |-> p, block |-> Owned(p)] : p \in {q \in Proc : Takes(q)}}
          BY <2>3, ZenonT(60) DEF Live
        <4>2. ASSUME NEW c \in held, a = [owner |-> "caller", block |-> c] PROVE a.block = c
          BY <4>2, SMTT(60)
        <4>3. ASSUME NEW p \in Proc, a = [owner |-> p, block |-> Owned(p)] PROVE a.block = Owned(p)
          BY <4>3, SMTT(60)
        <4> QED
          BY <4>1, <4>2, <4>3, ZenonT(60)
      <3> QED
        BY <1>1, <2>1, <2>3, <3>1, ZenonT(60) DEF IInv, Covered
    <2> QED
      BY <2>2, <2>3, ZenonT(60)
  <1> QED
    BY <1>1, AllocatorInvariant, PTL

-----------------------------------------------------------------------------
(* Widths                                                                    *)

(* A set of numbers has a smallest one; with it, induction over the levels.  *)
Less == {ss \in Nat \X Nat : ss[1] < ss[2]}
LEMMA FirstOf ==
    ASSUME NEW T, T \subseteq Nat, T # {}
    PROVE  \E x \in T : \A y \in T : x <= y
  <1>1. IsWellFoundedOn(Less, Nat)
    BY NatLessThanWellFounded, ZenonT(60) DEF OpToRel, Less
  <1>2. PICK x \in T : \A y \in T : ~(<<y, x>> \in Less)
    BY <1>1, WFMin, ZenonT(60)
  <1>3. ASSUME NEW y \in T PROVE x <= y
    <2>1. <<y, x>> \in Nat \X Nat /\ x \in Nat /\ y \in Nat
      BY ZenonT(60)
    <2>2. ~(<<y, x>>[1] < <<y, x>>[2])
      BY <1>2, <2>1, ZenonT(60) DEF Less
    <2> QED
      BY <2>1, <2>2, SMTT(60)
  <1> QED
    BY <1>3, ZenonT(60)

LEMMA Multiple ==
    ASSUME NEW w \in Nat \ {0}, NEW b \in Nat, b % w = 0
    PROVE  \E q \in Nat : b = q * w
  BY SMTT(60)

(* A block of a level is two of the next.                                    *)
LEMMA Aligned ==
    ASSUME NEW w \in Nat \ {0}, NEW b \in Nat, b % (2 * w) = 0
    PROVE  b % w = 0 /\ (b + w) % w = 0
  <1>1. PICK q \in Nat : b = q * (2 * w)
    BY SMTT(60)
  <1>2. b = (2 * q) * w
    BY <1>1, SMTT(60)
  <1> QED
    BY <1>2, SMTT(60)

(* An aligned block that starts before the end of a page ends there or       *)
(* before.                                                                   *)
LEMMA Fits ==
    ASSUME NEW w \in Nat \ {0}, NEW m \in Nat, NEW b \in Nat, b < m * w, b % w = 0
    PROVE  b + w <= m * w
  <1>1. PICK q \in Nat : b = q * w
    BY Multiple, ZenonT(60)
  <1>2. q < m
    BY <1>1, SMTT(60)
  <1>3. (q + 1) * w <= m * w
    BY <1>2, SMTT(60)
  <1> QED
    BY <1>1, <1>3, SMTT(60)

(* The blocks of a level fill a page.                                        *)
LEMMA WidthDivides ==
    ASSUME NEW l \in Level
    PROVE  \E m \in Nat : BitCount = m * Width[l]
  <1> DEFINE T == {k \in Level : ~\E m \in Nat : BitCount = m * Width[k]}
  <1> SUFFICES ASSUME T # {} PROVE FALSE
    BY ZenonT(60)
  <1>1. PICK k \in T : \A j \in T : k <= j
    <2>1. T \subseteq Nat
      BY SMTT(60) DEF Level
    <2> HIDE DEF T
    <2> QED
      BY <2>1, FirstOf, ZenonT(60)
  <1>2. k # 0
    <2>1. BitCount = 1 * Width[0] /\ 1 \in Nat
      BY WidthAssumption, LevelCountAssumption, SMTT(60) DEF BitCount, Level
    <2> QED
      BY <1>1, <2>1, ZenonT(60)
  <1>3. k - 1 \in Level /\ k - 1 # LevelCount - 1 /\ k \in Level /\ ~(k <= k - 1) /\ (k - 1) + 1 = k
    BY <1>2, LevelCountAssumption, SMTT(60) DEF Level
  <1>4. PICK m \in Nat : BitCount = m * Width[k - 1]
    BY <1>1, <1>3, ZenonT(60)
  <1>5. Width[k - 1] = 2 * Width[k] /\ Width[k] \in Nat
    BY <1>3, WidthHalves, WidthAssumption, ZenonT(60)
  <1>6. BitCount = (2 * m) * Width[k] /\ 2 * m \in Nat
    BY <1>4, <1>5, SMTT(60)
  <1> QED
    BY <1>6, ZenonT(60)

(* A block lies within its page.                                             *)
LEMMA BlockInPage ==
    ASSUME NEW l \in Level, NEW b \in LevelBlockMask(l)
    PROVE  Occupied(l, b) \subseteq Bit
  <1>1. PICK m \in Nat : BitCount = m * Width[l]
    BY WidthDivides, ZenonT(60)
  <1>2. Width[l] \in Nat \ {0} /\ BitCount \in Nat
    BY WidthAssumption, LevelCountAssumption, SMTT(60) DEF BitCount, Level
  <1>3. b \in Nat /\ b < BitCount /\ b % Width[l] = 0
    BY <1>2, SMTT(60) DEF LevelBlockMask, Bit
  <1>4. b + Width[l] <= BitCount
    BY <1>1, <1>2, <1>3, Fits, ZenonT(60)
  <1> QED
    BY <1>2, <1>3, <1>4, SMTT(60) DEF Occupied, Bit

-----------------------------------------------------------------------------
(* The folding of a word                                                     *)

(* One round: the blocks in use of a level from those of the next finer one. *)
LEMMA FoldOnce ==
    ASSUME NEW bits \in SUBSET Bit, NEW j \in Level, j # LevelCount - 1
    PROVE  LET finer == LevelBitmap(bits, j + 1)
               shift == Width[j + 1]
           IN  LevelBitmap(bits, j) =
                 ({b - shift : b \in {c \in finer : c >= shift}} \cup finer) \cap LevelBlockMask(j)
  <1> DEFINE finer == LevelBitmap(bits, j + 1)
             shift == Width[j + 1]
             shifted == {b - shift : b \in {c \in finer : c >= shift}}
  <1>1. j + 1 \in Level /\ Width[j] = 2 * shift /\ shift \in Nat \ {0} /\ BitCount \in Nat
    BY WidthHalves, WidthAssumption, LevelCountAssumption, SMTT(60) DEF Level, BitCount
  <1> HIDE DEF shift
  <1>2. ASSUME NEW b \in LevelBlockMask(j)
        PROVE  /\ b \in Nat /\ b \in LevelBlockMask(j + 1)
               /\ b + shift \in Bit => b + shift \in LevelBlockMask(j + 1)
               /\ Occupied(j, b) = Occupied(j + 1, b) \cup Occupied(j + 1, b + shift)
    <2>1. b \in Bit /\ b \in Nat /\ b % (2 * shift) = 0
      BY <1>1, SMTT(60) DEF LevelBlockMask, Bit
    <2>2. b % shift = 0 /\ (b + shift) % shift = 0
      BY <1>1, <2>1, Aligned, ZenonT(60)
    <2>3. b \in LevelBlockMask(j + 1) /\ (b + shift \in Bit => b + shift \in LevelBlockMask(j + 1))
      BY <2>1, <2>2, ZenonT(60) DEF LevelBlockMask, shift
    <2>4. Occupied(j, b) = b .. b + 2 * shift - 1
      BY <1>1, ZenonT(60) DEF Occupied
    <2>5. /\ Occupied(j + 1, b) = b .. b + shift - 1
          /\ Occupied(j + 1, b + shift) = b + shift .. b + shift + shift - 1
      BY ZenonT(60) DEF Occupied, shift
    <2>6. Occupied(j, b) = Occupied(j + 1, b) \cup Occupied(j + 1, b + shift)
      BY <1>1, <2>1, <2>4, <2>5, SMTT(60)
    <2> QED
      BY <2>1, <2>3, <2>6, ZenonT(60)
  <1>3. ASSUME NEW b \in LevelBitmap(bits, j)
        PROVE  b \in (shifted \cup finer) \cap LevelBlockMask(j)
    <2>1. b \in LevelBlockMask(j) /\ Occupied(j, b) \cap bits # {}
      BY ZenonT(60) DEF LevelBitmap
    <2>2. PICK x \in bits : x \in Occupied(j + 1, b) \cup Occupied(j + 1, b + shift)
      BY <1>2, <2>1, ZenonT(60)
    <2>3. CASE x \in Occupied(j + 1, b)
      <3>1. b \in finer
        BY <1>2, <2>1, <2>2, <2>3, ZenonT(60) DEF LevelBitmap
      <3> QED
        BY <2>1, <3>1, ZenonT(60)
    <2>4. CASE x \in Occupied(j + 1, b + shift)
      <3>1. x \in b + shift .. b + shift + shift - 1 /\ x \in Bit /\ b \in Nat
        BY <1>2, <2>1, <2>2, <2>4, ZenonT(60) DEF Occupied, shift
      <3>2. b + shift \in Bit
        BY <1>1, <3>1, SMTT(60) DEF Bit
      <3>3. b + shift \in finer
        BY <1>2, <2>1, <2>2, <2>4, <3>2, ZenonT(60) DEF LevelBitmap
      <3>4. (b + shift) - shift = b /\ b + shift >= shift
        BY <1>1, <3>1, SMTT(60)
      <3>5. b \in shifted
        BY <3>3, <3>4, ZenonT(60)
      <3> QED
        BY <2>1, <3>5, ZenonT(60)
    <2> QED
      BY <2>2, <2>3, <2>4, ZenonT(60)
  <1>4. ASSUME NEW b \in (shifted \cup finer) \cap LevelBlockMask(j)
        PROVE  b \in LevelBitmap(bits, j)
    <2>1. b \in LevelBlockMask(j) /\ (b \in shifted \/ b \in finer)
      BY ZenonT(60)
    <2>2. CASE b \in finer
      <3>1. Occupied(j + 1, b) \cap bits # {}
        BY <2>2, ZenonT(60) DEF LevelBitmap
      <3>2. Occupied(j, b) \cap bits # {}
        BY <1>2, <2>1, <3>1, ZenonT(60)
      <3> QED
        BY <2>1, <3>2, ZenonT(60) DEF LevelBitmap
    <2>3. CASE b \in shifted
      <3>1. PICK c \in finer : c >= shift /\ b = c - shift
        BY <2>3, ZenonT(60)
      <3>2. c \in Bit /\ Occupied(j + 1, c) \cap bits # {}
        BY ZenonT(60) DEF LevelBitmap, LevelBlockMask
      <3>3. c = b + shift
        BY <1>1, <3>1, <3>2, SMTT(60) DEF Bit
      <3>4. Occupied(j, b) \cap bits # {}
        BY <1>2, <2>1, <3>2, <3>3, ZenonT(60)
      <3> QED
        BY <2>1, <3>4, ZenonT(60) DEF LevelBitmap
    <2> QED
      BY <2>1, <2>2, <2>3, ZenonT(60)
  <1>5. LevelBitmap(bits, j) = (shifted \cup finer) \cap LevelBlockMask(j)
    BY <1>3, <1>4, ZenonT(60)
  <1> QED
    BY <1>5, ZenonT(60) DEF shift

(* What the code computes round by round is the bitmap of the level.         *)
LEMMA FoldedIsLevelBitmap ==
    ASSUME NEW bits \in SUBSET Bit, NEW level \in Level
    PROVE  Folded(bits, level) = LevelBitmap(bits, level)
  <1> DEFINE Round(f, j) ==
               IF j = LevelCount - 1 THEN bits
               ELSE ({b - Width[j + 1] : b \in {c \in f[j + 1] : c >= Width[j + 1]}} \cup f[j + 1])
                        \cap LevelBlockMask(j)
             Fold == CHOOSE f : f = [j \in Level |-> Round(f, j)]
             used == [j \in Level |-> LevelBitmap(bits, j)]
  <1>1. Folded(bits, level) = Fold[level]
    BY ZenonT(60) DEF Folded
  <1>2. ASSUME NEW j \in Level PROVE Round(used, j) = LevelBitmap(bits, j)
    <2>1. CASE j = LevelCount - 1
      <3>1. Width[j] = 1
        BY <2>1, WidthHalves, ZenonT(60)
      <3>2. LevelBlockMask(j) = Bit /\ \A b \in Bit : Occupied(j, b) = {b}
        BY <3>1, SMTT(60) DEF LevelBlockMask, Occupied, Bit
      <3>3. \A b \in Bit : {b} \cap bits # {} <=> b \in bits
        BY ZenonT(60)
      <3>4. LevelBitmap(bits, j) = {b \in Bit : {b} \cap bits # {}}
        BY <3>2, ZenonT(60) DEF LevelBitmap
      <3> QED
        BY <2>1, <3>3, <3>4, ZenonT(60)
    <2>2. CASE j # LevelCount - 1
      <3>1. j + 1 \in Level
        BY <2>2, LevelCountAssumption, SMTT(60) DEF Level
      <3>2. used[j + 1] = LevelBitmap(bits, j + 1)
        BY <3>1, ZenonT(60)
      <3> QED
        BY <2>2, <3>2, FoldOnce, ZenonT(60)
    <2> QED
      BY <2>1, <2>2, ZenonT(60)
  <1>3. used = [j \in Level |-> Round(used, j)]
    BY <1>2, ZenonT(60)
  <1>4. Fold = [j \in Level |-> Round(Fold, j)]
    BY <1>3, ZenonT(60)
  <1> HIDE DEF Fold
  <1> DEFINE T == {n \in Nat : n < LevelCount /\ Fold[LevelCount - 1 - n] # used[LevelCount - 1 - n]}
  <1>5. T = {}
    <2> SUFFICES ASSUME T # {} PROVE FALSE
      BY ZenonT(60)
    <2>1. PICK n \in T : \A m \in T : n <= m
      <3>1. T \subseteq Nat
        BY ZenonT(60)
      <3> HIDE DEF T
      <3> QED
        BY <3>1, FirstOf, ZenonT(60)
    <2> DEFINE j == LevelCount - 1 - n
    <2>2. j \in Level /\ Fold[j] # used[j]
      BY <2>1, LevelCountAssumption, SMTT(60) DEF Level
    <2>3. Fold[j] = Round(Fold, j) /\ used[j] = Round(used, j)
      BY <1>3, <1>4, <2>2, ZenonT(60)
    <2>4. CASE n = 0
      BY <2>2, <2>3, <2>4, LevelCountAssumption, SMTT(60)
    <2>5. CASE n # 0
      <3>1. n - 1 \in Nat /\ n - 1 < LevelCount /\ ~(n <= n - 1) /\ LevelCount - 1 - (n - 1) = j + 1
        BY <2>5, LevelCountAssumption, SMTT(60)
      <3>2. n - 1 \notin T
        BY <2>1, <3>1, ZenonT(60)
      <3>3. Fold[j + 1] = used[j + 1]
        BY <3>1, <3>2, ZenonT(60)
      <3> QED
        BY <2>2, <2>3, <3>3, ZenonT(60)
    <2> QED
      BY <2>4, <2>5, ZenonT(60)
  <1>6. /\ LevelCount - 1 - level \in Nat /\ LevelCount - 1 - level < LevelCount
        /\ LevelCount - 1 - (LevelCount - 1 - level) = level
    BY LevelCountAssumption, SMTT(60) DEF Level
  <1>7. Fold[level] = used[level]
    BY <1>5, <1>6, ZenonT(60)
  <1> QED
    BY <1>1, <1>7, ZenonT(60)

-----------------------------------------------------------------------------
(* The scan for a page                                                       *)

Full(page, level) == LevelBitmap(bitmap[page], level) = LevelBlockMask(level)

(* What a scan that no Free has crossed knows: the word it looks at has only *)
(* gained bits since, and in the second scan no page before its own has room.*)
Scanned(p) ==
    /\ call[p].bits \subseteq Bit
    /\ call[p].calm =>
        /\ call[p].pc = "cas" => call[p].bits \subseteq bitmap[call[p].page]
        /\ call[p].pc \in {"load", "cas"} /\ call[p].scan = 1 =>
            \A page \in Page : page < call[p].page => Full(page, call[p].level)
        /\ call[p].pc = "failed" => \A page \in Page : Full(page, call[p].level)

ScanInv ==
    /\ \A page \in Page : bitmap[page] \subseteq Bit
    /\ \A p \in Proc : Scanned(p)

(* Bits that are added leave a full page full.                               *)
LEMMA FullStays ==
    ASSUME NEW a, NEW b, a \subseteq b, NEW level, LevelBitmap(a, level) = LevelBlockMask(level)
    PROVE  LevelBitmap(b, level) = LevelBlockMask(level)
  BY ZenonT(60) DEF LevelBitmap

(* A step that clears no bit leaves alone what the other processes know.     *)
LEMMA OthersScan ==
    ASSUME ScanInv, IInv, NEW p \in Proc, NEW q \in Proc, call'[q] = call[q],
           \A page \in Page : bitmap[page] \subseteq bitmap'[page]
    PROVE  Scanned(q)'
  <1>1. Scanned(q) /\ (call[q].pc = "cas" => call[q].page \in Page)
    BY ZenonT(60) DEF ScanInv, IInv, PagesExist
  <1>2. ASSUME NEW page \in Page, Full(page, call[q].level) PROVE Full(page, call[q].level)'
    <2>1. bitmap[page] \subseteq bitmap'[page]
      BY ZenonT(60)
    <2>2. LevelBitmap(bitmap'[page], call[q].level) = LevelBlockMask(call[q].level)
      BY <1>2, <2>1, FullStays, SMTT(60) DEF Full
    <2> QED
      BY <2>2, ZenonT(60) DEF Full
  <1> QED
    BY <1>1, <1>2, ZenonT(60) DEF Scanned

(* The steps that change no word.                                            *)
LEMMA ScanLocal ==
    ASSUME IInv, ScanInv, NEW p \in Proc, UNCHANGED bitmap,
           \A q \in Proc : q # p => call'[q] = call[q],
           Scanned(p)'
    PROVE  ScanInv'
  <1>1. \A page \in Page : bitmap[page] \subseteq bitmap'[page]
    BY ZenonT(60)
  <1>2. \A q \in Proc : q # p => Scanned(q)'
    BY <1>1, OthersScan, ZenonT(60)
  <1> QED
    BY <1>2, ZenonT(60) DEF ScanInv

LEMMA ScanSteps ==
    ASSUME IInv, IInv', ScanInv, NEW p \in Proc,
           \/ \E size \in Size : Malloc(p, size) \/ MallocTooLarge(p, size)
           \/ LoadPage(p) \/ SecondScan(p) \/ CannotFind(p) \/ NextPage(p) \/ CasFails(p)
           \/ RenewHint(p) \/ RenewHintInSecondScan(p) \/ WriteHeader(p) \/ ReturnNull(p)
           \/ \E block \in held : Free(p, block)
           \/ LoadFreeHint(p) \/ LowerHint(p)
    PROVE  ScanInv'
  <1>1. /\ call \in [Proc -> Call] /\ call[p] \in Call /\ Scanned(p)
        /\ call[p].pc = "cas" => call[p].page \in Page
    BY ZenonT(60) DEF IInv, Types, ScanInv, PagesExist
  <1>2. Idle.pc = "idle" /\ Idle.bits = {} /\ Idle.scan = 0
    BY ZenonT(60) DEF Idle
  <1>3. CASE \E size \in Size : Malloc(p, size) \/ MallocTooLarge(p, size)
    <2>1. /\ UNCHANGED bitmap /\ \A q \in Proc : q # p => call'[q] = call[q]
          /\ call'[p].bits = {} /\ call'[p].pc \in {"load", "refused"} /\ call'[p].scan = 0
      <3>1. PICK after : /\ UNCHANGED bitmap /\ call' = [call EXCEPT ![p] = after]
                         /\ after.bits = {} /\ after.pc \in {"load", "refused"} /\ after.scan = 0
        <4>1. CASE \E size \in Size : Malloc(p, size)
          <5>1. PICK level \in Level :
                  call' = [call EXCEPT ![p] = [Idle EXCEPT !.pc = "load", !.level = level,
                                                           !.start = hint[level], !.page = hint[level]]]
            BY <4>1, ZenonT(60) DEF Malloc
          <5> DEFINE after == [Idle EXCEPT !.pc = "load", !.level = level, !.start = hint[level],
                                           !.page = hint[level]]
          <5>2. after.bits = {} /\ after.pc = "load" /\ after.scan = 0
            BY ZenonT(60) DEF Idle
          <5> QED
            BY <4>1, <5>1, <5>2, ZenonT(60) DEF Malloc
        <4>2. CASE \E size \in Size : MallocTooLarge(p, size)
          <5> DEFINE after == [Idle EXCEPT !.pc = "refused"]
          <5>1. after.bits = {} /\ after.pc = "refused" /\ after.scan = 0
            BY ZenonT(60) DEF Idle
          <5> QED
            BY <4>2, <5>1, ZenonT(60) DEF MallocTooLarge
        <4> QED
          BY <1>3, <4>1, <4>2, ZenonT(60)
      <3> QED
        BY <1>1, <3>1, ZenonT(60)
    <2>2. Scanned(p)'
      BY <2>1, SMTT(60) DEF Scanned
    <2> QED
      BY <2>1, <2>2, ScanLocal, ZenonT(60)
  <1>4. CASE LoadPage(p)
    <2>1. /\ UNCHANGED bitmap /\ \A q \in Proc : q # p => call'[q] = call[q]
          /\ call'[p].bits = bitmap[call[p].page] /\ call'[p].pc = "cas" /\ call[p].pc = "load"
          /\ call'[p].scan = call[p].scan /\ call'[p].page = call[p].page
          /\ call'[p].level = call[p].level /\ call'[p].calm = call[p].calm
      BY <1>1, <1>4, ZenonT(60) DEF LoadPage, At, Call
    <2>2. call[p].page \in Page
      BY <2>1, ZenonT(60) DEF IInv, PagesExist
    <2>3. Scanned(p)'
      BY <1>1, <2>1, <2>2, ZenonT(60) DEF ScanInv, Scanned, Full
    <2> QED
      BY <2>1, <2>3, ScanLocal, ZenonT(60)
  <1>5. CASE SecondScan(p)
    <2>1. /\ UNCHANGED bitmap /\ \A q \in Proc : q # p => call'[q] = call[q]
          /\ call'[p].bits = call[p].bits /\ call'[p].pc = "load" /\ call'[p].page = 0
      BY <1>1, <1>5, ZenonT(60) DEF SecondScan, At, Call
    <2>2. Scanned(p)'
      BY <1>1, <2>1, PageCountAssumption, SMTT(60) DEF Scanned, Page
    <2> QED
      BY <2>1, <2>2, ScanLocal, ZenonT(60)
  <1>6. CASE CannotFind(p)
    <2>1. /\ UNCHANGED bitmap /\ \A q \in Proc : q # p => call'[q] = call[q]
          /\ call'[p].bits = call[p].bits /\ call'[p].pc = "failed" /\ call[p].pc = "load"
          /\ call[p].scan = 1 /\ call[p].page >= PageCount
          /\ call'[p].level = call[p].level /\ call'[p].calm = call[p].calm
      BY <1>1, <1>6, ZenonT(60) DEF CannotFind, At, Call
    <2>2. \A page \in Page : page < call[p].page
      BY <1>1, <2>1, PageCountAssumption, SMTT(60) DEF Page, Call
    <2>3. Scanned(p)'
      BY <1>1, <2>1, <2>2, ZenonT(60) DEF Scanned, Full
    <2> QED
      BY <2>1, <2>3, ScanLocal, ZenonT(60)
  <1>7. CASE NextPage(p)
    <2>1. /\ UNCHANGED bitmap /\ \A q \in Proc : q # p => call'[q] = call[q]
          /\ call'[p].bits = {} /\ call'[p].pc = "load" /\ call[p].pc = "cas"
          /\ call'[p].scan = call[p].scan /\ call'[p].page = call[p].page + 1
          /\ call'[p].level = call[p].level /\ call'[p].calm = call[p].calm
          /\ FreeBlocks(p) = {}
      BY <1>1, <1>7, ZenonT(60) DEF NextPage, At, Call
    <2>2. LevelBitmap(call[p].bits, call[p].level) = LevelBlockMask(call[p].level)
      BY <2>1, ZenonT(60) DEF FreeBlocks, LevelBitmap
    <2>3. call[p].calm => Full(call[p].page, call[p].level)
      <3>1. call[p].calm => call[p].bits \subseteq bitmap[call[p].page]
        BY <1>1, <2>1, ZenonT(60) DEF Scanned
      <3> QED
        BY <2>2, <3>1, FullStays, ZenonT(60) DEF Full
    <2>4. \A page \in Page : page < call[p].page + 1 <=> page < call[p].page \/ page = call[p].page
      BY <1>1, <2>1, SMTT(60) DEF Page
    <2>5. Scanned(p)'
      BY <1>1, <2>1, <2>3, <2>4, SMTT(60) DEF Scanned, Full
    <2> QED
      BY <2>1, <2>5, ScanLocal, ZenonT(60)
  <1>8. CASE CasFails(p)
    <2>1. /\ UNCHANGED bitmap /\ \A q \in Proc : q # p => call'[q] = call[q]
          /\ call'[p].bits = bitmap[call[p].page] /\ call'[p].pc = "cas" /\ call[p].pc = "cas"
          /\ call'[p].scan = call[p].scan /\ call'[p].page = call[p].page
          /\ call'[p].level = call[p].level /\ call'[p].calm = call[p].calm
      <3>1. PICK bit : /\ UNCHANGED bitmap /\ call[p].pc = "cas"
                       /\ call' = [call EXCEPT ![p].bits = bitmap[call[p].page],
                                               ![p].full = PageIsFull(p, bit)]
        BY <1>8, ZenonT(60) DEF CasFails, At
      <3> QED
        BY <1>1, <3>1, ZenonT(60) DEF Call
    <2>2. Scanned(p)'
      BY <1>1, <2>1, ZenonT(60) DEF ScanInv, Scanned, Full
    <2> QED
      BY <2>1, <2>2, ScanLocal, ZenonT(60)
  <1>9. CASE RenewHint(p) \/ RenewHintInSecondScan(p)
    <2>1. /\ UNCHANGED bitmap /\ \A q \in Proc : q # p => call'[q] = call[q]
          /\ call'[p].bits = call[p].bits /\ call'[p].pc \in {"header", "lower_malloc"}
      BY <1>1, <1>9, SMTT(60) DEF RenewHint, RenewHintInSecondScan, At, Call
    <2>2. Scanned(p)'
      BY <1>1, <2>1, ZenonT(60) DEF Scanned
    <2> QED
      BY <2>1, <2>2, ScanLocal, ZenonT(60)
  <1>10. CASE WriteHeader(p) \/ ReturnNull(p)
    <2>1. /\ UNCHANGED bitmap /\ \A q \in Proc : q # p => call'[q] = call[q]
          /\ call'[p] = Idle
      BY <1>1, <1>10, ZenonT(60) DEF WriteHeader, ReturnNull
    <2>2. Scanned(p)'
      BY <1>2, <2>1, ZenonT(60) DEF Scanned
    <2> QED
      BY <2>1, <2>2, ScanLocal, ZenonT(60)
  <1>11. CASE \E block \in held : Free(p, block)
    <2>1. /\ UNCHANGED bitmap /\ \A q \in Proc : q # p => call'[q] = call[q]
          /\ call'[p].bits = {} /\ call'[p].pc = "clear"
      <3>1. PICK after : /\ UNCHANGED bitmap /\ call' = [call EXCEPT ![p] = after]
                         /\ after.bits = {} /\ after.pc = "clear"
        <4>1. PICK block \in held : Free(p, block)
          BY <1>11, ZenonT(60)
        <4> DEFINE after == [Idle EXCEPT !.pc = "clear", !.page = block.page, !.bit = block.bit,
                                         !.level = hdr[block.page][block.bit]]
        <4>2. after.bits = {} /\ after.pc = "clear"
          BY ZenonT(60) DEF Idle
        <4> QED
          BY <4>1, <4>2, ZenonT(60) DEF Free
      <3> QED
        BY <1>1, <3>1, ZenonT(60)
    <2>2. Scanned(p)'
      BY <2>1, ZenonT(60) DEF Scanned
    <2> QED
      BY <2>1, <2>2, ScanLocal, ZenonT(60)
  <1>12. CASE LowerHint(p)
    <2>1. /\ UNCHANGED bitmap /\ \A q \in Proc : q # p => call'[q] = call[q]
          /\ call'[p].bits \in {{}, call[p].bits}
          /\ call'[p].pc \in {"idle", "header", "lower_malloc", "lower_free"}
      BY <1>1, <1>12, ZenonT(60) DEF LowerHint, Idle, Call
    <2>2. Scanned(p)'
      BY <1>1, <2>1, ZenonT(60) DEF Scanned
    <2> QED
      BY <2>1, <2>2, ScanLocal, ZenonT(60)
  <1>13. CASE LoadFreeHint(p)
    <2>1. /\ UNCHANGED bitmap /\ \A q \in Proc : q # p => call'[q] = call[q]
          /\ call'[p].bits = call[p].bits /\ call'[p].pc = "lower_free"
      BY <1>1, <1>13, ZenonT(60) DEF LoadFreeHint, Call
    <2>2. Scanned(p)'
      BY <1>1, <2>1, ZenonT(60) DEF Scanned
    <2> QED
      BY <2>1, <2>2, ScanLocal, ZenonT(60)
  <1> QED
    BY <1>3, <1>4, <1>5, <1>6, <1>7, <1>8, <1>9, <1>10, <1>11, <1>12, <1>13, ZenonT(60)

(* The exchange adds the bits of a block that lies within its page.          *)
LEMMA ScanCas ==
    ASSUME IInv, ScanInv, NEW p \in Proc, CasSucceeds(p)
    PROVE  ScanInv'
  <1>1. PICK bit \in FreeBlocks(p) :
          /\ bitmap' = [bitmap EXCEPT ![call[p].page] = @ \cup Occupied(call[p].level, bit)]
          /\ call' = [call EXCEPT ![p].pc = "hint", ![p].bits = {}, ![p].bit = bit,
                                  ![p].full = PageIsFull(p, bit)]
    BY ZenonT(60) DEF CasSucceeds
  <1>2. call \in [Proc -> Call] /\ call[p].level \in Level /\ bitmap \in [Page -> SUBSET Nat]
    BY ZenonT(60) DEF IInv, Types, Call
  <1>3. Occupied(call[p].level, bit) \subseteq Bit
    BY <1>2, BlockInPage, ZenonT(60) DEF FreeBlocks
  <1>4. \A page \in Page : bitmap[page] \subseteq bitmap'[page] /\ bitmap'[page] \subseteq Bit
    BY <1>1, <1>2, <1>3, ZenonT(60) DEF ScanInv
  <1>5. /\ \A q \in Proc : q # p => call'[q] = call[q]
        /\ call'[p].pc = "hint" /\ call'[p].bits = {}
    BY <1>1, <1>2, SMTT(60) DEF Call
  <1>6. \A q \in Proc : q # p => Scanned(q)'
    BY <1>4, <1>5, OthersScan, ZenonT(60)
  <1>7. Scanned(p)'
    BY <1>5, ZenonT(60) DEF Scanned
  <1> QED
    BY <1>4, <1>6, <1>7, ZenonT(60) DEF ScanInv

(* A fetch-and crosses every call under way: none of them is calm any more.  *)
LEMMA ScanClear ==
    ASSUME IInv, ScanInv, NEW p \in Proc, ClearBits(p)
    PROVE  ScanInv'
  <1>1. call \in [Proc -> Call] /\ bitmap \in [Page -> SUBSET Nat]
    BY ZenonT(60) DEF IInv, Types
  <1>2. \A page \in Page : bitmap'[page] \subseteq bitmap[page]
    BY <1>1, ZenonT(60) DEF ClearBits
  <1>3. ASSUME NEW q \in Proc
        PROVE  /\ call'[q].bits = call[q].bits
               /\ call'[q].pc \in {"freed", "idle"} \/ call'[q].calm = FALSE
    <2>1. CASE q = p
      BY <1>1, <2>1, ZenonT(60) DEF ClearBits, Call
    <2>2. CASE q # p
      BY <1>1, <2>2, ZenonT(60) DEF ClearBits, Call
    <2> QED
      BY <2>1, <2>2, ZenonT(60)
  <1>4. \A q \in Proc : Scanned(q)'
    BY <1>3, ZenonT(60) DEF ScanInv, Scanned
  <1> QED
    BY <1>2, <1>4, ZenonT(60) DEF ScanInv

THEOREM ScanInvariant == Spec => []ScanInv
  <1>1. Init => ScanInv
    <2> SUFFICES ASSUME Init PROVE ScanInv
      BY ZenonT(60)
    <2>1. \A page \in Page : bitmap[page] = {}
      BY ZenonT(60) DEF Init
    <2>2. \A p \in Proc : call[p].pc = "idle" /\ call[p].bits = {}
      BY ZenonT(60) DEF Init, Idle
    <2> QED
      BY <2>1, <2>2, ZenonT(60) DEF ScanInv, Scanned
  <1>2. ASSUME IInv, IInv', ScanInv, [Next]_vars PROVE ScanInv'
    <2>1. CASE UNCHANGED vars
      BY <1>2, <2>1, ZenonT(60) DEF vars, ScanInv, Scanned, Full
    <2>2. ASSUME NEW p \in Proc, Step(p) PROVE ScanInv'
      BY <1>2, <2>2, ScanSteps, ScanCas, ScanClear, ZenonT(60) DEF Step
    <2> QED
      BY <1>2, <2>1, <2>2, ZenonT(60) DEF Next
  <1> QED
    BY <1>1, <1>2, AllocatorInvariant, PTL DEF Spec

(* A caller that no Free has crossed is refused only when no page has room   *)
(* for its block, wherever the hints point and however many exchanges were   *)
(* lost to other processes.                                                  *)
THEOREM RefusedMeansFull == Spec => []RefusedOnlyWhenFull
  <1>1. ScanInv => RefusedOnlyWhenFull
    BY ZenonT(60) DEF ScanInv, Scanned, Full, RefusedOnlyWhenFull
  <1> QED
    BY <1>1, ScanInvariant, PTL

(* The shifts and masks of Malloc, over any word it can have read and for    *)
(* any number of levels, find the blocks of a level that have a used bit.    *)
THEOREM FoldingIsCorrect == Spec => []FoldingCorrect
  <1>1. ScanInv /\ IInv => FoldingCorrect
    <2> SUFFICES ASSUME ScanInv, IInv, NEW p \in Proc
                 PROVE  Folded(call[p].bits, call[p].level) = LevelBitmap(call[p].bits, call[p].level)
      BY ZenonT(60) DEF FoldingCorrect
    <2>1. call[p].bits \in SUBSET Bit /\ call[p].level \in Level
      BY ZenonT(60) DEF ScanInv, Scanned, IInv, Types, Call
    <2> QED
      BY <2>1, FoldedIsLevelBitmap, ZenonT(60)
  <1> QED
    BY <1>1, ScanInvariant, AllocatorInvariant, PTL
=============================================================================
