---------------------------- MODULE StorageProofs ----------------------------
(***************************************************************************)
(* Proofs about the Storage, for any number of File:Tags, blocks and       *)
(* contents.  Of requests served one after the other: the blocks are       *)
(* accounted for, the hash index is current, committed data stays, and     *)
(* blocks are shared unseen.  Of requests served at the same time, for     *)
(* any number of Workers: how far each request is, and that the mutexes    *)
(* are released.                                                           *)
(***************************************************************************)
EXTENDS MCStorage, StorageThreads, ListLemmas, FiniteSetTheorems

\* The constants are numbers, and block 0 exists.
LEMMA Numbers ==
    /\ MaxBlocks \in Nat /\ 1 \in LogicalBlocks
    /\ PhysicalBlocks \in Nat /\ 0 \in Blocks
    /\ Blocks \subseteq Nat /\ LogicalBlocks \subseteq Nat
    /\ NoBlock \notin Blocks /\ NoBlock # 0
    /\ Blocks \subseteq 0..BitmapBits - 1
    /\ BitmapBits \in Nat
BY StorageAssumption DEF Blocks, LogicalBlocks

-----------------------------------------------------------------------------
(* Hard links.                                                             *)

\* The links to p in theLinks.
LinksTo(p, theLinks) ==
    {ti \in FileTags \X LogicalBlocks : theLinks[ti[1]][ti[2]] = p}

\* The links to a block are finitely many.
LEMMA LinksFinite ==
    ASSUME NEW p, NEW theLinks
    PROVE  /\ IsFiniteSet(LinksTo(p, theLinks))
           /\ Cardinality(LinksTo(p, theLinks)) \in Nat
<1>1. IsFiniteSet(LogicalBlocks)
  BY Numbers, FS_Interval DEF LogicalBlocks
<1>2. IsFiniteSet(FileTags \X LogicalBlocks)
  BY <1>1, StorageAssumption, FS_Product
<1>3. LinksTo(p, theLinks) \in SUBSET (FileTags \X LogicalBlocks)
  BY DEF LinksTo
<1>4. IsFiniteSet(LinksTo(p, theLinks))
  BY <1>2, <1>3, FS_Subset
<1> QED
  BY <1>4, FS_CardinalityType

\* st_nlink is 1 when no logical block is a link to the physical one.
LEMMA OwnNameOnly ==
    ASSUME NEW p, NEW theLinks
    PROVE  ph_block_links(p, theLinks) = 1 <=>
               \A t \in FileTags, i \in LogicalBlocks : theLinks[t][i] # p
<1>1. ph_block_links(p, theLinks) = 1 + Cardinality(LinksTo(p, theLinks))
  BY DEF ph_block_links, LinksTo
<1>2. ph_block_links(p, theLinks) = 1 <=> LinksTo(p, theLinks) = {}
  BY <1>1, LinksFinite, FS_EmptySet
<1>3. LinksTo(p, theLinks) = {} <=>
        \A t \in FileTags, i \in LogicalBlocks : theLinks[t][i] # p
  <2>1. ASSUME NEW t \in FileTags, NEW i \in LogicalBlocks, theLinks[t][i] = p
        PROVE  <<t, i>> \in LinksTo(p, theLinks)
    BY <2>1 DEF LinksTo
  <2>2. ASSUME NEW ti \in LinksTo(p, theLinks)
        PROVE  ti[1] \in FileTags /\ ti[2] \in LogicalBlocks /\ theLinks[ti[1]][ti[2]] = p
    BY DEF LinksTo
  <2> QED
    BY <2>1, <2>2
<1> QED
  BY <1>2, <1>3

\* A block that is not shared has at most one link.
LEMMA NotShared ==
    ASSUME NEW p, ~Shared(p),
           NEW t \in FileTags, NEW i \in LogicalBlocks, links[t][i] = p,
           NEW u \in FileTags, NEW j \in LogicalBlocks, links[u][j] = p
    PROVE  t = u /\ i = j
<1> DEFINE L == LinksTo(p, links)
<1>1. ph_block_links(p, links) = 1 + Cardinality(L)
  BY DEF ph_block_links, LinksTo
<1>2. IsFiniteSet(L) /\ Cardinality(L) \in Nat
  BY LinksFinite
<1>3. <<t, i>> \in L /\ <<u, j>> \in L
  BY DEF LinksTo
<1>4. Cardinality(L) # 0
  BY <1>2, <1>3, FS_EmptySet
<1>5. Cardinality(L) = 1
  BY <1>1, <1>2, <1>4 DEF Shared
<1>6. PICK x : L = {x}
  BY <1>2, <1>5, FS_Singleton
<1> QED
  BY <1>3, <1>6

-----------------------------------------------------------------------------
(* The loop of deduplicate_blocks.                                         *)

\* The disk before the loop.
LoopStart(t) ==
    [links |-> links, blocks |-> metadata[t].blocks,
     index |-> hash_index, bitmap |-> bitmap, failed |-> FALSE]

\* f is the disk after each turn of the loop.
IsLoop(t, f, n) ==
    f = [i \in 0..n |->
           IF i = 0 THEN LoopStart(t) ELSE DeduplicateBlock(t, f[i - 1], i)]

\* The turns of the loop exist, however many they are.
LEMMA LoopExists ==
    ASSUME NEW t, NEW n \in Nat
    PROVE  \E f : IsLoop(t, f, n)
<1> DEFINE Bad == {k \in Nat : ~ \E f : IsLoop(t, f, k)}
<1>1. CASE Bad = {}
  BY <1>1
<1>2. CASE Bad # {}
  <2>1. PICK m \in Bad : \A y \in Bad : m <= y
    BY <1>2, MinOfNaturals
  <2>2. m \in Nat /\ ~ \E f : IsLoop(t, f, m)
    BY <2>1
  <2>3. CASE m = 0
    <3>1. IsLoop(t, [i \in 0..0 |-> LoopStart(t)], 0)
      BY DEF IsLoop
    <3> QED
      BY <2>2, <2>3, <3>1
  <2>4. CASE m # 0
    <3>1. m - 1 \in Nat /\ m - 1 \notin Bad
      BY <2>1, <2>2, <2>4
    <3>2. PICK f : IsLoop(t, f, m - 1)
      BY <3>1
    <3> DEFINE g == [i \in 0..m |-> IF i < m THEN f[i]
                                             ELSE DeduplicateBlock(t, f[m - 1], m)]
    <3>3. \A i \in 0..m - 1 : g[i] = f[i]
      BY <2>2
    <3>4. \A i \in 0..m - 1 :
             f[i] = IF i = 0 THEN LoopStart(t) ELSE DeduplicateBlock(t, f[i - 1], i)
      BY <3>2 DEF IsLoop
    <3>5. ASSUME NEW i \in 0..m
          PROVE  g[i] = IF i = 0 THEN LoopStart(t) ELSE DeduplicateBlock(t, g[i - 1], i)
      <4>1. CASE i = m
        <5>1. g[m - 1] = f[m - 1]
          BY <3>1, <3>3, <2>2
        <5>2. g[m] = DeduplicateBlock(t, f[m - 1], m)
          BY <2>2
        <5> HIDE DEF g
        <5> QED
          BY <4>1, <2>4, <5>1, <5>2
      <4>2. CASE i # m
        <5>1. i \in 0..m - 1 /\ (i # 0 => i - 1 \in 0..m - 1)
          BY <4>2, <2>2
        <5>2. g[i] = f[i] /\ (i # 0 => g[i - 1] = f[i - 1])
          BY <5>1, <3>3
        <5> HIDE DEF g
        <5> QED
          BY <5>1, <5>2, <3>4
      <4> QED
        BY <4>1, <4>2
    <3>6. g = [i \in 0..m |-> g[i]]
      OBVIOUS
    <3> HIDE DEF g
    <3>7. g = [i \in 0..m |->
                 IF i = 0 THEN LoopStart(t) ELSE DeduplicateBlock(t, g[i - 1], i)]
      BY <3>5, <3>6
    <3> QED
      BY <2>2, <3>7 DEF IsLoop
  <2> QED
    BY <2>3, <2>4
<1> QED
  BY <1>1, <1>2

\* deduplicate_blocks is the disk after the last turn.
LEMMA LoopRuns ==
    ASSUME NEW t, BlockCount(t) \in Nat
    PROVE  \E f : /\ f[0] = LoopStart(t)
                  /\ \A i \in 1..BlockCount(t) : f[i] = DeduplicateBlock(t, f[i - 1], i)
                  /\ deduplicate_blocks(t) = f[BlockCount(t)]
<1> DEFINE n == BlockCount(t)
<1> DEFINE F == CHOOSE f : IsLoop(t, f, n)
<1>1. IsLoop(t, F, n)
  BY LoopExists
<1>2. deduplicate_blocks(t) = F[n]
  BY DEF deduplicate_blocks, IsLoop, LoopStart
<1> HIDE DEF F
<1>3. \A i \in 0..n : F[i] = IF i = 0 THEN LoopStart(t) ELSE DeduplicateBlock(t, F[i - 1], i)
  BY <1>1 DEF IsLoop
<1>4. F[0] = LoopStart(t)
  BY <1>3
<1>5. \A i \in 1..n : F[i] = DeduplicateBlock(t, F[i - 1], i)
  BY <1>3
<1> QED
  BY <1>2, <1>4, <1>5

LinkMaps == [FileTags -> [LogicalBlocks -> Blocks \cup {NoBlock}]]

\* A disk the loop can be at.
LoopType(t, d) ==
    /\ d \in [links : LinkMaps, blocks : Seq(Blocks),
              index : [Contents -> Blocks \cup {NoBlock}],
              bitmap : SUBSET (0..BitmapBits - 1), failed : BOOLEAN]
    /\ Len(d.blocks) = BlockCount(t)
    /\ \A u \in FileTags \ {t} : d.links[u] = links[u]

\* What a File:Tag that exists has.
LEMMA FileType ==
    ASSUME TypeOK, NEW t \in FileTags, Exists(t)
    PROVE  /\ metadata[t] \in [blocks : Seq(Blocks), state : {"WORK_IN_PROGRESS", "COMMITTED"}]
           /\ metadata[t].blocks \in Seq(Blocks)
           /\ metadata[t] = [blocks |-> metadata[t].blocks, state |-> metadata[t].state]
           /\ BlockCount(t) \in Nat /\ BlockCount(t) <= MaxBlocks
           /\ 1..BlockCount(t) \subseteq LogicalBlocks
           /\ \A i \in 1..BlockCount(t) : metadata[t].blocks[i] \in Blocks
<1>1. /\ metadata[t] \in [blocks : Seq(Blocks), state : {"WORK_IN_PROGRESS", "COMMITTED"}]
      /\ Len(metadata[t].blocks) <= MaxBlocks
  BY DEF TypeOK, Exists
<1>2. /\ metadata[t].blocks \in Seq(Blocks)
      /\ metadata[t] = [blocks |-> metadata[t].blocks, state |-> metadata[t].state]
  BY <1>1
<1>3. BlockCount(t) \in Nat /\ BlockCount(t) <= MaxBlocks
  BY <1>1, <1>2, LenProperties DEF BlockCount
<1>4. 1..BlockCount(t) \subseteq LogicalBlocks
  BY <1>3, Numbers DEF LogicalBlocks
<1>5. \A i \in 1..BlockCount(t) : metadata[t].blocks[i] \in Blocks
  BY <1>2, ElementOfSeq DEF BlockCount
<1> QED
  BY <1>1, <1>2, <1>3, <1>4, <1>5

\* The outcomes of a turn of the loop.
LEMMA TurnOutcomes ==
    ASSUME TypeOK, NEW t \in FileTags, Exists(t), NEW d, LoopType(t, d),
           NEW i \in 1..BlockCount(t)
    PROVE  LET e == DeduplicateBlock(t, d, i)
               c == content[d.links[t][i]]
               old == d.blocks[i]
           IN  \/ /\ d.failed \/ d.links[t][i] = NoBlock
                  /\ e.failed = TRUE
                  /\ e.links = d.links /\ e.blocks = d.blocks
                  /\ e.index = d.index /\ e.bitmap = d.bitmap
                  /\ LoopType(t, e)
               \/ /\ ~d.failed /\ d.links[t][i] # NoBlock
                  /\ e.failed = FALSE
                  /\ d.index[c] = NoBlock
                  /\ e.index = [d.index EXCEPT ![c] = old]
                  /\ e.links = d.links /\ e.blocks = d.blocks /\ e.bitmap = d.bitmap
                  /\ LoopType(t, e)
               \/ /\ ~d.failed /\ d.links[t][i] # NoBlock
                  /\ d.index[c] = old
                  /\ e = d
               \/ /\ ~d.failed /\ d.links[t][i] # NoBlock
                  /\ e.failed = FALSE
                  /\ d.index[c] # NoBlock /\ d.index[c] # old
                  /\ e.links = [d.links EXCEPT ![t][i] = d.index[c]]
                  /\ e.blocks = [d.blocks EXCEPT ![i] = d.index[c]]
                  /\ e.index = d.index
                  /\ e.bitmap = IF ph_block_links(old, e.links) = 1
                                THEN d.bitmap \ {old} ELSE d.bitmap
                  /\ LoopType(t, e)
<1> DEFINE e == DeduplicateBlock(t, d, i)
           c == content[d.links[t][i]]
           old == d.blocks[i]
           r == d.index[c]
           newLinks == [d.links EXCEPT ![t][i] = r]
<1>1. /\ d.links \in LinkMaps /\ d.blocks \in Seq(Blocks)
      /\ d.index \in [Contents -> Blocks \cup {NoBlock}]
      /\ d.bitmap \in SUBSET (0..BitmapBits - 1) /\ d.failed \in BOOLEAN
      /\ Len(d.blocks) = BlockCount(t)
      /\ \A u \in FileTags \ {t} : d.links[u] = links[u]
      /\ d = [links |-> d.links, blocks |-> d.blocks, index |-> d.index,
              bitmap |-> d.bitmap, failed |-> d.failed]
  BY DEF LoopType
<1>2. i \in LogicalBlocks /\ old \in Blocks
  BY <1>1, FileType, ElementOfSeq
<1>3. d.links[t][i] # NoBlock => d.links[t][i] \in Blocks /\ c \in Contents
  BY <1>1, <1>2 DEF LinkMaps, TypeOK
<1>4. CASE d.failed \/ d.links[t][i] = NoBlock
  <2>1. e = [d EXCEPT !.failed = TRUE]
    BY <1>4 DEF DeduplicateBlock
  <2>2. e = [links |-> d.links, blocks |-> d.blocks, index |-> d.index,
             bitmap |-> d.bitmap, failed |-> TRUE]
    BY <1>1, <2>1
  <2> HIDE DEF e
  <2>3. LoopType(t, e)
    BY <1>1, <2>2 DEF LoopType
  <2> QED
    BY <1>4, <2>2, <2>3 DEF e
<1>5. CASE ~d.failed /\ d.links[t][i] # NoBlock /\ r = NoBlock
  <2>1. e = [d EXCEPT !.index[c] = old]
    BY <1>5 DEF DeduplicateBlock
  <2>2. e = [links |-> d.links, blocks |-> d.blocks, index |-> [d.index EXCEPT ![c] = old],
             bitmap |-> d.bitmap, failed |-> FALSE]
    BY <1>1, <1>5, <2>1
  <2>3. [d.index EXCEPT ![c] = old] \in [Contents -> Blocks \cup {NoBlock}]
    BY <1>1, <1>2
  <2> HIDE DEF e
  <2>4. LoopType(t, e)
    BY <1>1, <2>2, <2>3 DEF LoopType
  <2> QED
    BY <1>5, <2>2, <2>4 DEF e
<1>6. CASE ~d.failed /\ d.links[t][i] # NoBlock /\ r # NoBlock /\ r = old
  BY <1>6 DEF DeduplicateBlock
<1>7. CASE ~d.failed /\ d.links[t][i] # NoBlock /\ r # NoBlock /\ r # old
  <2> DEFINE b == IF ph_block_links(old, newLinks) = 1 THEN d.bitmap \ {old} ELSE d.bitmap
  <2>1. e = [d EXCEPT !.links = newLinks, !.blocks[i] = r, !.bitmap = b]
    BY <1>7 DEF DeduplicateBlock
  <2>2. e = [links |-> newLinks, blocks |-> [d.blocks EXCEPT ![i] = r], index |-> d.index,
             bitmap |-> b, failed |-> FALSE]
    BY <1>1, <1>7, <2>1
  <2>3. r \in Blocks
    BY <1>1, <1>3, <1>7
  <2>4. [d.blocks EXCEPT ![i] = r] \in Seq(Blocks) /\ Len([d.blocks EXCEPT ![i] = r]) = BlockCount(t)
    BY <1>1, <2>3, ExceptSeq
  <2>5. newLinks \in LinkMaps
    BY <1>1, <1>2, <2>3 DEF LinkMaps
  <2>U. \A u \in FileTags \ {t} : newLinks[u] = links[u]
    BY <1>1 DEF LinkMaps
  <2>6. b \in SUBSET (0..BitmapBits - 1)
    BY <1>1
  <2> HIDE DEF e, b, newLinks
  <2>7. LoopType(t, e)
    BY <1>1, <2>2, <2>4, <2>5, <2>U, <2>6 DEF LoopType
  <2>8. e.links = newLinks /\ e.bitmap = b /\ e.failed = FALSE /\ e.index = d.index
        /\ e.blocks = [d.blocks EXCEPT ![i] = r]
    BY <2>2
  <2>9. e.bitmap = IF ph_block_links(old, e.links) = 1 THEN d.bitmap \ {old} ELSE d.bitmap
    BY <2>8 DEF b
  <2> QED
    BY <1>7, <2>7, <2>8, <2>9 DEF e, newLinks
<1> HIDE DEF e, newLinks
<1> QED
  BY <1>1, <1>4, <1>5, <1>6, <1>7 DEF e, newLinks

\* COMMIT leaves links, blocks, an index and a bitmap of the right types.
LEMMA DeduplicatedType ==
    ASSUME TypeOK, NEW t \in FileTags, Exists(t)
    PROVE  LoopType(t, deduplicate_blocks(t))
<1>1. BlockCount(t) \in Nat /\ metadata[t].blocks \in Seq(Blocks)
  BY FileType
<1>2. PICK f : /\ f[0] = LoopStart(t)
               /\ \A i \in 1..BlockCount(t) : f[i] = DeduplicateBlock(t, f[i - 1], i)
               /\ deduplicate_blocks(t) = f[BlockCount(t)]
  BY <1>1, LoopRuns
<1>3. LoopType(t, LoopStart(t))
  BY <1>1 DEF LoopType, LoopStart, LinkMaps, TypeOK, BlockCount
<1> DEFINE Bad == {k \in Nat : k <= BlockCount(t) /\ ~LoopType(t, f[k])}
<1>4. CASE Bad = {}
  BY <1>1, <1>2, <1>4
<1>5. CASE Bad # {}
  <2>1. PICK m \in Bad : \A y \in Bad : m <= y
    BY <1>5, MinOfNaturals
  <2>2. m \in Nat /\ m <= BlockCount(t) /\ ~LoopType(t, f[m])
    BY <2>1
  <2>3. m # 0
    BY <1>2, <1>3, <2>2
  <2>4. m - 1 \in Nat /\ m - 1 <= BlockCount(t) /\ m \in 1..BlockCount(t) /\ m - 1 \notin Bad
    BY <1>1, <2>1, <2>2, <2>3
  <2>5. LoopType(t, f[m - 1])
    BY <2>4
  <2>6. LoopType(t, DeduplicateBlock(t, f[m - 1], m))
    BY <2>4, <2>5, TurnOutcomes
  <2> QED
    BY <1>2, <2>2, <2>4, <2>6
<1> QED
  BY <1>4, <1>5

-----------------------------------------------------------------------------
(* The invariant.                                                          *)

IsLinked(p, theLinks) ==
    \E t \in FileTags, i \in LogicalBlocks : theLinks[t][i] = p

\* The bits of the blocks that exist are those of the linked ones.
Marks(theBitmap, theLinks) ==
    \A p \in Blocks : p \in theBitmap <=> IsLinked(p, theLinks)

\* A committed File:Tag has a link to p.
Frozen(p) ==
    \E t \in FileTags, i \in LogicalBlocks : Closed(t) /\ links[t][i] = p

\* initial_file:BASE stays: one block, of zeros.
BaseKept ==
    /\ metadata[Protected] = [blocks |-> <<0>>, state |-> "COMMITTED"]
    /\ links[Protected][1] = 0

\* A block in the index holds its content, and a committed File:Tag has a
\* link to it, so it is not written any more.
IndexSound ==
    \A c \in Contents :
        hash_index[c] # NoBlock => content[hash_index[c]] = c /\ Frozen(hash_index[c])

\* What holds until a COMMIT fails halfway, if committed File:Tags are left
\* alone.
Sound ==
    /\ BaseKept
    /\ Untorn
    /\ Marks(bitmap, links)
    /\ content[0] = Zeros
    /\ IndexSound

StorageInv ==
    /\ TypeOK
    /\ full \in BOOLEAN /\ torn \in BOOLEAN
    /\ ~ChangeCommitted => /\ ~torn => Sound
                           /\ ~full => ~torn /\ LinksMatchMetadata

\* The bitmap is exact when its bits are those of the linked blocks.
LEMMA MarksExact ==
    ASSUME TypeOK
    PROVE  Marks(bitmap, links) <=> BitmapExact
<1>1. \A t \in FileTags, i \in LogicalBlocks : links[t][i] \in Blocks \cup {NoBlock}
  BY DEF TypeOK
<1>2. \A p \in Blocks : p \in Linked <=> IsLinked(p, links)
  <2>1. ASSUME NEW p \in Blocks, p \in Linked PROVE IsLinked(p, links)
    BY <2>1 DEF Linked, IsLinked
  <2>2. ASSUME NEW p \in Blocks, IsLinked(p, links) PROVE p \in Linked
    <3>1. PICK t \in FileTags, i \in LogicalBlocks : links[t][i] = p
      BY <2>2 DEF IsLinked
    <3>2. <<t, i>> \in FileTags \X LogicalBlocks /\ links[<<t, i>>[1]][<<t, i>>[2]] = p
      BY <3>1
    <3>3. p \in {links[ti[1]][ti[2]] : ti \in FileTags \X LogicalBlocks}
      BY <3>2
    <3> QED
      BY <3>3, Numbers DEF Linked
  <2> QED
    BY <2>1, <2>2
<1>3. Linked \subseteq Blocks
  BY <1>1 DEF Linked
<1> QED
  BY <1>2, <1>3 DEF Marks, BitmapExact

-----------------------------------------------------------------------------
(* What the loop of deduplicate_blocks keeps, up to block n.               *)

LoopInv(t, d, n) ==
    /\ LoopType(t, d)
    /\ \A k \in LogicalBlocks :
          IF links[t][k] = NoBlock
          THEN d.links[t][k] = NoBlock
          ELSE /\ d.links[t][k] # NoBlock
               /\ k <= BlockCount(t)
               /\ d.links[t][k] = d.blocks[k]
               /\ content[d.links[t][k]] = content[links[t][k]]
    /\ Marks(d.bitmap, d.links)
    /\ \A c \in Contents : d.index[c] # NoBlock =>
          /\ content[d.index[c]] = c
          /\ Frozen(d.index[c]) \/ \E k \in 1..n : d.links[t][k] = d.index[c]
    /\ d.failed <=> \E k \in 1..n : links[t][k] = NoBlock

\* One turn: the block is registered, or its link goes to a block with the
\* same content, and the old block is freed with its last link.
LEMMA TurnKeeps ==
    ASSUME TypeOK, Sound, NEW t \in FileTags, Exists(t), ~Committed(t),
           NEW d, NEW i \in 1..BlockCount(t), LoopInv(t, d, i - 1)
    PROVE  LoopInv(t, DeduplicateBlock(t, d, i), i)
<1> DEFINE e == DeduplicateBlock(t, d, i)
           c == content[d.links[t][i]]
           old == d.blocks[i]
<1>0. /\ LoopType(t, d) /\ i \in LogicalBlocks /\ i \in Nat /\ i - 1 \in Nat
      /\ 1..i = (1..i - 1) \cup {i}
      /\ 1..i \subseteq LogicalBlocks
  <2>1. BlockCount(t) \in Nat /\ 1..BlockCount(t) \subseteq LogicalBlocks
    BY FileType
  <2>2. i \in Nat /\ i - 1 \in Nat /\ 1..i = (1..i - 1) \cup {i} /\ 1..i \subseteq 1..BlockCount(t)
    BY <2>1
  <2>3. LoopType(t, d)
    BY DEF LoopInv
  <2> QED
    BY <2>1, <2>2, <2>3
<1>1. /\ d.links \in LinkMaps /\ d.blocks \in Seq(Blocks)
      /\ d.index \in [Contents -> Blocks \cup {NoBlock}]
      /\ Len(d.blocks) = BlockCount(t)
      /\ d.failed \in BOOLEAN
  BY <1>0 DEF LoopType
<1>2. old \in Blocks /\ (d.links[t][i] # NoBlock => d.links[t][i] = old /\ c \in Contents /\ content[old] = c)
  <2>1. old \in Blocks
    BY <1>1, ElementOfSeq
  <2>2. d.links[t][i] # NoBlock => d.links[t][i] = old
    BY <1>0 DEF LoopInv
  <2> QED
    BY <2>1, <2>2 DEF TypeOK
<1>T. \/ /\ d.failed \/ d.links[t][i] = NoBlock
         /\ e.failed = TRUE
         /\ e.links = d.links /\ e.blocks = d.blocks
         /\ e.index = d.index /\ e.bitmap = d.bitmap
         /\ LoopType(t, e)
      \/ /\ ~d.failed /\ d.links[t][i] # NoBlock
         /\ e.failed = FALSE
         /\ d.index[c] = NoBlock
         /\ e.index = [d.index EXCEPT ![c] = old]
         /\ e.links = d.links /\ e.blocks = d.blocks /\ e.bitmap = d.bitmap
         /\ LoopType(t, e)
      \/ /\ ~d.failed /\ d.links[t][i] # NoBlock
         /\ d.index[c] = old
         /\ e = d
      \/ /\ ~d.failed /\ d.links[t][i] # NoBlock
         /\ e.failed = FALSE
         /\ d.index[c] # NoBlock /\ d.index[c] # old
         /\ e.links = [d.links EXCEPT ![t][i] = d.index[c]]
         /\ e.blocks = [d.blocks EXCEPT ![i] = d.index[c]]
         /\ e.index = d.index
         /\ e.bitmap = IF ph_block_links(old, e.links) = 1
                       THEN d.bitmap \ {old} ELSE d.bitmap
         /\ LoopType(t, e)
  BY <1>0, TurnOutcomes
<1> HIDE DEF e
<1> SUFFICES LoopInv(t, e, i)
  BY DEF e
<1>S. links[t][i] = NoBlock <=> d.links[t][i] = NoBlock
  BY <1>0 DEF LoopInv
<1>F. ~d.failed /\ d.links[t][i] # NoBlock => ~\E k \in 1..i : links[t][k] = NoBlock
  BY <1>0, <1>S DEF LoopInv
<1>3. CASE d.failed \/ d.links[t][i] = NoBlock
  <2>1. /\ e.failed = TRUE /\ LoopType(t, e)
        /\ e.links = d.links /\ e.blocks = d.blocks /\ e.index = d.index /\ e.bitmap = d.bitmap
    BY <1>0, <1>3, <1>T
  <2> QED
    <3>1. \E k \in 1..i : links[t][k] = NoBlock
      BY <1>0, <1>3, <1>S DEF LoopInv
    <3>2. \A x \in Contents : e.index[x] # NoBlock =>
            /\ content[e.index[x]] = x
            /\ Frozen(e.index[x]) \/ \E k \in 1..i : e.links[t][k] = e.index[x]
      BY <1>0, <2>1 DEF LoopInv
    <3> QED
      BY <2>1, <3>1, <3>2 DEF LoopInv
<1>4. CASE ~d.failed /\ d.links[t][i] # NoBlock /\ d.index[c] = NoBlock
  <2>1. /\ e.failed = FALSE /\ LoopType(t, e)
        /\ e.index = [d.index EXCEPT ![c] = old]
        /\ e.links = d.links /\ e.blocks = d.blocks /\ e.bitmap = d.bitmap
    BY <1>0, <1>2, <1>4, Numbers, <1>T
  <2>2. ASSUME NEW x \in Contents, e.index[x] # NoBlock
        PROVE  /\ content[e.index[x]] = x
               /\ Frozen(e.index[x]) \/ \E k \in 1..i : e.links[t][k] = e.index[x]
    <3>1. CASE x = c
      <4>1. e.index[x] = old
        BY <1>1, <2>1, <3>1
      <4> QED
        BY <4>1, <1>2, <1>4, <2>1, <3>1, <1>0
    <3>2. CASE x # c
      <4>1. e.index[x] = d.index[x]
        BY <1>1, <2>1, <3>2
      <4> QED
        BY <4>1, <1>0, <2>1, <2>2 DEF LoopInv
    <3> QED
      BY <3>1, <3>2
  <2> QED
    BY <2>1, <2>2, <1>4, <1>F DEF LoopInv
<1>5. CASE ~d.failed /\ d.links[t][i] # NoBlock /\ d.index[c] # NoBlock /\ d.index[c] = old
  <2>1. e = d
    BY <1>0, <1>5, <1>T
  <2>2. \A x \in Contents : d.index[x] # NoBlock =>
            /\ content[d.index[x]] = x
            /\ Frozen(d.index[x]) \/ \E k \in 1..i : d.links[t][k] = d.index[x]
    BY <1>0 DEF LoopInv
  <2> QED
    BY <2>1, <2>2, <1>5, <1>F DEF LoopInv
<1>6. CASE ~d.failed /\ d.links[t][i] # NoBlock /\ d.index[c] # NoBlock /\ d.index[c] # old
  <2> DEFINE r == d.index[c]
  <2>1. /\ e.failed = FALSE /\ LoopType(t, e)
        /\ e.links = [d.links EXCEPT ![t][i] = r]
        /\ e.blocks = [d.blocks EXCEPT ![i] = r]
        /\ e.index = d.index
        /\ e.bitmap = IF ph_block_links(old, e.links) = 1 THEN d.bitmap \ {old} ELSE d.bitmap
    BY <1>0, <1>6, <1>T
  <2>2. r \in Blocks /\ content[r] = c
    BY <1>1, <1>2, <1>6 DEF LoopInv
  <2>3. \A u \in FileTags \ {t} : e.links[u] = d.links[u]
    BY <1>1, <2>1 DEF LinkMaps
  <2>4. \A k \in LogicalBlocks : e.links[t][k] = IF k = i THEN r ELSE d.links[t][k]
    BY <1>0, <1>1, <2>1 DEF LinkMaps
  <2>5. \A k \in 1..BlockCount(t) : e.blocks[k] = IF k = i THEN r ELSE d.blocks[k]
    <3>1. Len(d.blocks) = BlockCount(t) /\ r \in Blocks
      BY <1>1, <2>2
    <3> HIDE DEF r
    <3>2. \A k \in 1..Len(d.blocks) : [d.blocks EXCEPT ![i] = r][k] = IF k = i THEN r ELSE d.blocks[k]
      BY <1>1, <3>1, ExceptSeq
    <3> QED
      BY <2>1, <3>1, <3>2 DEF r
  <2>7. ASSUME NEW k \in LogicalBlocks
        PROVE  IF links[t][k] = NoBlock
               THEN e.links[t][k] = NoBlock
               ELSE /\ e.links[t][k] # NoBlock
                    /\ k <= BlockCount(t)
                    /\ e.links[t][k] = e.blocks[k]
                    /\ content[e.links[t][k]] = content[links[t][k]]
    <3>1. CASE k = i
      <4>1. links[t][i] # NoBlock /\ content[links[t][i]] = c
        BY <1>0, <1>2, <1>6 DEF LoopInv
      <4>2. e.links[t][i] = r /\ e.blocks[i] = r /\ i <= BlockCount(t)
        BY <1>0, <2>4, <2>5
      <4> QED
        BY <3>1, <4>1, <4>2, <2>2, Numbers
    <3>2. CASE k # i
      <4>1. e.links[t][k] = d.links[t][k]
        BY <2>4, <3>2
      <4>2. k <= BlockCount(t) => e.blocks[k] = d.blocks[k]
        <5>1. k <= BlockCount(t) => k \in 1..BlockCount(t)
          BY FileType DEF LogicalBlocks
        <5> QED
          BY <5>1, <2>5, <3>2
      <4> QED
        BY <4>1, <4>2 DEF LoopInv
    <3> QED
      BY <3>1, <3>2
  <2>8. ASSUME NEW p \in Blocks PROVE p \in e.bitmap <=> IsLinked(p, e.links)
    <3>0. p \in d.bitmap <=> IsLinked(p, d.links)
      BY DEF LoopInv, Marks
    <3>1. CASE p = old
      <4>1. ph_block_links(old, e.links) = 1 <=> ~IsLinked(old, e.links)
        BY OwnNameOnly DEF IsLinked
      <4>2. IsLinked(old, d.links)
        BY <1>0, <1>2, <1>6 DEF IsLinked
      <4> QED
        BY <3>0, <3>1, <4>1, <4>2, <2>1
    <3>2. CASE p = r
      <4>1. IsLinked(p, e.links)
        BY <1>0, <2>4, <3>2 DEF IsLinked
      <4>2. IsLinked(p, d.links)
        <5>1. Frozen(r) \/ \E k \in 1..i - 1 : d.links[t][k] = r
          BY <1>2, <1>6 DEF LoopInv
        <5>2. CASE Frozen(r)
          <6>1. PICK u \in FileTags, k \in LogicalBlocks : Closed(u) /\ links[u][k] = r
            BY <5>2 DEF Frozen
          <6>2. u # t
            BY <6>1 DEF Closed
          <6>3. d.links[u][k] = r
            BY <6>1, <6>2, <1>0 DEF LoopType
          <6> QED
            BY <6>3, <3>2 DEF IsLinked
        <5>3. CASE \E k \in 1..i - 1 : d.links[t][k] = r
          BY <5>3, <3>2, <1>0 DEF IsLinked
        <5> QED
          BY <5>1, <5>2, <5>3
      <4>3. p \in d.bitmap /\ p # old
        BY <4>2, <3>0, <3>2, <1>6
      <4> QED
        BY <4>1, <4>3, <2>1
    <3>3. CASE p # old /\ p # r
      <4>1. IsLinked(p, e.links) <=> IsLinked(p, d.links)
        <5>1. ASSUME NEW u \in FileTags, NEW k \in LogicalBlocks
              PROVE  e.links[u][k] = p <=> d.links[u][k] = p
          <6>1. CASE u = t /\ k = i
            BY <6>1, <2>4, <3>3, <1>2, <1>6
          <6>2. CASE u = t /\ k # i
            BY <6>2, <2>4
          <6>3. CASE u # t
            BY <6>3, <2>3
          <6> QED
            BY <6>1, <6>2, <6>3
        <5> QED
          BY <5>1 DEF IsLinked
      <4> QED
        BY <4>1, <3>0, <3>3, <2>1
    <3> QED
      BY <3>1, <3>2, <3>3
  <2>9. ASSUME NEW x \in Contents, e.index[x] # NoBlock
        PROVE  /\ content[e.index[x]] = x
               /\ Frozen(e.index[x]) \/ \E k \in 1..i : e.links[t][k] = e.index[x]
    <3>1. /\ content[e.index[x]] = x
          /\ Frozen(e.index[x]) \/ \E k \in 1..i - 1 : d.links[t][k] = e.index[x]
      BY <2>1, <2>9 DEF LoopInv
    <3>2. ASSUME NEW k \in 1..i - 1, d.links[t][k] = e.index[x]
          PROVE  k \in 1..i /\ e.links[t][k] = e.index[x]
      BY <3>2, <1>0, <2>4
    <3> QED
      BY <3>1, <3>2
  <2> QED
    BY <2>1, <2>7, <2>8, <2>9, <1>6, <1>F DEF LoopInv, Marks
<1> QED
  BY <1>3, <1>4, <1>5, <1>6

\* The loop keeps it to its end.
LEMMA Deduplicated ==
    ASSUME TypeOK, Sound, NEW t \in FileTags, Exists(t), ~Committed(t)
    PROVE  LoopInv(t, deduplicate_blocks(t), BlockCount(t))
<1>1. BlockCount(t) \in Nat /\ metadata[t].blocks \in Seq(Blocks)
  BY FileType
<1>2. PICK f : /\ f[0] = LoopStart(t)
               /\ \A i \in 1..BlockCount(t) : f[i] = DeduplicateBlock(t, f[i - 1], i)
               /\ deduplicate_blocks(t) = f[BlockCount(t)]
  BY <1>1, LoopRuns
<1>3. LoopInv(t, LoopStart(t), 0)
  <2>1. LoopType(t, LoopStart(t))
    BY <1>1 DEF LoopType, LoopStart, LinkMaps, TypeOK, BlockCount
  <2>2. /\ LoopStart(t).links = links /\ LoopStart(t).blocks = metadata[t].blocks
        /\ LoopStart(t).index = hash_index /\ LoopStart(t).bitmap = bitmap
        /\ LoopStart(t).failed = FALSE
    BY DEF LoopStart
  <2> QED
    BY <2>1, <2>2 DEF LoopInv, Sound, Untorn, IndexSound
<1> DEFINE Bad == {k \in Nat : k <= BlockCount(t) /\ ~LoopInv(t, f[k], k)}
<1>4. CASE Bad = {}
  BY <1>1, <1>2, <1>4
<1>5. CASE Bad # {}
  <2>1. PICK m \in Bad : \A y \in Bad : m <= y
    BY <1>5, MinOfNaturals
  <2>2. m \in Nat /\ m <= BlockCount(t) /\ ~LoopInv(t, f[m], m)
    BY <2>1
  <2>3. m # 0
    BY <1>2, <1>3, <2>2
  <2>4. m - 1 \in Nat /\ m - 1 <= BlockCount(t) /\ m \in 1..BlockCount(t) /\ m - 1 \notin Bad
    BY <1>1, <2>1, <2>2, <2>3
  <2>5. LoopInv(t, f[m - 1], m - 1)
    BY <2>4
  <2>6. LoopInv(t, DeduplicateBlock(t, f[m - 1], m), m)
    BY <2>4, <2>5, TurnKeeps
  <2> QED
    BY <1>2, <2>2, <2>4, <2>6
<1> QED
  BY <1>4, <1>5

-----------------------------------------------------------------------------
(* Links removed, and blocks freed with their last link.                   *)

\* A set of blocks of a File:Tag has a last one.
LEMMA LastOf ==
    ASSUME NEW S, S \subseteq LogicalBlocks, S # {}
    PROVE  \E m \in S : \A y \in S : y <= m
<1> DEFINE T == {n \in Nat : \E y \in S : n = MaxBlocks - y}
<1>1. \A y \in S : y \in Nat /\ MaxBlocks - y \in Nat
  BY Numbers DEF LogicalBlocks
<1>2. T \subseteq Nat /\ T # {}
  BY <1>1
<1>3. PICK n \in T : \A k \in T : n <= k
  BY <1>2, MinOfNaturals
<1>4. PICK m \in S : n = MaxBlocks - m
  BY <1>3
<1>5. ASSUME NEW y \in S PROVE y <= m
  <2>1. MaxBlocks - y \in T
    BY <1>1
  <2> QED
    BY <2>1, <1>1, <1>3, <1>4, Numbers
<1> QED
  BY <1>5

\* Truncating or deleting frees exactly the blocks that lose their last link.
LEMMA BlocksDeleted ==
    ASSUME TypeOK, NEW t \in FileTags, Exists(t),
           NEW from \in Nat \ {0}, NEW to \in 0..BlockCount(t),
           delete_logical_blocks(t, from, to)
    PROVE  /\ links' \in LinkMaps /\ bitmap' \subseteq bitmap
           /\ \A u \in FileTags \ {t} : links'[u] = links[u]
           /\ \A i \in LogicalBlocks :
                 links'[t][i] = IF i \in from..to THEN NoBlock ELSE links[t][i]
           /\ Sound => Marks(bitmap', links')
<1>1. links \in LinkMaps /\ 1..BlockCount(t) \subseteq LogicalBlocks /\ BlockCount(t) \in Nat
      /\ \A i \in 1..BlockCount(t) : metadata[t].blocks[i] \in Blocks
  BY FileType DEF TypeOK, LinkMaps
<1>2. ASSUME NEW k
      PROVE  /\ LinksWithout(t, from, k) \in LinkMaps
             /\ \A u \in FileTags \ {t} : LinksWithout(t, from, k)[u] = links[u]
             /\ \A i \in LogicalBlocks : LinksWithout(t, from, k)[t][i] =
                    IF i \in from..k THEN NoBlock ELSE links[t][i]
  BY <1>1 DEF LinksWithout, LinkMaps
<1>3. links' = LinksWithout(t, from, to)
  BY DEF delete_logical_blocks
<1> DEFINE Freed == {metadata[t].blocks[i] :
                       i \in {j \in from..to :
                                /\ links[t][j] # NoBlock
                                /\ ph_block_links(metadata[t].blocks[j],
                                                  LinksWithout(t, from, j)) = 1}}
<1>4. bitmap' = bitmap \ Freed
  BY DEF delete_logical_blocks
<1>5. ASSUME Sound, NEW p \in Blocks, p \in bitmap', ~IsLinked(p, links')
      PROVE  FALSE
  <2>1. IsLinked(p, links)
    BY <1>4, <1>5 DEF Sound, Marks
  <2> DEFINE K == {k \in LogicalBlocks : links[t][k] = p}
  <2>2. \A u \in FileTags, k \in LogicalBlocks : links[u][k] = p => u = t /\ k \in from..to
    BY <1>2, <1>3, <1>5 DEF IsLinked
  <2>3. K # {}
    BY <2>1, <2>2 DEF IsLinked
  <2>4. PICK m \in K : \A y \in K : y <= m
    BY <2>3, LastOf
  <2>5. m \in LogicalBlocks /\ links[t][m] = p /\ m \in from..to
    BY <2>2, <2>4
  <2>6. metadata[t].blocks[m] = p /\ links[t][m] # NoBlock
    BY <1>5, <2>5, Numbers DEF Sound, Untorn
  <2>7. ASSUME NEW u \in FileTags, NEW k \in LogicalBlocks
        PROVE  LinksWithout(t, from, m)[u][k] # p
    <3>1. CASE u # t
      BY <3>1, <1>2, <2>2
    <3>2. CASE u = t /\ links[t][k] # p
      BY <3>2, <1>2, Numbers
    <3>3. CASE u = t /\ links[t][k] = p
      <4>1. k \in from..to /\ k <= m
        BY <3>3, <2>2, <2>4
      <4>2. k \in from..m
        BY <4>1, <2>5
      <4> QED
        BY <4>2, <3>3, <1>2, Numbers
    <3> QED
      BY <3>1, <3>2, <3>3
  <2>8. ph_block_links(p, LinksWithout(t, from, m)) = 1
    BY <2>7, OwnNameOnly
  <2>9. p \in Freed
    BY <2>5, <2>6, <2>8
  <2> QED
    BY <1>4, <1>5, <2>9
<1>6. ASSUME Sound, NEW p \in Blocks, IsLinked(p, links')
      PROVE  p \in bitmap'
  <2>1. PICK u \in FileTags, k \in LogicalBlocks : links'[u][k] = p
    BY <1>6 DEF IsLinked
  <2>2. links[u][k] = p /\ (u = t => k \notin from..to)
    BY <2>1, <1>2, <1>3, Numbers
  <2>3. p \in bitmap
    BY <1>6, <2>2 DEF Sound, Marks, IsLinked
  <2>4. ASSUME NEW j \in from..to, metadata[t].blocks[j] = p,
               ph_block_links(metadata[t].blocks[j], LinksWithout(t, from, j)) = 1
        PROVE  FALSE
    <3>1. LinksWithout(t, from, j)[u][k] # p
      BY <2>4, OwnNameOnly
    <3>2. u = t => k \notin from..j
      BY <2>2, <1>1, Numbers
    <3> QED
      BY <3>1, <3>2, <2>2, <1>2
  <2>5. p \notin Freed
    BY <2>4
  <2> QED
    BY <1>4, <2>3, <2>5
<1>7. Sound => Marks(bitmap', links')
  BY <1>5, <1>6 DEF Marks
<1> QED
  BY <1>2, <1>3, <1>4, <1>7

-----------------------------------------------------------------------------
(* What every request keeps.                                               *)

Files == [blocks : Seq(Blocks), state : {"WORK_IN_PROGRESS", "COMMITTED"}]

\* A committed File:Tag keeps its metadata and its links.
ClosedKept ==
    \A u \in FileTags : Closed(u) => metadata'[u] = metadata[u] /\ links'[u] = links[u]

\* The blocks a committed File:Tag has links to are not written.
ContentKept ==
    \A u \in FileTags, k \in LogicalBlocks :
        Closed(u) /\ links[u][k] # NoBlock => content'[links[u][k]] = content[links[u][k]]

Keeps ==
    /\ TypeOK'
    /\ ChangeCommitted \/ ClosedKept
    /\ Sound => Marks(bitmap', links') /\ ContentKept
    /\ Sound /\ LinksMatchMetadata /\ Intact' => LinksMatchMetadata'

\* The metadata after one File:Tag got new metadata.
LEMMA MetadataType ==
    ASSUME TypeOK, NEW t \in FileTags, NEW file \in {NoFile} \cup Files,
           file # NoFile => Len(file.blocks) <= MaxBlocks,
           metadata' = [metadata EXCEPT ![t] = file]
    PROVE  /\ metadata' \in [FileTags -> {NoFile} \cup Files]
           /\ \A u \in FileTags : metadata'[u] # NoFile => Len(metadata'[u].blocks) <= MaxBlocks
           /\ metadata'[t] = file
           /\ \A u \in FileTags \ {t} : metadata'[u] = metadata[u]
<1>1. metadata \in [FileTags -> {NoFile} \cup Files]
  BY DEF TypeOK, Files
<1>2. metadata'[t] = file /\ \A u \in FileTags \ {t} : metadata'[u] = metadata[u]
  BY <1>1
<1>3. metadata' \in [FileTags -> {NoFile} \cup Files]
  BY <1>1
<1>4. \A u \in FileTags : metadata'[u] # NoFile => Len(metadata'[u].blocks) <= MaxBlocks
  BY <1>2 DEF TypeOK
<1> QED
  BY <1>2, <1>3, <1>4

\* The metadata of a File:Tag is not NoFile.
LEMMA FilesExist == NoFile \notin Files
BY StorageAssumption DEF Files, Blocks

\* Metadata with another list of blocks.
LEMMA OtherBlocks ==
    ASSUME NEW file \in Files, NEW b
    PROVE  [file EXCEPT !.blocks = b] = [blocks |-> b, state |-> file.state]
BY DEF Files

\* A request that is refused changes nothing on the disk.
LEMMA RefusedKeeps ==
    ASSUME TypeOK, UNCHANGED disk
    PROVE  Keeps /\ hash_index' = hash_index
<1>1. /\ metadata' = metadata /\ links' = links /\ directories' = directories
      /\ bitmap' = bitmap /\ content' = content /\ hash_index' = hash_index
  BY DEF disk
<1>2. TypeOK'
  BY <1>1 DEF TypeOK
<1>3. ClosedKept /\ ContentKept
  BY <1>1 DEF ClosedKept, ContentKept
<1>4. Sound => Marks(bitmap', links')
  BY <1>1 DEF Sound, Marks
<1>5. LinksMatchMetadata => LinksMatchMetadata'
  BY <1>1 DEF LinksMatchMetadata, Exists, BlockCount
<1> QED
  BY <1>1, <1>2, <1>3, <1>4, <1>5 DEF Keeps

\* CREATE: a File:Tag without blocks.
LEMMA CreateKeeps ==
    ASSUME TypeOK, NEW t \in FileTags, create_file(t)
    PROVE  Keeps /\ hash_index' = hash_index
<1>1. CASE Refused
  BY <1>1, RefusedKeeps DEF Refused
<1>2. CASE ~Exists(t) /\ ~Refused
  <2> DEFINE file == [blocks |-> <<>>, state |-> "WORK_IN_PROGRESS"]
  <2>1. /\ metadata' = [metadata EXCEPT ![t] = file]
        /\ directories' = directories \cup {FileOf(t)}
        /\ links' = links /\ bitmap' = bitmap /\ content' = content /\ hash_index' = hash_index
    BY <1>2 DEF create_file
  <2>2. file \in Files /\ Len(file.blocks) = 0
    BY EmptySeq DEF Files
  <2> HIDE DEF file
  <2>3. /\ metadata' \in [FileTags -> {NoFile} \cup Files]
        /\ \A u \in FileTags : metadata'[u] # NoFile => Len(metadata'[u].blocks) <= MaxBlocks
        /\ metadata'[t] = file
        /\ \A u \in FileTags \ {t} : metadata'[u] = metadata[u]
    <3>1. Len(file.blocks) <= MaxBlocks
      BY <2>2, Numbers
    <3> QED
      BY <2>1, <2>2, <3>1, MetadataType
  <2>4. TypeOK'
    BY <2>1, <2>3 DEF TypeOK, Files
  <2>5. ClosedKept /\ ContentKept
    BY <1>2, <2>1, <2>3 DEF ClosedKept, ContentKept, Closed
  <2>6. Sound => Marks(bitmap', links')
    BY <2>1 DEF Sound, Marks
  <2>7. LinksMatchMetadata => LinksMatchMetadata'
    <3> SUFFICES ASSUME LinksMatchMetadata, NEW u \in FileTags, NEW i \in LogicalBlocks
                 PROVE  links'[u][i] = IF Exists(u)' /\ i <= BlockCount(u)'
                                       THEN metadata'[u].blocks[i] ELSE NoBlock
      BY DEF LinksMatchMetadata
    <3>1. CASE u = t
      <4>1. links[t][i] = NoBlock
        BY <1>2, <3>1 DEF LinksMatchMetadata
      <4>2. ~(i <= BlockCount(t)')
        BY <2>2, <2>3, Numbers DEF BlockCount, LogicalBlocks
      <4> QED
        BY <3>1, <4>1, <4>2, <2>1
    <3>2. CASE u # t
      BY <3>2, <2>1, <2>3 DEF LinksMatchMetadata, Exists, BlockCount
    <3> QED
      BY <3>1, <3>2
  <2> QED
    BY <2>1, <2>4, <2>5, <2>6, <2>7 DEF Keeps
<1> QED
  BY <1>1, <1>2 DEF create_file

\* TAG: links and blocks of another File:Tag, every block one more link.
LEMMA TagKeeps ==
    ASSUME TypeOK, NEW t \in FileTags, NEW dst \in FileTags, create_tag(t, dst)
    PROVE  Keeps /\ hash_index' = hash_index
<1>1. CASE Refused
  BY <1>1, RefusedKeeps DEF Refused
<1>2. CASE ~Exists(dst) /\ Exists(t) /\ ~Refused
  <2> DEFINE file == [blocks |-> metadata[t].blocks, state |-> "WORK_IN_PROGRESS"]
  <2>1. /\ metadata' = [metadata EXCEPT ![dst] = file]
        /\ links' = [links EXCEPT ![dst] = links[t]]
        /\ directories' = directories
        /\ bitmap' = bitmap /\ content' = content /\ hash_index' = hash_index
    BY <1>2 DEF create_tag
  <2>2. file \in Files /\ Len(file.blocks) <= MaxBlocks /\ file.blocks = metadata[t].blocks
    BY <1>2, FileType DEF Files, BlockCount
  <2> HIDE DEF file
  <2>3. /\ metadata' \in [FileTags -> {NoFile} \cup Files]
        /\ \A u \in FileTags : metadata'[u] # NoFile => Len(metadata'[u].blocks) <= MaxBlocks
        /\ metadata'[dst] = file
        /\ \A u \in FileTags \ {dst} : metadata'[u] = metadata[u]
    BY <2>1, <2>2, MetadataType
  <2>L. /\ links' \in LinkMaps /\ links'[dst] = links[t]
        /\ \A u \in FileTags \ {dst} : links'[u] = links[u]
    BY <2>1 DEF LinkMaps, TypeOK
  <2>4. TypeOK'
    BY <2>1, <2>3, <2>L DEF TypeOK, Files, LinkMaps
  <2>5. ClosedKept /\ ContentKept
    BY <1>2, <2>1, <2>3, <2>L DEF ClosedKept, ContentKept, Closed
  <2>6. Sound => Marks(bitmap', links')
    <3> SUFFICES ASSUME Sound, NEW p \in Blocks
                 PROVE  p \in bitmap' <=> IsLinked(p, links')
      BY DEF Marks
    <3>1. p \in bitmap <=> IsLinked(p, links)
      BY DEF Sound, Marks
    <3>2. ASSUME IsLinked(p, links) PROVE IsLinked(p, links')
      <4>1. PICK u \in FileTags, i \in LogicalBlocks : links[u][i] = p
        BY <3>2 DEF IsLinked
      <4>2. u # dst
        <5>1. links[u][i] # NoBlock
          BY <4>1, Numbers
        <5> QED
          BY <5>1, <1>2 DEF Sound, Untorn
      <4> QED
        BY <4>1, <4>2, <2>L DEF IsLinked
    <3>3. ASSUME IsLinked(p, links') PROVE IsLinked(p, links)
      <4>1. PICK u \in FileTags, i \in LogicalBlocks : links'[u][i] = p
        BY <3>3 DEF IsLinked
      <4> QED
        BY <4>1, <2>L DEF IsLinked
    <3> QED
      BY <3>1, <3>2, <3>3, <2>1
  <2>7. LinksMatchMetadata => LinksMatchMetadata'
    <3> SUFFICES ASSUME LinksMatchMetadata, NEW u \in FileTags, NEW i \in LogicalBlocks
                 PROVE  links'[u][i] = IF Exists(u)' /\ i <= BlockCount(u)'
                                       THEN metadata'[u].blocks[i] ELSE NoBlock
      BY DEF LinksMatchMetadata
    <3>1. CASE u = dst
      <4>1. Exists(u)' /\ metadata'[u].blocks = metadata[t].blocks /\ BlockCount(u)' = BlockCount(t)
        BY <3>1, <2>2, <2>3, FilesExist DEF Exists, BlockCount
      <4>2. links'[u] = links[t]
        BY <3>1, <2>L
      <4> QED
        BY <4>1, <4>2, <1>2 DEF LinksMatchMetadata
    <3>2. CASE u # dst
      BY <3>2, <2>L, <2>3 DEF LinksMatchMetadata, Exists, BlockCount
    <3> QED
      BY <3>1, <3>2
  <2> QED
    BY <2>1, <2>4, <2>5, <2>6, <2>7 DEF Keeps
<1> QED
  BY <1>1, <1>2 DEF create_tag

\* The sequences of blocks TRUNCATE makes.
LEMMA TruncatedBlocks ==
    ASSUME NEW b \in Seq(Blocks), NEW n \in Nat
    PROVE  /\ n <= Len(b) => /\ SubSeq(b, 1, n) \in Seq(Blocks)
                             /\ Len(SubSeq(b, 1, n)) = n
                             /\ \A i \in 1..n : SubSeq(b, 1, n)[i] = b[i]
           /\ n > Len(b) =>
                LET z == [i \in 1..n - Len(b) |-> 0]
                IN  /\ b \o z \in Seq(Blocks)
                    /\ Len(b \o z) = n
                    /\ \A i \in 1..n : (b \o z)[i] = IF i <= Len(b) THEN b[i] ELSE 0
<1>1. Len(b) \in Nat /\ \A i \in 1..Len(b) : b[i] \in Blocks
  BY LenProperties, ElementOfSeq
<1>2. ASSUME n <= Len(b)
      PROVE  /\ SubSeq(b, 1, n) \in Seq(Blocks)
             /\ Len(SubSeq(b, 1, n)) = n
             /\ \A i \in 1..n : SubSeq(b, 1, n)[i] = b[i]
  <2>1. \A i \in 1..n : b[i] \in Blocks
    BY <1>1, <1>2
  <2>2. /\ SubSeq(b, 1, n) \in Seq(Blocks)
        /\ Len(SubSeq(b, 1, n)) = IF 1 <= n THEN n - 1 + 1 ELSE 0
        /\ \A i \in 1..n - 1 + 1 : SubSeq(b, 1, n)[i] = b[1 + i - 1]
    BY <2>1, SubSeqProperties
  <2>3. n - 1 + 1 = n /\ \A i \in 1..n : 1 + i - 1 = i
    OBVIOUS
  <2>4. Len(SubSeq(b, 1, n)) = n
    BY <2>2
  <2> QED
    BY <2>2, <2>3, <2>4
<1>3. ASSUME n > Len(b)
      PROVE  LET z == [i \in 1..n - Len(b) |-> 0]
             IN  /\ b \o z \in Seq(Blocks)
                 /\ Len(b \o z) = n
                 /\ \A i \in 1..n : (b \o z)[i] = IF i <= Len(b) THEN b[i] ELSE 0
  <2> DEFINE z == [i \in 1..n - Len(b) |-> 0]
  <2>1. n - Len(b) \in Nat
    BY <1>1, <1>3
  <2>2. z \in Seq(Blocks) /\ Len(z) = n - Len(b)
    BY <2>1, Numbers
  <2>3. \A i \in 1..n - Len(b) : z[i] = 0
    OBVIOUS
  <2> HIDE DEF z
  <2>4. /\ b \o z \in Seq(Blocks)
        /\ Len(b \o z) = Len(b) + Len(z)
        /\ \A i \in 1..Len(b) + Len(z) :
              (b \o z)[i] = IF i <= Len(b) THEN b[i] ELSE z[i - Len(b)]
    BY <2>2, ConcatProperties
  <2>5. Len(b) + Len(z) = n
    BY <1>1, <2>2
  <2>6. ASSUME NEW i \in 1..n, ~(i <= Len(b)) PROVE i - Len(b) \in 1..n - Len(b)
    BY <1>1, <2>6
  <2>7. \A i \in 1..n : (b \o z)[i] = IF i <= Len(b) THEN b[i] ELSE 0
    BY <2>3, <2>4, <2>5, <2>6
  <2> QED
    BY <2>4, <2>5, <2>7 DEF z
<1> QED
  BY <1>2, <1>3

\* TRUNCATE: blocks at the end are deleted, or links to block 0 are added.
LEMMA TruncateKeeps ==
    ASSUME TypeOK, NEW t \in FileTags, ChangeCommitted \/ ~Closed(t), NEW n \in 0..MaxBlocks,
           truncate_file(t, n)
    PROVE  Keeps /\ hash_index' = hash_index
<1>1. CASE Refused
  BY <1>1, RefusedKeeps DEF Refused
<1>2. CASE Exists(t) /\ ~Refused
  <2> DEFINE b == metadata[t].blocks
  <2>0. /\ b \in Seq(Blocks) /\ BlockCount(t) \in Nat /\ n \in Nat /\ n <= MaxBlocks
        /\ BlockCount(t) = Len(b)
        /\ metadata[t] \in Files /\ metadata[t] = [blocks |-> b, state |-> metadata[t].state]
        /\ BlockCount(t) <= MaxBlocks
    BY <1>2, FileType, Numbers DEF BlockCount, Files
  <2>1. directories' = directories /\ content' = content /\ hash_index' = hash_index
    BY <1>2 DEF truncate_file
  <2>2. CASE /\ n <= BlockCount(t)
             /\ delete_logical_blocks(t, n + 1, BlockCount(t))
             /\ metadata' = [metadata EXCEPT ![t].blocks = SubSeq(@, 1, n)]
    <3> DEFINE file == [blocks |-> SubSeq(b, 1, n), state |-> metadata[t].state]
    <3>1. /\ SubSeq(b, 1, n) \in Seq(Blocks) /\ Len(SubSeq(b, 1, n)) = n
          /\ \A i \in 1..n : SubSeq(b, 1, n)[i] = b[i]
      BY <2>0, <2>2, TruncatedBlocks
    <3>2. metadata' = [metadata EXCEPT ![t] = file]
      <4>1. [metadata[t] EXCEPT !.blocks = SubSeq(b, 1, n)] = file
        BY <2>0, OtherBlocks
      <4> QED
        BY <2>2, <4>1
    <3>3. file \in Files /\ Len(file.blocks) = n /\ \A i \in 1..n : file.blocks[i] = b[i]
      BY <2>0, <3>1 DEF Files
    <3> HIDE DEF file
    <3>4. /\ metadata' \in [FileTags -> {NoFile} \cup Files]
          /\ \A u \in FileTags : metadata'[u] # NoFile => Len(metadata'[u].blocks) <= MaxBlocks
          /\ metadata'[t] = file
          /\ \A u \in FileTags \ {t} : metadata'[u] = metadata[u]
      <4>1. Len(file.blocks) <= MaxBlocks
        BY <3>3, <2>0
      <4> QED
        BY <3>2, <3>3, <4>1, MetadataType
    <3>5. /\ links' \in LinkMaps /\ bitmap' \subseteq bitmap
          /\ \A u \in FileTags \ {t} : links'[u] = links[u]
          /\ \A i \in LogicalBlocks :
                 links'[t][i] = IF i \in n + 1..BlockCount(t) THEN NoBlock ELSE links[t][i]
          /\ Sound => Marks(bitmap', links')
      <4>1. n + 1 \in Nat \ {0} /\ BlockCount(t) \in 0..BlockCount(t)
        BY <2>0
      <4> QED
        BY <4>1, <1>2, <2>2, BlocksDeleted
    <3>6. TypeOK'
      BY <2>1, <3>4, <3>5 DEF TypeOK, Files, LinkMaps
    <3>7. (ChangeCommitted \/ ClosedKept) /\ ContentKept
      BY <2>1, <3>4, <3>5 DEF ClosedKept, ContentKept
    <3>8. LinksMatchMetadata => LinksMatchMetadata'
      <4> SUFFICES ASSUME LinksMatchMetadata, NEW u \in FileTags, NEW i \in LogicalBlocks
                   PROVE  links'[u][i] = IF Exists(u)' /\ i <= BlockCount(u)'
                                         THEN metadata'[u].blocks[i] ELSE NoBlock
        BY DEF LinksMatchMetadata
      <4>1. CASE u = t
        <5>1. Exists(t)' /\ BlockCount(t)' = n
          BY <3>3, <3>4, FilesExist DEF Exists, BlockCount
        <5>2. links[t][i] = IF i <= BlockCount(t) THEN b[i] ELSE NoBlock
          BY <1>2 DEF LinksMatchMetadata
        <5>3. i \in Nat /\ i >= 1
          BY DEF LogicalBlocks
        <5>4. CASE i <= n
          <6>1. i \in 1..n /\ i <= BlockCount(t) /\ i \notin n + 1..BlockCount(t)
            BY <5>3, <5>4, <2>0, <2>2
          <6> QED
            BY <6>1, <5>1, <5>2, <5>4, <4>1, <3>3, <3>4, <3>5
        <5>5. CASE ~(i <= n)
          <6>1. i <= BlockCount(t) => i \in n + 1..BlockCount(t)
            BY <5>3, <5>5, <2>0
          <6> QED
            BY <6>1, <5>1, <5>2, <5>5, <4>1, <3>5
        <5> QED
          BY <5>4, <5>5
      <4>2. CASE u # t
        BY <4>2, <3>4, <3>5 DEF LinksMatchMetadata, Exists, BlockCount
      <4> QED
        BY <4>1, <4>2
    <3> QED
      BY <2>1, <3>5, <3>6, <3>7, <3>8 DEF Keeps
  <2>3. CASE /\ n > BlockCount(t)
             /\ links' = [links EXCEPT ![t] = [i \in LogicalBlocks |->
                            IF i \in BlockCount(t) + 1..n THEN 0 ELSE links[t][i]]]
             /\ metadata' = [metadata EXCEPT ![t].blocks =
                               @ \o [i \in 1..n - Len(@) |-> 0]]
             /\ bitmap' = bitmap
    <3> DEFINE z == [i \in 1..n - Len(b) |-> 0]
               file == [blocks |-> b \o z, state |-> metadata[t].state]
    <3>1. /\ b \o z \in Seq(Blocks) /\ Len(b \o z) = n
          /\ \A i \in 1..n : (b \o z)[i] = IF i <= Len(b) THEN b[i] ELSE 0
      BY <2>0, <2>3, TruncatedBlocks
    <3>2. metadata' = [metadata EXCEPT ![t] = file]
      <4>1. [metadata[t] EXCEPT !.blocks = b \o z] = file
        BY <2>0, OtherBlocks
      <4> QED
        BY <2>3, <4>1
    <3> HIDE DEF z
    <3>3. /\ file \in Files /\ Len(file.blocks) = n
          /\ \A i \in 1..n : file.blocks[i] = IF i <= BlockCount(t) THEN b[i] ELSE 0
      BY <2>0, <3>1 DEF Files
    <3> HIDE DEF file
    <3>4. /\ metadata' \in [FileTags -> {NoFile} \cup Files]
          /\ \A u \in FileTags : metadata'[u] # NoFile => Len(metadata'[u].blocks) <= MaxBlocks
          /\ metadata'[t] = file
          /\ \A u \in FileTags \ {t} : metadata'[u] = metadata[u]
      <4>1. Len(file.blocks) <= MaxBlocks
        BY <3>3, <2>0
      <4> QED
        BY <3>2, <3>3, <4>1, MetadataType
    <3>5. /\ links' \in LinkMaps
          /\ \A u \in FileTags \ {t} : links'[u] = links[u]
          /\ \A i \in LogicalBlocks :
                 links'[t][i] = IF i \in BlockCount(t) + 1..n THEN 0 ELSE links[t][i]
      BY <2>3, Numbers DEF TypeOK, LinkMaps
    <3>6. TypeOK'
      BY <2>1, <2>3, <3>4, <3>5 DEF TypeOK, Files, LinkMaps
    <3>7. (ChangeCommitted \/ ClosedKept) /\ ContentKept
      BY <2>1, <3>4, <3>5 DEF ClosedKept, ContentKept
    <3>8. Sound => Marks(bitmap', links')
      <4> SUFFICES ASSUME Sound, NEW p \in Blocks
                   PROVE  p \in bitmap' <=> IsLinked(p, links')
        BY DEF Marks
      <4>1. p \in bitmap <=> IsLinked(p, links)
        BY DEF Sound, Marks
      <4>2. ASSUME IsLinked(p, links) PROVE IsLinked(p, links')
        <5>1. PICK u \in FileTags, i \in LogicalBlocks : links[u][i] = p
          BY <4>2 DEF IsLinked
        <5>2. links[u][i] # NoBlock
          BY <5>1, Numbers
        <5>3. u = t => i <= BlockCount(t)
          BY <5>2 DEF Sound, Untorn
        <5>4. u = t => i \notin BlockCount(t) + 1..n
          BY <5>3, <2>0, Numbers
        <5> QED
          BY <5>1, <5>4, <3>5 DEF IsLinked
      <4>3. ASSUME IsLinked(p, links') PROVE IsLinked(p, links)
        <5>1. PICK u \in FileTags, i \in LogicalBlocks : links'[u][i] = p
          BY <4>3 DEF IsLinked
        <5>2. links[u][i] = p \/ p = 0
          BY <5>1, <3>5
        <5>3. IsLinked(0, links)
          BY StorageAssumption, Numbers DEF Sound, BaseKept, IsLinked
        <5> QED
          BY <5>2, <5>3 DEF IsLinked
      <4> QED
        BY <4>1, <4>2, <4>3, <2>3
    <3>9. LinksMatchMetadata => LinksMatchMetadata'
      <4> SUFFICES ASSUME LinksMatchMetadata, NEW u \in FileTags, NEW i \in LogicalBlocks
                   PROVE  links'[u][i] = IF Exists(u)' /\ i <= BlockCount(u)'
                                         THEN metadata'[u].blocks[i] ELSE NoBlock
        BY DEF LinksMatchMetadata
      <4>1. CASE u = t
        <5>1. Exists(t)' /\ BlockCount(t)' = n
          BY <3>3, <3>4, FilesExist DEF Exists, BlockCount
        <5>2. links[t][i] = IF i <= BlockCount(t) THEN b[i] ELSE NoBlock
          BY <1>2 DEF LinksMatchMetadata
        <5>3. i \in Nat /\ i >= 1
          BY DEF LogicalBlocks
        <5>4. CASE i <= n
          <6>1. i \in 1..n /\ (i <= BlockCount(t) <=> i \notin BlockCount(t) + 1..n)
            BY <5>3, <5>4, <2>0
          <6> QED
            BY <6>1, <5>1, <5>2, <5>4, <4>1, <3>3, <3>4, <3>5
        <5>5. CASE ~(i <= n)
          <6>1. ~(i <= BlockCount(t)) /\ i \notin BlockCount(t) + 1..n
            BY <5>3, <5>5, <2>0, <2>3
          <6> QED
            BY <6>1, <5>1, <5>2, <5>5, <4>1, <3>5
        <5> QED
          BY <5>4, <5>5
      <4>2. CASE u # t
        BY <4>2, <3>4, <3>5 DEF LinksMatchMetadata, Exists, BlockCount
      <4> QED
        BY <4>1, <4>2
    <3> QED
      BY <2>1, <3>6, <3>7, <3>8, <3>9 DEF Keeps
  <2> QED
    BY <1>2, <2>2, <2>3 DEF truncate_file
<1> QED
  BY <1>1, <1>2 DEF truncate_file

\* DELETE: every block loses its link, or those before the first that has none.
LEMMA DeleteKeeps ==
    ASSUME TypeOK, NEW t \in FileTags, ChangeCommitted \/ ~Closed(t), delete_tag(t)
    PROVE  Keeps /\ hash_index' = hash_index
<1>1. CASE Refused
  BY <1>1, RefusedKeeps DEF Refused
<1>2. CASE Exists(t) /\ ~Refused
  <2> DEFINE Broken == {i \in 1..BlockCount(t) : links[t][i] = NoBlock}
  <2>0. /\ BlockCount(t) \in Nat /\ 1..BlockCount(t) \subseteq LogicalBlocks
        /\ \A i \in 1..BlockCount(t) : metadata[t].blocks[i] \in Blocks
    BY <1>2, FileType
  <2>1. directories' = directories /\ content' = content /\ hash_index' = hash_index
    BY <1>2 DEF delete_tag
  <2>2. CASE /\ delete_logical_blocks(t, 1, BlockCount(t))
             /\ metadata' = [metadata EXCEPT ![t] = NoFile]
    <3>4. /\ metadata' \in [FileTags -> {NoFile} \cup Files]
          /\ \A u \in FileTags : metadata'[u] # NoFile => Len(metadata'[u].blocks) <= MaxBlocks
          /\ metadata'[t] = NoFile
          /\ \A u \in FileTags \ {t} : metadata'[u] = metadata[u]
      BY <2>2, MetadataType
    <3>5. /\ links' \in LinkMaps /\ bitmap' \subseteq bitmap
          /\ \A u \in FileTags \ {t} : links'[u] = links[u]
          /\ \A i \in LogicalBlocks :
                 links'[t][i] = IF i \in 1..BlockCount(t) THEN NoBlock ELSE links[t][i]
          /\ Sound => Marks(bitmap', links')
      <4>1. 1 \in Nat \ {0} /\ BlockCount(t) \in 0..BlockCount(t)
        BY <2>0
      <4> QED
        BY <4>1, <1>2, <2>2, BlocksDeleted
    <3>6. TypeOK'
      BY <2>1, <3>4, <3>5 DEF TypeOK, Files, LinkMaps
    <3>7. (ChangeCommitted \/ ClosedKept) /\ ContentKept
      BY <2>1, <3>4, <3>5 DEF ClosedKept, ContentKept
    <3>8. LinksMatchMetadata => LinksMatchMetadata'
      <4> SUFFICES ASSUME LinksMatchMetadata, NEW u \in FileTags, NEW i \in LogicalBlocks
                   PROVE  links'[u][i] = IF Exists(u)' /\ i <= BlockCount(u)'
                                         THEN metadata'[u].blocks[i] ELSE NoBlock
        BY DEF LinksMatchMetadata
      <4>1. CASE u = t
        <5>1. ~Exists(t)'
          BY <3>4 DEF Exists
        <5>2. i \notin 1..BlockCount(t) => ~(i <= BlockCount(t))
          BY <2>0, Numbers DEF LogicalBlocks
        <5>3. i \notin 1..BlockCount(t) => links[t][i] = NoBlock
          BY <5>2 DEF LinksMatchMetadata
        <5> QED
          BY <4>1, <5>1, <5>3, <3>5
      <4>2. CASE u # t
        BY <4>2, <3>4, <3>5 DEF LinksMatchMetadata, Exists, BlockCount
      <4> QED
        BY <4>1, <4>2
    <3> QED
      BY <2>1, <3>5, <3>6, <3>7, <3>8 DEF Keeps
  <2>3. CASE \E i \in Broken : /\ delete_logical_blocks(t, 1, i - 1)
                               /\ metadata' = metadata
    <3>1. PICK i \in Broken : delete_logical_blocks(t, 1, i - 1) /\ metadata' = metadata
      BY <2>3
    <3>2. i \in 1..BlockCount(t) /\ i \in LogicalBlocks /\ links[t][i] = NoBlock
      BY <3>1, <2>0
    <3>5. /\ links' \in LinkMaps /\ bitmap' \subseteq bitmap
          /\ \A u \in FileTags \ {t} : links'[u] = links[u]
          /\ Sound => Marks(bitmap', links')
      <4>1. 1 \in Nat \ {0} /\ i - 1 \in 0..BlockCount(t)
        BY <2>0, <3>2
      <4> QED
        BY <4>1, <1>2, <3>1, BlocksDeleted
    <3>6. TypeOK'
      BY <2>1, <3>1, <3>5 DEF TypeOK, LinkMaps
    <3>7. (ChangeCommitted \/ ClosedKept) /\ ContentKept
      BY <2>1, <3>1, <3>5 DEF ClosedKept, ContentKept
    <3>8. ~LinksMatchMetadata
      <4>1. i <= BlockCount(t) /\ metadata[t].blocks[i] # NoBlock
        BY <3>2, <2>0, Numbers
      <4> QED
        BY <4>1, <3>2, <1>2 DEF LinksMatchMetadata
    <3> QED
      BY <2>1, <3>5, <3>6, <3>7, <3>8 DEF Keeps
  <2> QED
    BY <1>2, <2>2, <2>3 DEF delete_tag
<1> QED
  BY <1>1, <1>2 DEF delete_tag

\* The search of the bitmap finds a bit that is not set.
LEMMA FreeBit ==
    ASSUME TypeOK
    PROVE  \/ get_free_bit_index = NoBlock
           \/ get_free_bit_index \in (0..BitmapBits - 1) \ bitmap
<1> DEFINE Spare == (0..BitmapBits - 1) \ bitmap
<1>1. CASE Spare = {}
  BY <1>1 DEF get_free_bit_index
<1>2. CASE Spare # {}
  <2>1. Spare \subseteq Nat
    BY Numbers
  <2>2. \E p \in Spare : \A r \in Spare : p <= r
    BY <1>2, <2>1, MinOfNaturals
  <2>3. (CHOOSE p \in Spare : \A r \in Spare : p <= r) \in Spare
    BY <2>2
  <2> QED
    BY <1>2, <2>3 DEF get_free_bit_index
<1> QED
  BY <1>1, <1>2

\* A block that is shared has another link.
LEMMA SharedTwice ==
    ASSUME NEW p, Shared(p), NEW t \in FileTags, NEW i \in LogicalBlocks, links[t][i] = p
    PROVE  \E u \in FileTags, j \in LogicalBlocks : links[u][j] = p /\ (u # t \/ j # i)
<1> DEFINE L == LinksTo(p, links)
<1>1. ph_block_links(p, links) = 1 + Cardinality(L)
  BY DEF ph_block_links, LinksTo
<1>2. IsFiniteSet(L) /\ Cardinality(L) \in Nat
  BY LinksFinite
<1>3. Cardinality(L) # 1
  BY <1>1, <1>2 DEF Shared
<1>4. L # {<<t, i>>}
  BY <1>3, FS_Singleton
<1>5. <<t, i>> \in L
  BY DEF LinksTo
<1>6. PICK x \in L : x # <<t, i>>
  BY <1>4, <1>5
<1>7. x \in FileTags \X LogicalBlocks /\ links[x[1]][x[2]] = p
  BY <1>6 DEF LinksTo
<1>8. x = <<x[1], x[2]>> /\ x[1] \in FileTags /\ x[2] \in LogicalBlocks
  BY <1>7
<1> QED
  BY <1>6, <1>7, <1>8

\* Giving up one of several links to a block for another block, or for none,
\* leaves the other links.
LEMMA LinkReplaced ==
    ASSUME TypeOK, Sound, NEW t \in FileTags, NEW i \in LogicalBlocks,
           Shared(links[t][i]), NEW p,
           links' = [links EXCEPT ![t][i] = p]
    PROVE  \A q \in Blocks : q # p => (q \in bitmap <=> IsLinked(q, links'))
<1>1. /\ \A u \in FileTags \ {t} : links'[u] = links[u]
      /\ \A k \in LogicalBlocks : links'[t][k] = IF k = i THEN p ELSE links[t][k]
  BY DEF TypeOK
<1> SUFFICES ASSUME NEW q \in Blocks, q # p PROVE q \in bitmap <=> IsLinked(q, links')
  OBVIOUS
<1>2. q \in bitmap <=> IsLinked(q, links)
  BY DEF Sound, Marks
<1>3. ASSUME IsLinked(q, links') PROVE IsLinked(q, links)
  <2>1. PICK u \in FileTags, k \in LogicalBlocks : links'[u][k] = q
    BY <1>3 DEF IsLinked
  <2> QED
    BY <2>1, <1>1 DEF IsLinked
<1>4. ASSUME IsLinked(q, links) PROVE IsLinked(q, links')
  <2>1. PICK u \in FileTags, k \in LogicalBlocks : links[u][k] = q
    BY <1>4 DEF IsLinked
  <2>2. CASE u # t \/ k # i
    BY <2>1, <2>2, <1>1 DEF IsLinked
  <2>3. CASE u = t /\ k = i
    <3>1. PICK v \in FileTags, j \in LogicalBlocks :
             links[v][j] = links[t][i] /\ (v # t \/ j # i)
      BY SharedTwice
    <3> QED
      BY <2>1, <2>3, <3>1, <1>1 DEF IsLinked
  <2> QED
    BY <2>2, <2>3
<1> QED
  BY <1>2, <1>3, <1>4

\* WRITE_BLOCK: a shared block is copied, another one is written in place.
LEMMA WriteKeeps ==
    ASSUME TypeOK, NEW t \in FileTags, NEW i \in LogicalBlocks, NEW c \in Contents,
           execute_block_write(t, i, c)
    PROVE  Keeps /\ hash_index' = hash_index
<1>1. CASE Refused
  BY <1>1, RefusedKeeps DEF Refused
<1>2. CASE ~Refused
  <2> DEFINE b == metadata[t].blocks
             old == links[t][i]
             p == get_free_bit_index
  <2>0. Exists(t) /\ ~Committed(t) /\ i <= BlockCount(t) /\ old # NoBlock
    BY <1>2 DEF execute_block_write
  <2>1. directories' = directories /\ hash_index' = hash_index
    BY <1>2 DEF execute_block_write
  <2>2. /\ b \in Seq(Blocks) /\ i \in 1..Len(b) /\ i \in 1..BlockCount(t)
        /\ metadata[t] \in Files /\ Len(b) <= MaxBlocks
        /\ old \in Blocks /\ ~Closed(t)
    <3>1. b \in Seq(Blocks) /\ metadata[t] \in Files /\ BlockCount(t) \in Nat
          /\ BlockCount(t) <= MaxBlocks
      BY <2>0, FileType DEF Files
    <3>2. i \in 1..BlockCount(t)
      BY <2>0, <3>1 DEF LogicalBlocks
    <3>3. old \in Blocks /\ ~Closed(t)
      BY <2>0 DEF TypeOK, Closed
    <3> QED
      BY <3>1, <3>2, <3>3 DEF BlockCount
  <2>3. CASE /\ Shared(old) /\ p \in Blocks
             /\ bitmap' = bitmap \cup {p}
             /\ links' = [links EXCEPT ![t][i] = p]
             /\ metadata' = [metadata EXCEPT ![t].blocks[i] = p]
             /\ content' = [content EXCEPT ![p] = c]
    <3> DEFINE file == [blocks |-> [b EXCEPT ![i] = p], state |-> metadata[t].state]
    <3>1. p \notin bitmap /\ p # NoBlock /\ p \in Blocks
      BY <2>3, FreeBit, Numbers
    <3> HIDE DEF p
    <3>2. /\ [b EXCEPT ![i] = p] \in Seq(Blocks) /\ Len([b EXCEPT ![i] = p]) = Len(b)
          /\ \A k \in 1..Len(b) : [b EXCEPT ![i] = p][k] = IF k = i THEN p ELSE b[k]
      BY <2>2, <3>1, ExceptSeq
    <3>3. metadata' = [metadata EXCEPT ![t] = file]
      <4>1. [metadata[t] EXCEPT !.blocks = [b EXCEPT ![i] = p]] = file
        BY <2>2, OtherBlocks
      <4> QED
        BY <2>3, <4>1
    <3>4. file \in Files /\ Len(file.blocks) = Len(b) /\ Len(file.blocks) <= MaxBlocks
          /\ \A k \in 1..Len(b) : file.blocks[k] = IF k = i THEN p ELSE b[k]
      BY <2>2, <3>2 DEF Files
    <3> HIDE DEF file
    <3>5. /\ metadata' \in [FileTags -> {NoFile} \cup Files]
          /\ \A u \in FileTags : metadata'[u] # NoFile => Len(metadata'[u].blocks) <= MaxBlocks
          /\ metadata'[t] = file
          /\ \A u \in FileTags \ {t} : metadata'[u] = metadata[u]
      BY <3>3, <3>4, MetadataType
    <3>6. /\ links' \in LinkMaps
          /\ \A u \in FileTags \ {t} : links'[u] = links[u]
          /\ \A k \in LogicalBlocks : links'[t][k] = IF k = i THEN p ELSE links[t][k]
      BY <2>3, <3>1 DEF TypeOK, LinkMaps
    <3>7. TypeOK'
      <4>1. bitmap' \subseteq 0..BitmapBits - 1
        BY <2>3, <3>1, Numbers DEF TypeOK
      <4>2. content' \in [Blocks -> Contents]
        BY <2>3, <3>1 DEF TypeOK
      <4> QED
        BY <2>1, <3>5, <3>6, <4>1, <4>2 DEF TypeOK, Files, LinkMaps
    <3>8. ClosedKept
      BY <2>2, <3>5, <3>6 DEF ClosedKept
    <3>9. Sound => Marks(bitmap', links')
      <4> SUFFICES ASSUME Sound, NEW q \in Blocks
                   PROVE  q \in bitmap' <=> IsLinked(q, links')
        BY DEF Marks
      <4>1. CASE q = p
        BY <4>1, <2>3, <3>6 DEF IsLinked
      <4>2. CASE q # p
        <5>1. q \in bitmap <=> IsLinked(q, links')
          BY <4>2, <2>3, LinkReplaced
        <5> QED
          BY <5>1, <4>2, <2>3
      <4> QED
        BY <4>1, <4>2
    <3>10. Sound => ContentKept
      <4> SUFFICES ASSUME Sound, NEW u \in FileTags, NEW k \in LogicalBlocks,
                          links[u][k] # NoBlock
                   PROVE  content'[links[u][k]] = content[links[u][k]]
        BY DEF ContentKept
      <4>1. links[u][k] \in Blocks
        BY DEF TypeOK
      <4>2. links[u][k] # p
        BY <4>1, <3>1 DEF Sound, Marks, IsLinked
      <4> QED
        BY <4>1, <4>2, <2>3 DEF TypeOK
    <3>11. LinksMatchMetadata => LinksMatchMetadata'
      <4> SUFFICES ASSUME LinksMatchMetadata, NEW u \in FileTags, NEW k \in LogicalBlocks
                   PROVE  links'[u][k] = IF Exists(u)' /\ k <= BlockCount(u)'
                                         THEN metadata'[u].blocks[k] ELSE NoBlock
        BY DEF LinksMatchMetadata
      <4>1. CASE u = t
        <5>1. Exists(t)' /\ BlockCount(t)' = BlockCount(t)
          BY <3>4, <3>5, FilesExist DEF Exists, BlockCount
        <5>2. links[t][k] = IF k <= BlockCount(t) THEN b[k] ELSE NoBlock
          BY <2>0 DEF LinksMatchMetadata
        <5>3. k <= BlockCount(t) => k \in 1..Len(b)
          BY <2>2, LenProperties DEF BlockCount, LogicalBlocks
        <5> QED
          BY <4>1, <5>1, <5>2, <5>3, <2>0, <3>4, <3>5, <3>6
      <4>2. CASE u # t
        BY <4>2, <3>5, <3>6 DEF LinksMatchMetadata, Exists, BlockCount
      <4> QED
        BY <4>1, <4>2
    <3> QED
      BY <2>1, <3>7, <3>8, <3>9, <3>10, <3>11 DEF Keeps
  <2>4. CASE /\ Shared(old) /\ p \notin Blocks
             /\ bitmap' = bitmap \cup ({p} \ {NoBlock})
             /\ links' = [links EXCEPT ![t][i] = NoBlock]
             /\ metadata' = metadata /\ content' = content
    <3>1. p = NoBlock \/ p \in 0..BitmapBits - 1
      BY FreeBit
    <3> HIDE DEF p
    <3>2. /\ links' \in LinkMaps
          /\ \A u \in FileTags \ {t} : links'[u] = links[u]
          /\ links'[t][i] = NoBlock
      BY <2>4 DEF TypeOK, LinkMaps
    <3>3. TypeOK'
      <4>1. bitmap' \subseteq 0..BitmapBits - 1
        BY <2>4, <3>1 DEF TypeOK
      <4> QED
        BY <2>1, <2>4, <3>2, <4>1 DEF TypeOK, LinkMaps
    <3>4. ClosedKept /\ ContentKept
      BY <2>2, <2>4, <3>2 DEF ClosedKept, ContentKept
    <3>5. Sound => Marks(bitmap', links')
      <4> SUFFICES ASSUME Sound, NEW q \in Blocks
                   PROVE  q \in bitmap' <=> IsLinked(q, links')
        BY DEF Marks
      <4>1. q # NoBlock /\ q # p
        BY <2>4, Numbers
      <4>2. q \in bitmap <=> IsLinked(q, links')
        BY <4>1, <2>4, LinkReplaced
      <4> QED
        BY <4>1, <4>2, <2>4
    <3>6. ~Intact'
      <4>1. Exists(t)' /\ i \in 1..BlockCount(t)'
        BY <2>0, <2>2, <2>4 DEF Exists, BlockCount
      <4> QED
        BY <4>1, <3>2 DEF Intact
    <3> QED
      BY <2>1, <3>3, <3>4, <3>5, <3>6 DEF Keeps
  <2>5. CASE /\ ~Shared(old)
             /\ content' = [content EXCEPT ![old] = c]
             /\ metadata' = metadata /\ links' = links /\ bitmap' = bitmap
    <3>1. TypeOK'
      <4>1. content' \in [Blocks -> Contents]
        BY <2>2, <2>5 DEF TypeOK
      <4> QED
        BY <2>1, <2>5, <4>1 DEF TypeOK
    <3>2. ClosedKept
      BY <2>5 DEF ClosedKept
    <3>3. ContentKept
      <4> SUFFICES ASSUME NEW u \in FileTags, NEW k \in LogicalBlocks,
                          Closed(u), links[u][k] # NoBlock
                   PROVE  content'[links[u][k]] = content[links[u][k]]
        BY DEF ContentKept
      <4>1. links[u][k] \in Blocks
        BY DEF TypeOK
      <4>2. links[u][k] # old
        BY <2>2, <2>5, NotShared
      <4> QED
        BY <4>1, <4>2, <2>5 DEF TypeOK
    <3>4. Sound => Marks(bitmap', links')
      BY <2>5 DEF Sound, Marks
    <3>5. LinksMatchMetadata => LinksMatchMetadata'
      BY <2>5 DEF LinksMatchMetadata, Exists, BlockCount
    <3> QED
      BY <2>1, <3>1, <3>2, <3>3, <3>4, <3>5 DEF Keeps
  <2>6. \/ Shared(old) /\ CopyOnWrite(t, i, c)
        \/ /\ ~Shared(old)
           /\ content' = [content EXCEPT ![old] = c]
           /\ metadata' = metadata /\ links' = links /\ bitmap' = bitmap
    BY <1>2 DEF execute_block_write
  <2> QED
    BY <2>3, <2>4, <2>5, <2>6 DEF CopyOnWrite
<1> QED
  BY <1>1, <1>2

\* READ_BLOCK changes nothing on the disk.
LEMMA ReadKeeps ==
    ASSUME TypeOK, NEW t \in FileTags, NEW i \in LogicalBlocks, execute_block_read(t, i)
    PROVE  Keeps /\ hash_index' = hash_index
BY RefusedKeeps DEF execute_block_read, Refused

\* A block a committed File:Tag has a link to stays such a block.
LEMMA FrozenStays ==
    ASSUME TypeOK, ClosedKept, ContentKept, NEW p \in Blocks, Frozen(p)
    PROVE  Frozen(p)' /\ content'[p] = content[p]
<1>1. PICK u \in FileTags, k \in LogicalBlocks : Closed(u) /\ links[u][k] = p
  BY DEF Frozen
<1>2. metadata'[u] = metadata[u] /\ links'[u] = links[u] /\ content'[p] = content[p]
  BY <1>1, Numbers DEF ClosedKept, ContentKept
<1>3. Closed(u)' /\ links'[u][k] = p
  BY <1>1, <1>2 DEF Closed, Exists, Committed
<1>4. Frozen(p)'
  BY <1>3 DEF Frozen
<1> QED
  BY <1>2, <1>4

\* The index stays sound when it is not changed.
LEMMA IndexStays ==
    ASSUME TypeOK, ClosedKept, ContentKept, IndexSound, hash_index' = hash_index
    PROVE  IndexSound'
<1> SUFFICES ASSUME NEW c \in Contents, hash_index[c] # NoBlock
             PROVE  content'[hash_index[c]] = c /\ Frozen(hash_index[c])'
  BY DEF IndexSound
<1>1. PICK p : p = hash_index[c]
  OBVIOUS
<1>2. p \in Blocks /\ content[p] = c /\ Frozen(p)
  BY <1>1 DEF TypeOK, IndexSound
<1>3. Frozen(p)' /\ content'[p] = content[p]
  BY <1>2, FrozenStays
<1> QED
  BY <1>1, <1>2, <1>3

\* COMMIT: the blocks of the File:Tag are deduplicated; if that succeeds, the
\* File:Tag is committed and the index saved.
LEMMA CommitKeeps ==
    ASSUME TypeOK, NEW t \in FileTags, execute_tag_commit(t)
    PROVE  Keeps /\ (Sound => ChangeCommitted \/ IndexSound')
<1>1. CASE Refused
  <2>1. Keeps /\ hash_index' = hash_index
    BY <1>1, RefusedKeeps DEF Refused
  <2> QED
    BY <2>1, IndexStays DEF Keeps, Sound
<1>2. CASE ~Refused
  <2> DEFINE d == deduplicate_blocks(t)
             file == [blocks |-> d.blocks, state |-> "COMMITTED"]
  <2>1. /\ Exists(t) /\ ~Committed(t)
        /\ links' = d.links /\ bitmap' = d.bitmap
        /\ directories' = directories /\ content' = content
        /\ \/ d.failed /\ metadata' = metadata /\ hash_index' = hash_index
           \/ ~d.failed /\ hash_index' = d.index /\ metadata' = [metadata EXCEPT ![t] = file]
    BY <1>2 DEF execute_tag_commit
  <2>2. LoopType(t, d)
    BY <2>1, DeduplicatedType
  <2>3. Sound => LoopInv(t, d, BlockCount(t))
    BY <2>1, Deduplicated
  <2> HIDE DEF d
  <2>4. /\ d.links \in LinkMaps /\ d.blocks \in Seq(Blocks)
        /\ d.index \in [Contents -> Blocks \cup {NoBlock}]
        /\ d.bitmap \in SUBSET (0..BitmapBits - 1) /\ d.failed \in BOOLEAN
        /\ Len(d.blocks) = BlockCount(t)
        /\ \A u \in FileTags \ {t} : d.links[u] = links[u]
    BY <2>2 DEF LoopType
  <2>5. /\ BlockCount(t) \in Nat /\ BlockCount(t) <= MaxBlocks
        /\ 1..BlockCount(t) \subseteq LogicalBlocks
    BY <2>1, FileType
  <2>6. file \in Files /\ Len(file.blocks) <= MaxBlocks /\ Len(file.blocks) = BlockCount(t)
        /\ file.blocks = d.blocks /\ file.state = "COMMITTED"
    BY <2>4, <2>5 DEF Files
  <2> HIDE DEF file
  <2>7. /\ metadata' \in [FileTags -> {NoFile} \cup Files]
        /\ \A u \in FileTags : metadata'[u] # NoFile => Len(metadata'[u].blocks) <= MaxBlocks
        /\ \A u \in FileTags \ {t} : metadata'[u] = metadata[u]
        /\ ~d.failed => metadata'[t] = file
    <3>1. CASE metadata' = metadata /\ d.failed
      BY <3>1 DEF TypeOK, Files
    <3>2. CASE metadata' = [metadata EXCEPT ![t] = file]
      BY <2>6, <3>2, MetadataType
    <3> QED
      BY <2>1, <3>1, <3>2
  <2>8. TypeOK'
    <3>1. hash_index' \in [Contents -> Blocks \cup {NoBlock}]
      BY <2>1, <2>4 DEF TypeOK
    <3> QED
      BY <2>1, <2>4, <2>7, <3>1 DEF TypeOK, Files, LinkMaps
  <2>9. ClosedKept /\ ContentKept
    BY <2>1, <2>4, <2>7 DEF ClosedKept, ContentKept, Closed
  <2>10. Sound => Marks(bitmap', links')
    BY <2>1, <2>3 DEF LoopInv
  <2>11. (LinksMatchMetadata /\ Sound) => LinksMatchMetadata'
    <3> SUFFICES ASSUME LinksMatchMetadata, Sound
                 PROVE  LinksMatchMetadata'
      OBVIOUS
    <3>1. \A k \in LogicalBlocks : links[t][k] # NoBlock <=> k <= BlockCount(t)
      <4> TAKE k \in LogicalBlocks
      <4>1. k <= BlockCount(t) => metadata[t].blocks[k] \in Blocks
        <5>1. k <= BlockCount(t) => k \in 1..BlockCount(t)
          BY <2>5 DEF LogicalBlocks
        <5> QED
          BY <5>1, <2>1, FileType
      <4> QED
        BY <4>1, <2>1, Numbers DEF LinksMatchMetadata
    <3>2. ~d.failed
      <4>1. \A k \in 1..BlockCount(t) : k \in LogicalBlocks /\ k <= BlockCount(t)
        BY <2>5
      <4>2. ~ \E k \in 1..BlockCount(t) : links[t][k] = NoBlock
        BY <3>1, <4>1
      <4> QED
        BY <2>3, <4>2 DEF LoopInv
    <3>3. Exists(t)' /\ BlockCount(t)' = BlockCount(t) /\ metadata'[t].blocks = d.blocks
      BY <3>2, <2>6, <2>7, FilesExist DEF Exists, BlockCount
    <3> SUFFICES ASSUME NEW u \in FileTags, NEW k \in LogicalBlocks
                 PROVE  links'[u][k] = IF Exists(u)' /\ k <= BlockCount(u)'
                                       THEN metadata'[u].blocks[k] ELSE NoBlock
      BY DEF LinksMatchMetadata
    <3>4. CASE u = t
      <4>1. IF links[t][k] = NoBlock THEN d.links[t][k] = NoBlock
                                     ELSE d.links[t][k] = d.blocks[k]
        BY <2>3 DEF LoopInv
      <4> QED
        BY <3>4, <4>1, <3>1, <3>3, <2>1
    <3>5. CASE u # t
      BY <3>5, <2>1, <2>4, <2>7 DEF LinksMatchMetadata, Exists, BlockCount
    <3> QED
      BY <3>4, <3>5
  <2>12. Sound => IndexSound'
    <3> SUFFICES ASSUME Sound PROVE IndexSound'
      OBVIOUS
    <3>1. CASE d.failed
      BY <3>1, <2>1, <2>9, IndexStays DEF Sound
    <3>2. CASE ~d.failed
      <4> SUFFICES ASSUME NEW c \in Contents, NEW p, p = d.index[c], p # NoBlock
                   PROVE  content'[p] = c /\ Frozen(p)'
        <5>1. hash_index' = d.index
          BY <3>2, <2>1
        <5>2. ASSUME NEW c \in Contents, NEW p, p = hash_index'[c], Frozen(p)'
              PROVE  Frozen(hash_index[c])'
          BY <5>2 DEF Frozen
        <5> QED
          BY <5>1, <5>2 DEF IndexSound
      <4>2. /\ p \in Blocks /\ content[p] = c
            /\ Frozen(p) \/ \E k \in 1..BlockCount(t) : d.links[t][k] = p
        BY <2>3, <2>4 DEF LoopInv
      <4>3. CASE Frozen(p)
        BY <4>2, <4>3, <2>9, FrozenStays
      <4>4. CASE \E k \in 1..BlockCount(t) : d.links[t][k] = p
        <5>1. PICK k \in 1..BlockCount(t) : d.links[t][k] = p
          BY <4>4
        <5>2. Closed(t)'
          BY <3>2, <2>6, <2>7, FilesExist DEF Closed, Exists, Committed
        <5>3. Frozen(p)'
          BY <5>1, <5>2, <2>1, <2>5 DEF Frozen
        <5> QED
          BY <4>2, <5>3, <2>1
      <4> QED
        BY <4>2, <4>3, <4>4
    <3> QED
      BY <3>1, <3>2
  <2> QED
    BY <2>8, <2>9, <2>10, <2>11, <2>12 DEF Keeps
<1> QED
  BY <1>1, <1>2

-----------------------------------------------------------------------------
(* The invariant is inductive.                                             *)

\* A request keeps the types, the committed File:Tags and the index.
LEMMA RequestKeeps ==
    ASSUME TypeOK, Next
    PROVE  Keeps /\ (Sound => ChangeCommitted \/ IndexSound')
<1>1. ASSUME Keeps /\ hash_index' = hash_index
      PROVE  Keeps /\ (Sound => ChangeCommitted \/ IndexSound')
  BY <1>1, IndexStays DEF Keeps, Sound
<1>2. PICK t \in FileTags :
        \/ create_file(t)
        \/ (ChangeCommitted \/ ~Closed(t)) /\ delete_tag(t)
        \/ execute_tag_commit(t)
        \/ \E n \in 0..MaxBlocks : (ChangeCommitted \/ ~Closed(t)) /\ truncate_file(t, n)
        \/ \E dst \in FileTags : create_tag(t, dst)
        \/ \E i \in LogicalBlocks :
              \/ execute_block_read(t, i)
              \/ \E c \in Contents : execute_block_write(t, i, c)
  BY DEF Next
<1>3. CASE create_file(t)
  BY <1>1, <1>3, CreateKeeps
<1>4. CASE (ChangeCommitted \/ ~Closed(t)) /\ delete_tag(t)
  BY <1>1, <1>4, DeleteKeeps
<1>5. CASE execute_tag_commit(t)
  BY <1>5, CommitKeeps
<1>6. CASE \E n \in 0..MaxBlocks : (ChangeCommitted \/ ~Closed(t)) /\ truncate_file(t, n)
  BY <1>1, <1>6, TruncateKeeps
<1>7. CASE \E dst \in FileTags : create_tag(t, dst)
  BY <1>1, <1>7, TagKeeps
<1>8. CASE \E i \in LogicalBlocks : execute_block_read(t, i)
  BY <1>1, <1>8, ReadKeeps
<1>9. CASE \E i \in LogicalBlocks : \E c \in Contents : execute_block_write(t, i, c)
  BY <1>1, <1>9, WriteKeeps
<1> QED
  BY <1>2, <1>3, <1>4, <1>5, <1>6, <1>7, <1>8, <1>9

\* What init_storage leaves.
LEMMA DiskStart == Init => TypeOK /\ Sound /\ LinksMatchMetadata
<1> SUFFICES ASSUME Init PROVE TypeOK /\ Sound /\ LinksMatchMetadata
  OBVIOUS
<1> DEFINE file == [blocks |-> <<0>>, state |-> "COMMITTED"]
<1>1. /\ metadata = [t \in FileTags |-> IF t = Protected THEN file ELSE NoFile]
      /\ links = [t \in FileTags |-> IF t = Protected THEN [NoLinks EXCEPT ![1] = 0]
                                                      ELSE NoLinks]
      /\ directories = {FileOf(Protected)} /\ bitmap = {0}
      /\ content = [p \in Blocks |-> Zeros] /\ hash_index = [c \in Contents |-> NoBlock]
  BY DEF Init
<1>2. file \in Files /\ Len(file.blocks) = 1 /\ file.blocks[1] = 0 /\ file.state = "COMMITTED"
  <2>1. <<0>> \in Seq(Blocks) /\ Len(<<0>>) = 1 /\ <<0>>[1] = 0
    BY Numbers
  <2> QED
    BY <2>1 DEF Files
<1>3. /\ \A t \in FileTags \ {Protected} : metadata[t] = NoFile /\ links[t] = NoLinks
      /\ metadata[Protected] = file
      /\ \A i \in LogicalBlocks : links[Protected][i] = IF i = 1 THEN 0 ELSE NoBlock
      /\ \A t \in FileTags \ {Protected}, i \in LogicalBlocks : links[t][i] = NoBlock
      /\ links[Protected][1] = 0
  BY <1>1, StorageAssumption, Numbers DEF NoLinks
<1>4. BaseKept
  BY <1>3 DEF BaseKept
<1> HIDE DEF file
<1>5. TypeOK
  <2>1. metadata \in [FileTags -> {NoFile} \cup Files]
    BY <1>1, <1>2
  <2>2. \A t \in FileTags : metadata[t] # NoFile => Len(metadata[t].blocks) <= MaxBlocks
    <3>1. 1 <= MaxBlocks
      BY StorageAssumption
    <3> TAKE t \in FileTags
    <3>2. CASE t = Protected
      BY <3>1, <3>2, <1>2, <1>3
    <3>3. CASE t # Protected
      BY <3>3, <1>3
    <3> QED
      BY <3>2, <3>3
  <2>3. links \in LinkMaps
    BY <1>1, Numbers DEF LinkMaps, NoLinks
  <2>4. directories \subseteq {FileOf(t) : t \in FileTags}
    BY <1>1, StorageAssumption
  <2>5. bitmap \subseteq 0..BitmapBits - 1
    BY <1>1, Numbers
  <2>6. content \in [Blocks -> Contents] /\ hash_index \in [Contents -> Blocks \cup {NoBlock}]
    BY <1>1, StorageAssumption
  <2> QED
    BY <2>1, <2>2, <2>3, <2>4, <2>5, <2>6 DEF TypeOK, Files, LinkMaps
<1>6. Exists(Protected) /\ BlockCount(Protected) = 1
  BY <1>2, <1>3, FilesExist DEF Exists, BlockCount
<1>7. LinksMatchMetadata
  <2> SUFFICES ASSUME NEW t \in FileTags, NEW i \in LogicalBlocks
               PROVE  links[t][i] = IF Exists(t) /\ i <= BlockCount(t)
                                    THEN metadata[t].blocks[i] ELSE NoBlock
    BY DEF LinksMatchMetadata
  <2>1. CASE t = Protected
    <3>1. i <= 1 <=> i = 1
      BY DEF LogicalBlocks
    <3> QED
      BY <2>1, <3>1, <1>2, <1>3, <1>6
  <2>2. CASE t # Protected
    BY <2>2, <1>3 DEF Exists
  <2> QED
    BY <2>1, <2>2
<1>8. Untorn
  BY <1>7 DEF Untorn, LinksMatchMetadata
<1>9. Marks(bitmap, links)
  <2> SUFFICES ASSUME NEW p \in Blocks PROVE p \in bitmap <=> IsLinked(p, links)
    BY DEF Marks
  <2>1. p = 0 => IsLinked(p, links)
    BY <1>3, StorageAssumption, Numbers DEF IsLinked
  <2>2. IsLinked(p, links) => p = 0
    BY <1>3, Numbers DEF IsLinked
  <2> QED
    BY <1>1, <2>1, <2>2
<1>10. content[0] = Zeros /\ IndexSound
  BY <1>1, Numbers DEF IndexSound
<1> QED
  BY <1>1, <1>4, <1>5, <1>7, <1>8, <1>9, <1>10 DEF Sound

\* The invariant holds at the start.
LEMMA StorageStart == MCInit => StorageInv
BY DiskStart DEF MCInit, StorageInv

\* A step of the Storage keeps the invariant.
LEMMA StorageStep ==
    ASSUME StorageInv, [MCNext]_<<vars, full, torn>>
    PROVE  StorageInv'
<1>1. CASE UNCHANGED <<vars, full, torn>>
  <2>1. /\ metadata' = metadata /\ links' = links /\ directories' = directories
        /\ bitmap' = bitmap /\ content' = content /\ hash_index' = hash_index
        /\ full' = full /\ torn' = torn
    BY <1>1 DEF vars, disk
  <2>2. TypeOK'
    BY <2>1 DEF StorageInv, TypeOK
  <2>3. Sound => Sound'
    BY <2>1 DEF Sound, BaseKept, Untorn, Marks, IsLinked, IndexSound, Frozen, Exists,
                BlockCount, Closed, Committed
  <2>4. LinksMatchMetadata => LinksMatchMetadata'
    BY <2>1 DEF LinksMatchMetadata, Exists, BlockCount
  <2> QED
    BY <2>1, <2>2, <2>3, <2>4 DEF StorageInv
<1>2. CASE MCNext
  <2>1. Next /\ full' = (full \/ ~Intact') /\ torn' = (torn \/ ~Untorn')
    BY <1>2 DEF MCNext
  <2>2. TypeOK /\ full \in BOOLEAN /\ torn \in BOOLEAN
    BY DEF StorageInv
  <2>3. Keeps /\ (Sound => ChangeCommitted \/ IndexSound')
    BY <2>1, <2>2, RequestKeeps
  <2>4. TypeOK' /\ full' \in BOOLEAN /\ torn' \in BOOLEAN
    BY <2>1, <2>3 DEF Keeps
  <2>5. ASSUME ~ChangeCommitted, ~torn' PROVE Sound'
    <3>1. Untorn' /\ ~torn
      BY <2>1, <2>5
    <3>2. Sound
      BY <2>5, <3>1 DEF StorageInv
    <3>3. ClosedKept /\ ContentKept /\ Marks(bitmap', links') /\ IndexSound'
      BY <2>3, <2>5, <3>2 DEF Keeps
    <3>4. BaseKept /\ content[0] = Zeros
      BY <3>2 DEF Sound
    <3>5. Closed(Protected) /\ links[Protected][1] = 0
      <4>1. metadata[Protected] = [blocks |-> <<0>>, state |-> "COMMITTED"]
        BY <3>4 DEF BaseKept
      <4>2. metadata[Protected] # NoFile
        <5>1. <<0>> \in Seq(Blocks)
          BY Numbers
        <5>2. metadata[Protected] \in Files
          BY <4>1, <5>1 DEF Files
        <5> QED
          BY <5>2, FilesExist
      <4> QED
        BY <3>4, <4>1, <4>2 DEF Closed, Exists, Committed, BaseKept
    <3>6. BaseKept'
      BY <3>3, <3>4, <3>5, StorageAssumption DEF BaseKept, ClosedKept
    <3>7. content'[0] = Zeros
      BY <3>3, <3>4, <3>5, StorageAssumption, Numbers DEF ContentKept
    <3> QED
      BY <3>1, <3>3, <3>6, <3>7 DEF Sound, Marks, IsLinked
  <2>6. ASSUME ~ChangeCommitted, ~full' PROVE ~torn' /\ LinksMatchMetadata'
    <3>1. Intact' /\ ~full
      BY <2>1, <2>6
    <3>2. ~torn /\ LinksMatchMetadata /\ Sound
      BY <2>6, <3>1 DEF StorageInv
    <3>3. LinksMatchMetadata'
      BY <2>3, <3>1, <3>2 DEF Keeps
    <3>4. Untorn'
      BY <3>3 DEF Untorn, LinksMatchMetadata
    <3> QED
      BY <2>1, <3>2, <3>3, <3>4
  <2> QED
    BY <2>4, <2>5, <2>6 DEF StorageInv
<1> QED
  BY <1>1, <1>2

\* The invariant holds in every state of the Storage.
LEMMA StorageInvariant == MCSpec => []StorageInv
BY StorageStart, StorageStep, PTL DEF MCSpec

-----------------------------------------------------------------------------
(* Theorems about every state.                                             *)

\* Type correctness of the disk, whatever the requests.
THEOREM StorageTypeCorrect == MCSpec => []TypeOK
<1>1. StorageInv => TypeOK
  BY DEF StorageInv
<1> QED
  BY <1>1, StorageInvariant, PTL

\* If committed File:Tags are neither truncated nor deleted, the bitmap marks
\* exactly the blocks with links until a COMMIT fails halfway, even when the
\* Storage has run out of blocks.
THEOREM BlocksAccountedCorrect ==
    ASSUME ChangeCommitted = FALSE
    PROVE  MCSpec => []BlocksAccounted
<1>1. StorageInv => BlocksAccounted
  BY MarksExact DEF StorageInv, Sound, BlocksAccounted
<1> QED
  BY <1>1, StorageInvariant, PTL

\* Under the same condition, metadata and links agree until the Storage is full.
THEOREM LinksExactCorrect ==
    ASSUME ChangeCommitted = FALSE
    PROVE  MCSpec => []LinksExact
<1>1. StorageInv => LinksExact
  BY DEF StorageInv, LinksExact
<1> QED
  BY <1>1, StorageInvariant, PTL

\* Under the same condition, what COMMIT takes for a duplicate is one until a
\* COMMIT fails halfway.
THEOREM IndexExactCorrect ==
    ASSUME ChangeCommitted = FALSE
    PROVE  MCSpec => []IndexExact
<1>1. StorageInv => IndexExact
  BY DEF StorageInv, Sound, IndexSound, IndexExact, IndexCurrent
<1> QED
  BY <1>1, StorageInvariant, PTL

-----------------------------------------------------------------------------
(* Committed data.                                                         *)

\* A File:Tag reads the same when its metadata, its links and the content of
\* its blocks stay.
LEMMA SameData ==
    ASSUME TypeOK, NEW u \in FileTags, metadata'[u] = metadata[u], links'[u] = links[u],
           \A k \in LogicalBlocks : links[u][k] # NoBlock =>
               content'[links[u][k]] = content[links[u][k]]
    PROVE  /\ Exists(u)' = Exists(u)
           /\ Committed(u)' = Committed(u)
           /\ Exists(u) => DataOf(u)' = DataOf(u)
<1>1. Exists(u)' = Exists(u) /\ Committed(u)' = Committed(u) /\ BlockCount(u)' = BlockCount(u)
  BY DEF Exists, Committed, BlockCount
<1>2. ASSUME Exists(u) PROVE DataOf(u)' = DataOf(u)
  <2>1. 1..BlockCount(u) \subseteq LogicalBlocks
    BY <1>2, FileType
  <2>2. \A i \in 1..BlockCount(u) :
          (IF links'[u][i] = NoBlock THEN NoBlock ELSE content'[links'[u][i]]) =
          (IF links[u][i] = NoBlock THEN NoBlock ELSE content[links[u][i]])
    BY <2>1
  <2> QED
    BY <1>1, <2>2 DEF DataOf
<1> QED
  BY <1>1, <1>2

\* If committed File:Tags are neither truncated nor deleted, no request on
\* another File:Tag changes what they read, until a COMMIT has failed halfway.
THEOREM CommittedUnchangedCorrect ==
    ASSUME ChangeCommitted = FALSE
    PROVE  MCSpec => CommittedUnchanged
<1> DEFINE Unchanged == ~torn => \A t \in FileTags :
                          (Closed(t) /\ Exists(t)') => DataOf(t)' = DataOf(t)
<1>1. ASSUME StorageInv, [MCNext]_<<vars, full, torn>>
      PROVE  [Unchanged]_vars
  <2>1. CASE UNCHANGED <<vars, full, torn>>
    BY <2>1
  <2>2. CASE MCNext
    <3> SUFFICES ASSUME ~torn, NEW t \in FileTags, Closed(t)
                 PROVE  DataOf(t)' = DataOf(t)
      OBVIOUS
    <3>1. TypeOK /\ Sound /\ Next
      BY <1>1, <2>2 DEF StorageInv, MCNext
    <3>2. ClosedKept /\ ContentKept
      BY <3>1, RequestKeeps DEF Keeps
    <3>3. metadata'[t] = metadata[t] /\ links'[t] = links[t] /\ Exists(t)
      BY <3>2 DEF ClosedKept, Closed
    <3>4. \A k \in LogicalBlocks : links[t][k] # NoBlock =>
             content'[links[t][k]] = content[links[t][k]]
      BY <3>2 DEF ContentKept
    <3> QED
      BY <3>1, <3>3, <3>4, SameData
  <2> QED
    BY <1>1, <2>1, <2>2
<1> QED
  BY <1>1, StorageInvariant, PTL DEF MCSpec, CommittedUnchanged

-----------------------------------------------------------------------------
(* The Storage implements FileStore.                                       *)

ShownFile(t) == IF Exists(t) THEN [data |-> DataOf(t), committed |-> Committed(t)]
                         ELSE NoFile

AllShown == [t \in FileTags |-> ShownFile(t)]

\* The data of a File:Tag is a sequence, and a shown File:Tag is not NoFile.
LEMMA ShownType ==
    ASSUME TypeOK, NEW t \in FileTags, Exists(t)
    PROVE  /\ DataOf(t) \in Seq(Contents \cup {NoBlock})
           /\ Len(DataOf(t)) = BlockCount(t)
           /\ DOMAIN DataOf(t) = 1..BlockCount(t)
           /\ ShownFile(t) = [data |-> DataOf(t), committed |-> Committed(t)]
           /\ ShownFile(t) # NoFile
<1>1. BlockCount(t) \in Nat /\ 1..BlockCount(t) \subseteq LogicalBlocks
  BY FileType
<1>2. \A i \in 1..BlockCount(t) :
         (IF links[t][i] = NoBlock THEN NoBlock ELSE content[links[t][i]]) \in Contents \cup {NoBlock}
  BY <1>1 DEF TypeOK
<1>3. DataOf(t) \in [1..BlockCount(t) -> Contents \cup {NoBlock}]
  BY <1>2 DEF DataOf
<1>4. DataOf(t) \in Seq(Contents \cup {NoBlock})
  BY <1>1, <1>3, SeqDef
<1>5. DOMAIN DataOf(t) = 1..BlockCount(t) /\ Len(DataOf(t)) = BlockCount(t)
  BY <1>1, <1>3, <1>4, LenProperties
<1>6. ShownFile(t) = [data |-> DataOf(t), committed |-> Committed(t)]
  BY DEF ShownFile
<1>7. [data |-> DataOf(t), committed |-> Committed(t)] \in
         [data : Seq(Contents \cup {NoBlock}), committed : BOOLEAN]
  BY <1>4 DEF Committed
<1> QED
  BY <1>4, <1>5, <1>6, <1>7, StorageAssumption

\* Where links and metadata agree, block i reads what its block holds.
LEMMA DataOfBlocks ==
    ASSUME TypeOK, LinksMatchMetadata, NEW t \in FileTags, Exists(t)
    PROVE  DataOf(t) = [i \in 1..BlockCount(t) |-> content[metadata[t].blocks[i]]]
<1>1. /\ 1..BlockCount(t) \subseteq LogicalBlocks /\ BlockCount(t) \in Nat
      /\ \A i \in 1..BlockCount(t) : metadata[t].blocks[i] \in Blocks
  BY FileType
<1>2. ASSUME NEW i \in 1..BlockCount(t)
      PROVE  links[t][i] = metadata[t].blocks[i] /\ links[t][i] # NoBlock
  BY <1>1, Numbers DEF LinksMatchMetadata
<1> QED
  BY <1>2 DEF DataOf

\* One File:Tag shows something else.
LEMMA ShownChanged ==
    ASSUME NEW t \in FileTags, NEW file, ShownFile(t)' = file,
           \A u \in FileTags \ {t} : ShownFile(u)' = ShownFile(u)
    PROVE  AllShown' = [AllShown EXCEPT ![t] = file]
BY DEF AllShown

\* A File:Tag shows the same when nothing of it changes.
LEMMA ShownSame ==
    ASSUME TypeOK, NEW u \in FileTags, metadata'[u] = metadata[u], links'[u] = links[u],
           \A k \in LogicalBlocks : links[u][k] # NoBlock =>
               content'[links[u][k]] = content[links[u][k]]
    PROVE  ShownFile(u)' = ShownFile(u)
BY SameData DEF ShownFile

\* What the requests of FileStore look at, in terms of what is shown.
LEMMA FileStoreShown ==
    ASSUME NEW t \in FileTags
    PROVE  /\ FS!Exists(t) <=> ShownFile(t) # NoFile
           /\ FS!Open(t) <=> ShownFile(t) # NoFile /\ ~ShownFile(t).committed
           /\ \A file : answer' = <<>> /\ AllShown' = [AllShown EXCEPT ![t] = file] =>
                            FS!Changed(t, file)
BY DEF AllShown, ShownFile, FS!Changed, FS!Exists, FS!Open

\* A request that is refused.
LEMMA ShowsRefuse ==
    ASSUME answer' = <<>>, AllShown' = AllShown
    PROVE  FS!Next
<1>1. FS!Refuse
  BY DEF AllShown, ShownFile, FS!Refuse
<1> QED
  BY <1>1 DEF FS!Next

\* READ_BLOCK answers the data.
LEMMA ShowsRead ==
    ASSUME NEW t \in FileTags, NEW i \in LogicalBlocks, ShownFile(t) # NoFile,
           i \in DOMAIN ShownFile(t).data,
           answer' = <<ShownFile(t).data[i]>>, AllShown' = AllShown
    PROVE  FS!Next
<1>1. FS!Read(t, i)
  BY DEF AllShown, ShownFile, FS!Read, FS!Exists
<1> QED
  BY <1>1 DEF FS!Next, LogicalBlocks

\* CREATE.
LEMMA ShowsCreate ==
    ASSUME NEW t \in FileTags, ShownFile(t) = NoFile, answer' = <<>>,
           AllShown' = [AllShown EXCEPT ![t] = [data |-> <<>>, committed |-> FALSE]]
    PROVE  FS!Next
<1>1. FS!Create(t)
  BY FileStoreShown DEF FS!Create, FS!Stored
<1> QED
  BY <1>1 DEF FS!Next

\* DELETE.
LEMMA ShowsDelete ==
    ASSUME NEW t \in FileTags, ShownFile(t) # NoFile, t # Protected, answer' = <<>>,
           AllShown' = [AllShown EXCEPT ![t] = NoFile]
    PROVE  FS!Next
<1>1. FS!Delete(t)
  BY FileStoreShown DEF FS!Delete
<1> QED
  BY <1>1 DEF FS!Next

\* COMMIT.
LEMMA ShowsCommit ==
    ASSUME NEW t \in FileTags, ShownFile(t) # NoFile, ~ShownFile(t).committed, answer' = <<>>,
           AllShown' = [AllShown EXCEPT ![t] = [data |-> ShownFile(t).data, committed |-> TRUE]]
    PROVE  FS!Next
<1>1. FS!Open(t) /\ FS!Changed(t, [data |-> ShownFile(t).data, committed |-> TRUE])
  BY FileStoreShown
<1>2. FS!Commit(t)
  BY <1>1 DEF FS!Commit, FS!Stored, ShownFile
<1> QED
  BY <1>2 DEF FS!Next

\* TRUNCATE.
LEMMA ShowsTruncate ==
    ASSUME NEW t \in FileTags, NEW n \in 0..MaxBlocks,
           ShownFile(t) # NoFile, ~ShownFile(t).committed, answer' = <<>>,
           AllShown' = [AllShown EXCEPT ![t] =
              [data |-> [i \in 1..n |-> IF i <= Len(ShownFile(t).data) THEN ShownFile(t).data[i] ELSE Zeros],
               committed |-> FALSE]]
    PROVE  FS!Next
<1>1. FS!Open(t) /\ FS!Changed(t,
              [data |-> [i \in 1..n |-> IF i <= Len(ShownFile(t).data) THEN ShownFile(t).data[i] ELSE Zeros],
               committed |-> FALSE])
  BY FileStoreShown
<1>2. FS!Truncate(t, n)
  BY <1>1 DEF FS!Truncate, FS!Stored, ShownFile
<1> QED
  BY <1>2 DEF FS!Next

\* TAG.
LEMMA ShowsTag ==
    ASSUME NEW t \in FileTags, NEW dst \in FileTags, ShownFile(t) # NoFile, ShownFile(dst) = NoFile,
           answer' = <<>>,
           AllShown' = [AllShown EXCEPT ![dst] = [data |-> ShownFile(t).data, committed |-> FALSE]]
    PROVE  FS!Next
<1>1. FS!Exists(t) /\ ~FS!Exists(dst)
      /\ FS!Changed(dst, [data |-> ShownFile(t).data, committed |-> FALSE])
  BY FileStoreShown
<1>2. FS!Tag(t, dst)
  BY <1>1 DEF FS!Tag, FS!Stored, ShownFile
<1> QED
  BY <1>2 DEF FS!Next

\* WRITE_BLOCK.
LEMMA ShowsWrite ==
    ASSUME NEW t \in FileTags, NEW i \in LogicalBlocks, NEW c \in Contents,
           ShownFile(t) # NoFile, ~ShownFile(t).committed, i \in DOMAIN ShownFile(t).data, answer' = <<>>,
           AllShown' = [AllShown EXCEPT ![t] =
                          [data |-> [ShownFile(t).data EXCEPT ![i] = c], committed |-> FALSE]]
    PROVE  FS!Next
<1>1. FS!Open(t) /\ FS!Changed(t, [data |-> [ShownFile(t).data EXCEPT ![i] = c], committed |-> FALSE])
  BY FileStoreShown
<1>2. FS!Write(t, i, c)
  BY <1>1 DEF FS!Write, FS!Stored, ShownFile
<1> QED
  BY <1>2 DEF FS!Next, LogicalBlocks

\* The data of every File:Tag, where links and metadata agree.
PlainData ==
    \A t \in FileTags : Exists(t) =>
        DataOf(t) = [i \in 1..BlockCount(t) |-> content[metadata[t].blocks[i]]]

\* So it is after a step, too.
LEMMA PlainDataNext ==
    TypeOK' /\ LinksMatchMetadata' => PlainData'
<1>1. TypeOK /\ LinksMatchMetadata => PlainData
  BY DataOfBlocks DEF PlainData
<1> QED
  BY <1>1, PTL

\* FileStore starts as the Storage does.
LEMMA StartRefines == MCInit => FS!Init
<1> SUFFICES ASSUME MCInit PROVE FS!Init
  OBVIOUS
<1>1. StorageInv
  BY StorageStart
<1>2. TypeOK
  BY <1>1 DEF StorageInv
<1>3. /\ \A t \in FileTags \ {Protected} : metadata[t] = NoFile
      /\ metadata[Protected] = [blocks |-> <<0>>, state |-> "COMMITTED"]
      /\ links[Protected][1] = 0 /\ content[0] = Zeros /\ answer = <<>>
  BY StorageAssumption, Numbers DEF MCInit, Init, NoLinks
<1>4. Exists(Protected) /\ Committed(Protected) /\ BlockCount(Protected) = 1
  <2>1. <<0>> \in Seq(Blocks) /\ Len(<<0>>) = 1
    BY Numbers
  <2>2. [blocks |-> <<0>>, state |-> "COMMITTED"] \in Files
    BY <2>1 DEF Files
  <2> QED
    BY <2>1, <2>2, <1>3, FilesExist DEF Exists, Committed, BlockCount
<1>5. DataOf(Protected) = <<Zeros>>
  <2>1. DataOf(Protected) = [i \in 1..1 |-> Zeros]
    BY <1>3, <1>4, Numbers DEF DataOf
  <2> QED
    BY <2>1
<1>6. \A t \in FileTags : ShownFile(t) = IF t = Protected
                                     THEN [data |-> <<Zeros>>, committed |-> TRUE] ELSE NoFile
  BY <1>3, <1>4, <1>5 DEF ShownFile, Exists
<1> QED
  BY <1>3, <1>6 DEF FS!Init, FS!Stored, ShownFile

\* The steps of the Storage on a disk that is not full.
Plain ==
    TypeOK /\ Sound /\ LinksMatchMetadata /\ TypeOK' /\ LinksMatchMetadata'

\* A refused request shows nothing new.
LEMMA RefusedRefines ==
    ASSUME TypeOK, Refused
    PROVE  FS!Next
<1>1. /\ metadata' = metadata /\ links' = links /\ content' = content /\ answer' = <<>>
  BY DEF Refused, disk
<1>2. AllShown' = AllShown
  BY <1>1, ShownSame DEF AllShown
<1> QED
  BY <1>1, <1>2, ShowsRefuse

\* create_file shows an empty File:Tag.
LEMMA CreateRefines ==
    ASSUME Plain, NEW t \in FileTags, create_file(t)
    PROVE  FS!Next
<1> DEFINE file == [blocks |-> <<>>, state |-> "WORK_IN_PROGRESS"]
<1>1. CASE Refused
  BY <1>1, RefusedRefines DEF Plain
<1>2. CASE ~Exists(t) /\ ~Refused
  <2>1. /\ metadata' = [metadata EXCEPT ![t] = file]
        /\ links' = links /\ content' = content /\ answer' = <<>>
    BY <1>2 DEF create_file
  <2>2. metadata'[t] = file /\ \A u \in FileTags \ {t} : metadata'[u] = metadata[u]
    BY <2>1 DEF Plain, TypeOK
  <2>3. file \in Files /\ file.blocks = <<>> /\ file.state = "WORK_IN_PROGRESS"
    BY EmptySeq DEF Files
  <2> HIDE DEF file
  <2>4. \A u \in FileTags \ {t} : ShownFile(u)' = ShownFile(u)
    BY <2>1, <2>2, ShownSame DEF Plain
  <2>5. Exists(t)' /\ ~Committed(t)' /\ BlockCount(t)' = 0
    BY <2>2, <2>3, FilesExist DEF Exists, Committed, BlockCount
  <2>6. DataOf(t)' = <<>>
    BY <2>5 DEF DataOf
  <2>7. Committed(t)' = FALSE
    BY <2>5 DEF Committed
  <2>8. ShownFile(t)' = [data |-> <<>>, committed |-> FALSE]
    BY <2>5, <2>6, <2>7 DEF ShownFile
  <2>9. AllShown' = [AllShown EXCEPT ![t] = [data |-> <<>>, committed |-> FALSE]]
    BY <2>4, <2>8, ShownChanged
  <2> QED
    BY <1>2, <2>1, <2>9, ShowsCreate DEF ShownFile
<1> QED
  BY <1>1, <1>2 DEF create_file

\* create_tag shows the data of the other tag, open.
LEMMA TagRefines ==
    ASSUME Plain, NEW t \in FileTags, NEW dst \in FileTags, create_tag(t, dst)
    PROVE  FS!Next
<1> DEFINE file == [blocks |-> metadata[t].blocks, state |-> "WORK_IN_PROGRESS"]
<1>1. CASE Refused
  BY <1>1, RefusedRefines DEF Plain
<1>2. CASE ~Exists(dst) /\ Exists(t) /\ ~Refused
  <2>1. /\ metadata' = [metadata EXCEPT ![dst] = file]
        /\ links' = [links EXCEPT ![dst] = links[t]]
        /\ content' = content /\ answer' = <<>>
    BY <1>2 DEF create_tag
  <2>2. /\ metadata'[dst] = file /\ \A u \in FileTags \ {dst} : metadata'[u] = metadata[u]
        /\ links'[dst] = links[t] /\ \A u \in FileTags \ {dst} : links'[u] = links[u]
    BY <2>1 DEF Plain, TypeOK
  <2>3. file \in Files /\ file.blocks = metadata[t].blocks /\ file.state = "WORK_IN_PROGRESS"
    BY <1>2, FileType DEF Files, Plain
  <2> HIDE DEF file
  <2>4. \A u \in FileTags \ {dst} : ShownFile(u)' = ShownFile(u)
    BY <2>1, <2>2, ShownSame DEF Plain
  <2>5. Exists(dst)' /\ Committed(dst)' = FALSE /\ BlockCount(dst)' = BlockCount(t)
    BY <2>2, <2>3, FilesExist DEF Exists, Committed, BlockCount
  <2>6. DataOf(dst)' = DataOf(t)
    BY <2>1, <2>2, <2>5 DEF DataOf
  <2>7. ShownFile(dst)' = [data |-> DataOf(t), committed |-> FALSE]
    BY <2>5, <2>6 DEF ShownFile
  <2>8. ShownFile(t) # NoFile /\ ShownFile(t).data = DataOf(t)
    BY <1>2, ShownType DEF Plain
  <2>9. AllShown' = [AllShown EXCEPT ![dst] = [data |-> ShownFile(t).data, committed |-> FALSE]]
    BY <2>4, <2>7, <2>8, ShownChanged
  <2> QED
    BY <1>2, <2>1, <2>8, <2>9, ShowsTag DEF ShownFile
<1> QED
  BY <1>1, <1>2 DEF create_tag

\* delete_tag, on a disk without broken links, shows the File:Tag gone.
LEMMA DeleteRefines ==
    ASSUME Plain, NEW t \in FileTags, delete_tag(t)
    PROVE  FS!Next
<1>1. CASE Refused
  BY <1>1, RefusedRefines DEF Plain
<1>2. CASE ~Refused
  <2> DEFINE Broken == {i \in 1..BlockCount(t) : links[t][i] = NoBlock}
  <2>1. Exists(t) /\ t # Protected /\ answer' = <<>> /\ content' = content
    BY <1>2 DEF delete_tag
  <2>2. BlockCount(t) \in Nat /\ 1..BlockCount(t) \subseteq LogicalBlocks
        /\ \A i \in 1..BlockCount(t) : metadata[t].blocks[i] \in Blocks
    BY <2>1, FileType DEF Plain
  <2>3. Broken = {}
    BY <2>1, <2>2, Numbers DEF Plain, LinksMatchMetadata
  <2>4. /\ delete_logical_blocks(t, 1, BlockCount(t))
        /\ metadata' = [metadata EXCEPT ![t] = NoFile]
    BY <1>2, <2>3 DEF delete_tag
  <2>5. \A u \in FileTags \ {t} : links'[u] = links[u]
    <3>1. 1 \in Nat \ {0} /\ BlockCount(t) \in 0..BlockCount(t)
      BY <2>2
    <3> QED
      BY <3>1, <2>1, <2>4, BlocksDeleted DEF Plain
  <2>6. metadata'[t] = NoFile /\ \A u \in FileTags \ {t} : metadata'[u] = metadata[u]
    BY <2>4 DEF Plain, TypeOK
  <2>7. \A u \in FileTags \ {t} : ShownFile(u)' = ShownFile(u)
    BY <2>1, <2>5, <2>6, ShownSame DEF Plain
  <2>8. ShownFile(t)' = NoFile
    BY <2>6 DEF ShownFile, Exists
  <2>9. AllShown' = [AllShown EXCEPT ![t] = NoFile]
    BY <2>7, <2>8, ShownChanged
  <2>10. ShownFile(t) # NoFile
    BY <2>1, ShownType DEF Plain
  <2> QED
    BY <2>1, <2>9, <2>10, ShowsDelete
<1> QED
  BY <1>1, <1>2

\* execute_block_read answers what is shown.
LEMMA ReadRefines ==
    ASSUME Plain, NEW t \in FileTags, NEW i \in LogicalBlocks, execute_block_read(t, i)
    PROVE  FS!Next
<1>1. CASE Refused
  BY <1>1, RefusedRefines DEF Plain
<1>2. CASE ~Refused
  <2>1. /\ Exists(t) /\ i <= BlockCount(t) /\ links[t][i] # NoBlock
        /\ answer' = <<content[links[t][i]]>>
        /\ metadata' = metadata /\ links' = links /\ content' = content
    BY <1>2 DEF execute_block_read, disk
  <2>2. BlockCount(t) \in Nat /\ i \in 1..BlockCount(t)
    <3>1. BlockCount(t) \in Nat
      BY <2>1, FileType DEF Plain
    <3> QED
      BY <3>1, <2>1 DEF LogicalBlocks
  <2>3. /\ ShownFile(t) # NoFile /\ ShownFile(t).data = DataOf(t)
        /\ DOMAIN DataOf(t) = 1..BlockCount(t)
    BY <2>1, ShownType DEF Plain
  <2>4. DataOf(t)[i] = content[links[t][i]]
    BY <2>1, <2>2 DEF DataOf
  <2>5. AllShown' = AllShown
    BY <2>1, ShownSame DEF AllShown, Plain
  <2> QED
    BY <2>1, <2>2, <2>3, <2>4, <2>5, ShowsRead
<1> QED
  BY <1>1, <1>2

\* truncate_file shows fewer blocks, or more of zeros.
LEMMA TruncateRefines ==
    ASSUME Plain, NEW t \in FileTags, ~Closed(t), NEW n \in 0..MaxBlocks, truncate_file(t, n)
    PROVE  FS!Next
<1>1. CASE Refused
  BY <1>1, RefusedRefines DEF Plain
<1>2. CASE ~Refused
  <2> DEFINE b == metadata[t].blocks
             X == [i \in 1..n |-> IF i <= Len(DataOf(t)) THEN DataOf(t)[i] ELSE Zeros]
  <2>1. Exists(t) /\ ~Committed(t) /\ answer' = <<>> /\ content' = content
    BY <1>2 DEF truncate_file, Closed
  <2>2. /\ b \in Seq(Blocks) /\ Len(b) \in Nat /\ BlockCount(t) = Len(b) /\ n \in Nat
        /\ metadata[t] \in Files /\ metadata[t].state # "COMMITTED"
    <3>1. /\ b \in Seq(Blocks) /\ BlockCount(t) \in Nat
          /\ metadata[t] \in Files
      BY <2>1, FileType DEF Files, Plain
    <3>2. BlockCount(t) = Len(b) /\ metadata[t].state # "COMMITTED"
      BY <2>1 DEF BlockCount, Committed
    <3> QED
      BY <3>1, <3>2, Numbers
  <2>3. PICK nb : /\ nb \in Seq(Blocks) /\ Len(nb) = n
                  /\ \A i \in 1..n : nb[i] = IF i <= Len(b) THEN b[i] ELSE 0
                  /\ metadata' = [metadata EXCEPT ![t] = [blocks |-> nb, state |-> metadata[t].state]]
                  /\ \A u \in FileTags \ {t} : links'[u] = links[u]
    <3>1. CASE /\ n <= BlockCount(t)
               /\ delete_logical_blocks(t, n + 1, BlockCount(t))
               /\ metadata' = [metadata EXCEPT ![t].blocks = SubSeq(@, 1, n)]
      <4>1. [metadata[t] EXCEPT !.blocks = SubSeq(b, 1, n)] =
               [blocks |-> SubSeq(b, 1, n), state |-> metadata[t].state]
        BY <2>2, OtherBlocks
      <4>2. metadata' = [metadata EXCEPT ![t] =
                           [blocks |-> SubSeq(b, 1, n), state |-> metadata[t].state]]
        BY <3>1, <4>1
      <4>3. /\ SubSeq(b, 1, n) \in Seq(Blocks) /\ Len(SubSeq(b, 1, n)) = n
            /\ \A i \in 1..n : SubSeq(b, 1, n)[i] = b[i]
        BY <2>2, <3>1, TruncatedBlocks
      <4>4. \A u \in FileTags \ {t} : links'[u] = links[u]
        <5>1. n + 1 \in Nat \ {0} /\ BlockCount(t) \in 0..BlockCount(t)
          BY <2>2
        <5> QED
          BY <5>1, <2>1, <3>1, BlocksDeleted DEF Plain
      <4>5. \A i \in 1..n : i <= Len(b)
        BY <2>2, <3>1
      <4> QED
        BY <4>2, <4>3, <4>4, <4>5
    <3>2. CASE /\ n > BlockCount(t)
               /\ links' = [links EXCEPT ![t] = [i \in LogicalBlocks |->
                              IF i \in BlockCount(t) + 1..n THEN 0 ELSE links[t][i]]]
               /\ metadata' = [metadata EXCEPT ![t].blocks =
                                 @ \o [i \in 1..n - Len(@) |-> 0]]
      <4> DEFINE z == [i \in 1..n - Len(b) |-> 0]
      <4>1. [metadata[t] EXCEPT !.blocks = b \o z] = [blocks |-> b \o z, state |-> metadata[t].state]
        BY <2>2, OtherBlocks
      <4>2. metadata' = [metadata EXCEPT ![t] = [blocks |-> b \o z, state |-> metadata[t].state]]
        BY <3>2, <4>1
      <4>3. /\ b \o z \in Seq(Blocks) /\ Len(b \o z) = n
            /\ \A i \in 1..n : (b \o z)[i] = IF i <= Len(b) THEN b[i] ELSE 0
        BY <2>2, <3>2, TruncatedBlocks
      <4>4. \A u \in FileTags \ {t} : links'[u] = links[u]
        BY <3>2 DEF Plain, TypeOK
      <4> HIDE DEF z
      <4> QED
        BY <4>2, <4>3, <4>4
    <3> QED
      BY <1>2, <3>1, <3>2 DEF truncate_file
  <2> DEFINE file == [blocks |-> nb, state |-> metadata[t].state]
  <2>4. file \in Files /\ file.blocks = nb /\ file.state # "COMMITTED"
    BY <2>2, <2>3 DEF Files
  <2>5. metadata'[t] = file /\ \A u \in FileTags \ {t} : metadata'[u] = metadata[u]
    BY <2>3 DEF Plain, TypeOK
  <2> HIDE DEF file
  <2>6. \A u \in FileTags \ {t} : ShownFile(u)' = ShownFile(u)
    BY <2>1, <2>3, <2>5, ShownSame DEF Plain
  <2>7. Exists(t)' /\ Committed(t)' = FALSE /\ BlockCount(t)' = n
    BY <2>3, <2>4, <2>5, FilesExist DEF Exists, Committed, BlockCount
  <2>8. DataOf(t)' = [i \in 1..n |-> content[nb[i]]]
    <3>1. PlainData'
      BY PlainDataNext DEF Plain
    <3> QED
      BY <3>1, <2>1, <2>4, <2>5, <2>7 DEF PlainData
  <2>9. /\ ShownFile(t) # NoFile /\ ShownFile(t).data = DataOf(t) /\ Len(DataOf(t)) = Len(b)
        /\ ShownFile(t).committed = FALSE
    <3>1. Committed(t) = FALSE /\ TypeOK
      BY <2>1 DEF Committed, Plain
    <3>2. /\ ShownFile(t) = [data |-> DataOf(t), committed |-> Committed(t)]
          /\ ShownFile(t) # NoFile /\ Len(DataOf(t)) = BlockCount(t)
      BY <2>1, <3>1, ShownType
    <3> QED
      BY <3>1, <3>2, <2>2
  <2>10. DataOf(t) = [i \in 1..Len(b) |-> content[b[i]]]
    BY <2>1, <2>2, DataOfBlocks DEF Plain
  <2>11. content[0] = Zeros
    BY DEF Plain, Sound
  <2>12. ASSUME NEW i \in 1..n
         PROVE  content[nb[i]] = IF i <= Len(DataOf(t)) THEN DataOf(t)[i] ELSE Zeros
    <3>1. CASE i <= Len(b)
      <4>1. i \in 1..Len(b)
        BY <3>1, <2>2
      <4> QED
        BY <3>1, <4>1, <2>3, <2>9, <2>10
    <3>2. CASE ~(i <= Len(b))
      BY <3>2, <2>3, <2>9, <2>11
    <3> QED
      BY <3>1, <3>2
  <2>13. DataOf(t)' = X
    BY <2>8, <2>12
  <2>14. ShownFile(t)' = [data |-> X, committed |-> FALSE]
    BY <2>7, <2>13 DEF ShownFile
  <2>15. AllShown' = [AllShown EXCEPT ![t] = [data |-> X, committed |-> FALSE]]
    BY <2>6, <2>14, ShownChanged
  <2>16. X = [i \in 1..n |-> IF i <= Len(ShownFile(t).data) THEN ShownFile(t).data[i] ELSE Zeros]
    BY <2>9
  <2> HIDE DEF X
  <2>17. AllShown' = [AllShown EXCEPT ![t] =
           [data |-> [i \in 1..n |-> IF i <= Len(ShownFile(t).data) THEN ShownFile(t).data[i] ELSE Zeros],
            committed |-> FALSE]]
    BY <2>15, <2>16
  <2> QED
    BY <2>1, <2>9, <2>17, ShowsTruncate
<1> QED
  BY <1>1, <1>2

\* execute_block_write shows the new block in one File:Tag only.
LEMMA WriteRefines ==
    ASSUME Plain, NEW t \in FileTags, NEW i \in LogicalBlocks, NEW c \in Contents,
           execute_block_write(t, i, c)
    PROVE  FS!Next
<1>1. CASE Refused
  BY <1>1, RefusedRefines DEF Plain
<1>2. CASE ~Refused
  <2> DEFINE b == metadata[t].blocks
             old == links[t][i]
             p == get_free_bit_index
             X == [DataOf(t) EXCEPT ![i] = c]
  <2>1. Exists(t) /\ ~Committed(t) /\ i <= BlockCount(t) /\ old # NoBlock /\ answer' = <<>>
    BY <1>2 DEF execute_block_write
  <2>2. /\ b \in Seq(Blocks) /\ Len(b) \in Nat /\ i \in 1..Len(b) /\ BlockCount(t) = Len(b)
        /\ metadata[t] \in Files /\ metadata[t].state # "COMMITTED"
        /\ old \in Blocks /\ TypeOK
        /\ 1..Len(b) \subseteq LogicalBlocks
        /\ \A k \in 1..Len(b) : links[t][k] = b[k] /\ b[k] \in Blocks
    <3>1. b \in Seq(Blocks) /\ metadata[t] \in Files /\ Len(b) \in Nat /\ BlockCount(t) = Len(b)
          /\ 1..Len(b) \subseteq LogicalBlocks
          /\ \A k \in 1..Len(b) : b[k] \in Blocks
      BY <2>1, FileType DEF Files, Plain, BlockCount
    <3>2. i \in 1..Len(b)
      BY <2>1, <3>1 DEF LogicalBlocks
    <3>3. old \in Blocks /\ TypeOK /\ metadata[t].state # "COMMITTED"
      BY <2>1 DEF Plain, TypeOK, Committed
    <3>4. \A k \in 1..Len(b) : links[t][k] = b[k]
      BY <2>1, <3>1 DEF Plain, LinksMatchMetadata
    <3> QED
      BY <3>1, <3>2, <3>3, <3>4
  <2>3. /\ ShownFile(t) # NoFile /\ ShownFile(t).data = DataOf(t)
        /\ ShownFile(t).committed = FALSE /\ DOMAIN DataOf(t) = 1..Len(b)
    <3>1. Committed(t) = FALSE
      BY <2>1 DEF Committed
    <3>2. /\ ShownFile(t) = [data |-> DataOf(t), committed |-> Committed(t)]
          /\ ShownFile(t) # NoFile /\ DOMAIN DataOf(t) = 1..BlockCount(t)
      BY <2>1, <2>2, ShownType
    <3> QED
      BY <3>1, <3>2, <2>2
  <2>4. DataOf(t) = [k \in 1..Len(b) |-> content[b[k]]]
    BY <2>1, <2>2, DataOfBlocks DEF Plain
  <2>5. ASSUME /\ \A u \in FileTags \ {t} : ShownFile(u)' = ShownFile(u)
               /\ ShownFile(t)' = [data |-> X, committed |-> FALSE]
        PROVE  FS!Next
    <3>1. AllShown' = [AllShown EXCEPT ![t] = [data |-> X, committed |-> FALSE]]
      BY <2>5, ShownChanged
    <3> QED
      BY <3>1, <2>1, <2>2, <2>3, ShowsWrite
  <2>6. CASE /\ Shared(old) /\ p \in Blocks
             /\ links' = [links EXCEPT ![t][i] = p]
             /\ metadata' = [metadata EXCEPT ![t].blocks[i] = p]
             /\ content' = [content EXCEPT ![p] = c]
    <3> DEFINE nb == [b EXCEPT ![i] = p]
               file == [blocks |-> nb, state |-> metadata[t].state]
    <3>1. p \notin bitmap /\ p \in Blocks
      BY <2>2, <2>6, FreeBit, Numbers
    <3> HIDE DEF p
    <3>2. /\ nb \in Seq(Blocks) /\ Len(nb) = Len(b)
          /\ \A k \in 1..Len(b) : nb[k] = IF k = i THEN p ELSE b[k]
      BY <2>2, <3>1, ExceptSeq
    <3>3. metadata' = [metadata EXCEPT ![t] = file]
      <4>1. [metadata[t] EXCEPT !.blocks = nb] = file
        BY <2>2, OtherBlocks
      <4> QED
        BY <2>6, <4>1
    <3> HIDE DEF nb
    <3>4. file \in Files /\ file.blocks = nb /\ file.state # "COMMITTED"
      BY <2>2, <3>2 DEF Files
    <3> HIDE DEF file
    <3>5. /\ metadata'[t] = file /\ \A u \in FileTags \ {t} : metadata'[u] = metadata[u]
          /\ \A u \in FileTags \ {t} : links'[u] = links[u]
      BY <2>2, <2>6, <3>3 DEF TypeOK
    <3>6. ASSUME NEW u \in FileTags, NEW k \in LogicalBlocks, links[u][k] # NoBlock
          PROVE  links[u][k] # p /\ content'[links[u][k]] = content[links[u][k]]
      <4>1. links[u][k] \in Blocks
        BY <3>6, <2>2 DEF TypeOK
      <4>2. links[u][k] # p
        BY <4>1, <3>1 DEF Plain, Sound, Marks, IsLinked
      <4> QED
        BY <4>1, <4>2, <2>2, <2>6 DEF TypeOK
    <3>7. \A u \in FileTags \ {t} : ShownFile(u)' = ShownFile(u)
      BY <2>2, <3>5, <3>6, ShownSame
    <3>8. Exists(t)' /\ Committed(t)' = FALSE /\ BlockCount(t)' = Len(b)
      BY <3>2, <3>4, <3>5, FilesExist DEF Exists, Committed, BlockCount
    <3>9. DataOf(t)' = [k \in 1..Len(b) |-> content'[nb[k]]]
      <4>1. PlainData'
        BY PlainDataNext DEF Plain
      <4> QED
        BY <4>1, <3>4, <3>5, <3>8 DEF PlainData
    <3>10. ASSUME NEW k \in 1..Len(b) PROVE content'[nb[k]] = X[k]
      <4>1. CASE k = i
        BY <4>1, <2>2, <2>3, <2>6, <3>1, <3>2 DEF TypeOK
      <4>2. CASE k # i
        <5>1. nb[k] = links[t][k] /\ k \in LogicalBlocks /\ links[t][k] # NoBlock
          BY <4>2, <2>2, <3>2, Numbers
        <5>2. content'[nb[k]] = content[b[k]]
          BY <5>1, <3>6, <2>2
        <5> QED
          BY <5>2, <4>2, <2>3, <2>4
      <4> QED
        BY <4>1, <4>2
    <3>11. X = [k \in 1..Len(b) |-> X[k]]
      BY <2>4
    <3>12. DataOf(t)' = X
      BY <3>9, <3>10, <3>11
    <3> HIDE DEF X
    <3>13. ShownFile(t)' = [data |-> X, committed |-> FALSE]
      BY <3>8, <3>12 DEF ShownFile
    <3> QED
      BY <3>7, <3>13, <2>5
  <2>7. CASE /\ links' = [links EXCEPT ![t][i] = NoBlock] /\ metadata' = metadata
    <3>1. links'[t][i] = NoBlock
      BY <2>2, <2>7 DEF TypeOK
    <3>2. Exists(t)' /\ i <= BlockCount(t)' /\ metadata'[t].blocks[i] # NoBlock
      BY <2>1, <2>2, <2>7, Numbers DEF Exists, BlockCount
    <3>3. ~LinksMatchMetadata'
      BY <3>1, <3>2 DEF LinksMatchMetadata
    <3> QED
      BY <3>3 DEF Plain
  <2>8. CASE /\ ~Shared(old)
             /\ content' = [content EXCEPT ![old] = c]
             /\ metadata' = metadata /\ links' = links
    <3>1. ASSUME NEW u \in FileTags, NEW k \in LogicalBlocks, links[u][k] # NoBlock,
                 u # t \/ k # i
          PROVE  content'[links[u][k]] = content[links[u][k]]
      <4>1. links[u][k] \in Blocks
        BY <3>1, <2>2 DEF TypeOK
      <4>2. links[u][k] # old
        BY <3>1, <2>2, <2>8, NotShared
      <4> QED
        BY <4>1, <4>2, <2>2, <2>8 DEF TypeOK
    <3>2. \A u \in FileTags \ {t} : ShownFile(u)' = ShownFile(u)
      BY <2>2, <2>8, <3>1, ShownSame
    <3>3. Exists(t)' /\ Committed(t)' = FALSE /\ BlockCount(t)' = Len(b)
      BY <2>1, <2>2, <2>8 DEF Exists, Committed, BlockCount
    <3>4. DataOf(t)' = [k \in 1..Len(b) |-> content'[b[k]]]
      <4>1. PlainData'
        BY PlainDataNext DEF Plain
      <4> QED
        BY <4>1, <2>8, <3>3 DEF PlainData
    <3>5. ASSUME NEW k \in 1..Len(b) PROVE content'[b[k]] = X[k]
      <4>1. CASE k = i
        BY <4>1, <2>2, <2>3, <2>8 DEF TypeOK
      <4>2. CASE k # i
        <5>1. b[k] = links[t][k] /\ k \in LogicalBlocks /\ links[t][k] # NoBlock
          BY <2>2, Numbers
        <5>2. content'[b[k]] = content[b[k]]
          BY <5>1, <3>1, <4>2
        <5> QED
          BY <5>2, <4>2, <2>3, <2>4
      <4> QED
        BY <4>1, <4>2
    <3>6. X = [k \in 1..Len(b) |-> X[k]]
      BY <2>4
    <3>7. DataOf(t)' = X
      BY <3>4, <3>5, <3>6
    <3> HIDE DEF X
    <3>8. ShownFile(t)' = [data |-> X, committed |-> FALSE]
      BY <3>3, <3>7 DEF ShownFile
    <3> QED
      BY <3>2, <3>8, <2>5
  <2>9. \/ Shared(old) /\ CopyOnWrite(t, i, c)
        \/ /\ ~Shared(old)
           /\ content' = [content EXCEPT ![old] = c]
           /\ metadata' = metadata /\ links' = links
    BY <1>2 DEF execute_block_write
  <2> QED
    BY <2>6, <2>7, <2>8, <2>9 DEF CopyOnWrite
<1> QED
  BY <1>1, <1>2

\* execute_tag_commit shows the same data, committed.
LEMMA CommitRefines ==
    ASSUME Plain, NEW t \in FileTags, execute_tag_commit(t)
    PROVE  FS!Next
<1>1. CASE Refused
  BY <1>1, RefusedRefines DEF Plain
<1>2. CASE ~Refused
  <2> DEFINE d == deduplicate_blocks(t)
             file == [blocks |-> d.blocks, state |-> "COMMITTED"]
             n == BlockCount(t)
  <2>1. /\ Exists(t) /\ ~Committed(t) /\ links' = d.links /\ content' = content /\ answer' = <<>>
        /\ \/ d.failed
           \/ ~d.failed /\ metadata' = [metadata EXCEPT ![t] = file]
    BY <1>2 DEF execute_tag_commit
  <2>2. LoopInv(t, d, n)
    BY <2>1, Deduplicated DEF Plain
  <2> HIDE DEF d
  <2>3. /\ n \in Nat /\ 1..n \subseteq LogicalBlocks
        /\ \A k \in 1..n : metadata[t].blocks[k] \in Blocks
    BY <2>1, FileType DEF Plain
  <2>4. \A k \in 1..n : links[t][k] = metadata[t].blocks[k] /\ links[t][k] # NoBlock
    BY <2>1, <2>3, Numbers DEF Plain, LinksMatchMetadata
  <2>5. ~d.failed
    BY <2>2, <2>4 DEF LoopInv
  <2>6. /\ d.blocks \in Seq(Blocks) /\ Len(d.blocks) = n
        /\ \A u \in FileTags \ {t} : d.links[u] = links[u]
    BY <2>2 DEF LoopInv, LoopType
  <2>7. \A k \in 1..n : /\ d.links[t][k] # NoBlock
                        /\ content[d.links[t][k]] = content[links[t][k]]
    BY <2>2, <2>3, <2>4 DEF LoopInv
  <2>8. file \in Files /\ file.blocks = d.blocks /\ file.state = "COMMITTED"
    BY <2>6 DEF Files
  <2> HIDE DEF file
  <2>9. metadata'[t] = file /\ \A u \in FileTags \ {t} : metadata'[u] = metadata[u]
    BY <2>1, <2>5 DEF Plain, TypeOK
  <2>10. \A u \in FileTags \ {t} : ShownFile(u)' = ShownFile(u)
    BY <2>1, <2>6, <2>9, ShownSame DEF Plain
  <2>11. Exists(t)' /\ Committed(t)' = TRUE /\ BlockCount(t)' = n
    BY <2>6, <2>8, <2>9, FilesExist DEF Exists, Committed, BlockCount
  <2>12. DataOf(t)' = DataOf(t)
    <3>1. \A k \in 1..n : (IF links'[t][k] = NoBlock THEN NoBlock ELSE content'[links'[t][k]]) =
                          (IF links[t][k] = NoBlock THEN NoBlock ELSE content[links[t][k]])
      BY <2>1, <2>4, <2>7
    <3> QED
      BY <3>1, <2>11 DEF DataOf
  <2>13. ShownFile(t)' = [data |-> DataOf(t), committed |-> TRUE]
    BY <2>11, <2>12 DEF ShownFile
  <2>14. /\ ShownFile(t) # NoFile /\ ShownFile(t).data = DataOf(t) /\ ShownFile(t).committed = FALSE
    <3>1. Committed(t) = FALSE /\ TypeOK
      BY <2>1 DEF Committed, Plain
    <3>2. ShownFile(t) = [data |-> DataOf(t), committed |-> Committed(t)] /\ ShownFile(t) # NoFile
      BY <2>1, <3>1, ShownType
    <3> QED
      BY <3>1, <3>2
  <2>15. AllShown' = [AllShown EXCEPT ![t] = [data |-> ShownFile(t).data, committed |-> TRUE]]
    BY <2>10, <2>13, <2>14, ShownChanged
  <2> QED
    BY <2>1, <2>14, <2>15, ShowsCommit
<1> QED
  BY <1>1, <1>2

\* Every request on a disk that is not full is one of FileStore.
LEMMA RequestRefines ==
    ASSUME Plain, Next, ChangeCommitted = FALSE
    PROVE  FS!Next
<1>1. PICK t \in FileTags :
        \/ create_file(t)
        \/ ~Closed(t) /\ delete_tag(t)
        \/ execute_tag_commit(t)
        \/ \E n \in 0..MaxBlocks : ~Closed(t) /\ truncate_file(t, n)
        \/ \E dst \in FileTags : create_tag(t, dst)
        \/ \E i \in LogicalBlocks :
              \/ execute_block_read(t, i)
              \/ \E c \in Contents : execute_block_write(t, i, c)
  BY DEF Next
<1>2. CASE create_file(t)
  BY <1>2, CreateRefines
<1>3. CASE ~Closed(t) /\ delete_tag(t)
  BY <1>3, DeleteRefines
<1>4. CASE execute_tag_commit(t)
  BY <1>4, CommitRefines
<1>5. CASE \E n \in 0..MaxBlocks : ~Closed(t) /\ truncate_file(t, n)
  BY <1>5, TruncateRefines
<1>6. CASE \E dst \in FileTags : create_tag(t, dst)
  BY <1>6, TagRefines
<1>7. CASE \E i \in LogicalBlocks : execute_block_read(t, i)
  BY <1>7, ReadRefines
<1>8. CASE \E i \in LogicalBlocks : \E c \in Contents : execute_block_write(t, i, c)
  BY <1>8, WriteRefines
<1> QED
  BY <1>1, <1>2, <1>3, <1>4, <1>5, <1>6, <1>7, <1>8

\* If committed File:Tags are neither truncated nor deleted, the Storage
\* implements FileStore until it is full: sharing, copying on write and
\* deduplicating blocks is never seen.
THEOREM StorageImplementsFileStore ==
    ASSUME ChangeCommitted = FALSE
    PROVE  MCSpec => ImplementsFileStore
<1>1. ASSUME StorageInv, StorageInv', [MCNext]_<<vars, full, torn>>
      PROVE  [~full' => FS!Next]_vars
  <2>1. CASE UNCHANGED <<vars, full, torn>>
    BY <2>1
  <2>2. CASE MCNext
    <3> SUFFICES ASSUME ~full' PROVE FS!Next
      OBVIOUS
    <3>1. Next /\ full' = (full \/ ~Intact')
      BY <2>2 DEF MCNext
    <3>2. ~full
      BY <3>1
    <3>3. TypeOK /\ ~torn /\ LinksMatchMetadata /\ Sound
      BY <1>1, <3>2 DEF StorageInv
    <3>4. TypeOK' /\ LinksMatchMetadata'
      BY <1>1 DEF StorageInv
    <3> QED
      BY <3>1, <3>3, <3>4, RequestRefines DEF Plain
  <2> QED
    BY <1>1, <2>1, <2>2
<1> QED
  BY <1>1, StorageInvariant, StartRefines, PTL DEF MCSpec, ImplementsFileStore

-----------------------------------------------------------------------------
(* The requests in progress.                                               *)

\* The calls each request makes.
CallsOf(op) ==
    CASE op = "CREATE" -> {"mkdir", "create_metadata"}
      [] op = "TAG" -> {"mkdir", "cp -rl", "create_metadata"}
      [] op = "DELETE" -> {"delete_logical_block", "stat", "modify_bitmap_bits", "fclose",
                           "delete_file_dir_structure"}
      [] op = "TRUNCATE" -> {"link", "delete_logical_block", "stat", "modify_bitmap_bits",
                             "fclose", "save_file_metadata"}
      [] op = "COMMIT" -> {"config_create", "read_block_content", "remove", "relink", "stat",
                           "bitmap_load", "bitmap_persist", "config_save",
                           "save_file_metadata"}
      [] op = "WRITE" -> {"ph_block_links", "remove", "bitmap_load", "bitmap_persist",
                          "create_new_hardlink", "save_file_metadata", "fopen", "access"}
      [] op = "READ" -> {"fopen", "access"}

\* Calls about the logical block i of the request.
PerBlock == {"delete_logical_block", "stat", "modify_bitmap_bits", "fclose",
             "read_block_content", "remove", "relink", "bitmap_load", "bitmap_persist",
             "create_new_hardlink", "ph_block_links", "fopen", "access"}

\* Calls of DELETE and TRUNCATE after they removed a link.
Freeing == {"stat", "modify_bitmap_bits", "fclose"}

\* Between load and persist of the bitmap, and of the hash index.
HoldsBitmap(r) == r # Waiting /\ r.pc = "bitmap_persist"
HoldsIndex(r) ==
    /\ r # Waiting /\ r.op = "COMMIT"
    /\ r.pc \in {"read_block_content", "remove", "relink", "stat", "bitmap_load",
                 "bitmap_persist", "config_save"}

\* What a request knows when it makes a call.
Consistent(r) ==
    /\ r.pc \in CallsOf(r.op)
    /\ Len(r.blocks) <= MaxBlocks
    /\ (r.op \in {"WRITE", "READ"} \/ r.pc \in PerBlock) => r.i <= Len(r.blocks)
    /\ r.pc = "link" => r.i <= r.n
    /\ (\/ r.pc \in Freeing \cup {"access"}
        \/ r.op = "COMMIT" /\ r.pc \in {"remove", "relink", "bitmap_load", "bitmap_persist"})
          => r.block \in Blocks
    /\ r.pc \in {"bitmap_persist", "create_new_hardlink"} => r.block # NoBlock
    /\ HoldsIndex(r) => r.index \in [Contents -> Blocks \cup {NoBlock}]
    /\ (r.op = "COMMIT" /\ r.pc \in {"remove", "relink"}) => r.index[r.c] # NoBlock

\* Type invariant of the requests in progress.
ThreadTypes ==
    /\ TypeOK
    /\ owner \in [FileTags -> Workers]
    /\ tag_dirs \subseteq FileTags
    /\ thread \in [Workers -> {Waiting} \cup ThreadRecords]
    /\ \A w \in Workers : Busy(w) => Consistent(thread[w])

\* A mutex is held by the thread between load and persist, by nobody else.
Mutexes ==
    /\ bitmap_mutex \in Workers \cup {Free}
    /\ index_mutex \in Workers \cup {Free}
    /\ \A w \in Workers : /\ bitmap_mutex = w <=> HoldsBitmap(thread[w])
                          /\ index_mutex = w <=> HoldsIndex(thread[w])

-----------------------------------------------------------------------------
(* What the calls do to the request.                                       *)

\* The request r goes on as q, with the call pc for the logical block i.
Goes(q, r, pc, i) ==
    /\ q \in ThreadRecords
    /\ q.op = r.op /\ q.t = r.t /\ q.from = r.from /\ q.n = r.n /\ q.state = r.state
    /\ q.before = r.before
    /\ q.pc = pc /\ q.i = i

\* ... and with the same block lists and index.
Keeping(q, r) == q.c = r.c /\ q.blocks = r.blocks /\ q.block = r.block /\ q.index = r.index

\* At changes the next call only.
LEMMA AtGoes ==
    ASSUME NEW r \in ThreadRecords, NEW pc \in CallNames, NEW q, q = At(r, pc)
    PROVE  Goes(q, r, pc, r.i) /\ Keeping(q, r) /\ q.buffer = r.buffer
BY DEF At, ThreadRecords, Goes, Keeping

\* The call of the loop that links new blocks.
LEMMA LinkFromGoes ==
    ASSUME NEW r \in ThreadRecords, NEW i \in 1..MaxBlocks + 1, NEW q, q = LinkFrom(r, i)
    PROVE  /\ Goes(q, r, IF i <= r.n THEN "link" ELSE "save_file_metadata", i)
           /\ Keeping(q, r) /\ q.buffer = r.buffer
<1> DEFINE pc == IF i <= r.n THEN "link" ELSE "save_file_metadata"
<1>1. pc \in CallNames
  BY DEF CallNames
<1>2. q = [r EXCEPT !.i = i, !.pc = pc]
  BY DEF LinkFrom
<1> HIDE DEF pc
<1>3. Goes(q, r, pc, i) /\ Keeping(q, r) /\ q.buffer = r.buffer
  BY <1>1, <1>2 DEF ThreadRecords, Goes, Keeping
<1> QED
  BY <1>3 DEF pc

\* The call of the loop that deletes blocks.
AfterDelete(r, i) ==
    IF i <= Len(r.blocks) THEN "delete_logical_block"
    ELSE IF r.op = "DELETE" THEN "delete_file_dir_structure"
    ELSE "save_file_metadata"

\* The loop that deletes blocks goes on.
LEMMA DeleteFromGoes ==
    ASSUME NEW r \in ThreadRecords, NEW i \in 1..MaxBlocks + 1, NEW q, q = DeleteFrom(r, i)
    PROVE  Goes(q, r, AfterDelete(r, i), i) /\ Keeping(q, r) /\ q.buffer = r.buffer
<1>1. AfterDelete(r, i) \in CallNames
  BY DEF AfterDelete, CallNames
<1>2. q = [r EXCEPT !.i = i, !.pc = AfterDelete(r, i)]
  BY DEF DeleteFrom, AfterDelete
<1> QED
  BY <1>1, <1>2 DEF ThreadRecords, Goes, Keeping

\* The call of the loop that looks for duplicates.
AfterLookUp(r, i) == IF i <= Len(r.blocks) THEN "read_block_content" ELSE "config_save"

\* The loop that looks for duplicates goes on.
LEMMA DeduplicateFromGoes ==
    ASSUME NEW r \in ThreadRecords, NEW i \in 1..MaxBlocks + 1, NEW q, q = DeduplicateFrom(r, i)
    PROVE  Goes(q, r, AfterLookUp(r, i), i) /\ Keeping(q, r) /\ q.buffer = r.buffer
<1>1. AfterLookUp(r, i) \in CallNames
  BY DEF AfterLookUp, CallNames
<1>2. q = [r EXCEPT !.i = i, !.pc = AfterLookUp(r, i)]
  BY DEF DeduplicateFrom, AfterLookUp
<1> QED
  BY <1>1, <1>2 DEF ThreadRecords, Goes, Keeping

\* The call after a turn of either loop.
AfterTurn(r) == IF r.op = "COMMIT" THEN AfterLookUp(r, r.i + 1) ELSE AfterDelete(r, r.i + 1)

\* Either loop goes on to the next logical block.
LEMMA NextTurnGoes ==
    ASSUME NEW r \in ThreadRecords, r.i \in LogicalBlocks, NEW q, q = NextTurn(r)
    PROVE  Goes(q, r, AfterTurn(r), r.i + 1) /\ Keeping(q, r) /\ q.buffer = r.buffer
<1>1. r.i + 1 \in 1..MaxBlocks + 1
  BY Numbers DEF LogicalBlocks
<1>2. CASE r.op = "COMMIT"
  BY <1>1, <1>2, DeduplicateFromGoes DEF NextTurn, AfterTurn
<1>3. CASE r.op # "COMMIT"
  BY <1>1, <1>3, DeleteFromGoes DEF NextTurn, AfterTurn
<1> QED
  BY <1>2, <1>3

\* The other threads stay where they are.
Others(w) ==
    /\ thread' = [v \in Workers |-> thread'[v]]
    /\ \A v \in Workers \ {w} : thread'[v] = thread[v]

\* What a thread that makes a call knows.
LEMMA CallOf ==
    ASSUME ThreadTypes, NEW w \in Workers, NEW pc, Calls(w, pc)
    PROVE  /\ thread[w] \in ThreadRecords /\ Consistent(thread[w])
           /\ thread[w].pc = pc /\ thread[w] # Waiting
BY DEF ThreadTypes, Calls, Busy

\* The logical block a call is about exists in the request's copy.
LEMMA BlockOf ==
    ASSUME NEW r \in ThreadRecords, Consistent(r),
           r.pc \in PerBlock \/ r.op \in {"WRITE", "READ"}
    PROVE  r.i \in LogicalBlocks /\ r.i \in 1..Len(r.blocks) /\ r.blocks[r.i] \in Blocks
<1>1. r.i \in Nat /\ r.i >= 1 /\ r.blocks \in Seq(Blocks)
  BY Numbers DEF ThreadRecords
<1>2. r.i <= Len(r.blocks) /\ Len(r.blocks) <= MaxBlocks /\ Len(r.blocks) \in Nat
  BY <1>1 DEF Consistent
<1> QED
  BY <1>1, <1>2, Numbers DEF LogicalBlocks

\* A request that goes on, or ends.
LEMMA GoesOnTo ==
    ASSUME ThreadTypes, NEW w \in Workers, NEW s, GoesOn(w, s)
    PROVE  thread'[w] = s /\ Others(w) /\ answer' = answer
BY DEF ThreadTypes, GoesOn, Others

\* A request that is answered: its thread waits for the next.
LEMMA EndsThen ==
    ASSUME ThreadTypes, NEW w \in Workers, Ends(w)
    PROVE  thread'[w] = Waiting /\ Others(w)
BY DEF ThreadTypes, Ends, Answers, Others

\* The outcomes of mkdir.
LEMMA MkdirDone ==
    ASSUME ThreadTypes, NEW w \in Workers, mkdir(w), NEW r, r = thread[w], NEW q, q = thread'[w]
    PROVE  /\ Others(w) /\ r.op \in {"CREATE", "TAG"}
           /\ UNCHANGED <<metadata, links, bitmap, content, hash_index>> /\ SameMutexes
           /\ \/ q = Waiting /\ UNCHANGED <<directories, tag_dirs>>
              \/ /\ Goes(q, r, IF r.op = "TAG" THEN "cp -rl" ELSE "create_metadata", r.i)
                 /\ Keeping(q, r)
                 /\ directories' = directories \cup {FileOf(r.t)}
                 /\ tag_dirs' = tag_dirs \cup {r.t}
<1>1. r \in ThreadRecords /\ Consistent(r) /\ r.pc = "mkdir"
  BY CallOf DEF mkdir
<1>2. r.op \in {"CREATE", "TAG"}
  BY <1>1 DEF Consistent, CallsOf, ThreadRecords
<1>3. UNCHANGED <<metadata, links, bitmap, content, hash_index>> /\ SameMutexes
  BY DEF mkdir
<1>4. CASE Ends(w) /\ UNCHANGED <<directories, tag_dirs>>
  BY <1>2, <1>3, <1>4, EndsThen
<1>5. CASE /\ directories' = directories \cup {FileOf(r.t)}
           /\ tag_dirs' = tag_dirs \cup {r.t}
           /\ GoesOn(w, At(r, IF r.op = "TAG" THEN "cp -rl" ELSE "create_metadata"))
  <2> DEFINE pc == IF r.op = "TAG" THEN "cp -rl" ELSE "create_metadata"
  <2>1. pc \in CallNames
    BY DEF CallNames
  <2> HIDE DEF pc
  <2>2. GoesOn(w, At(r, pc))
    BY <1>5 DEF pc
  <2>3. q = At(r, pc) /\ Others(w)
    BY <2>2, GoesOnTo
  <2>4. Goes(q, r, pc, r.i) /\ Keeping(q, r)
    BY <1>1, <2>1, <2>3, AtGoes
  <2> QED
    BY <1>2, <1>3, <1>5, <2>3, <2>4 DEF pc
<1> QED
  BY <1>4, <1>5 DEF mkdir

\* The outcomes of cp -rl.
LEMMA CopyLinksDone ==
    ASSUME ThreadTypes, NEW w \in Workers, CopyLinks(w), NEW r, r = thread[w],
           NEW q, q = thread'[w]
    PROVE  /\ Others(w) /\ r.op = "TAG"
           /\ UNCHANGED <<metadata, directories, tag_dirs, bitmap, content, hash_index>>
           /\ SameMutexes
           /\ links' = [links EXCEPT ![r.t] = [i \in LogicalBlocks |->
                          IF links[r.t][i] = NoBlock THEN links[r.from][i] ELSE links[r.t][i]]]
           /\ \/ q = Waiting /\ \E i \in LogicalBlocks :
                     /\ NoBlock # links[r.from][i]
                     /\ links[r.t][i] \notin {NoBlock, links[r.from][i]}
              \/ Goes(q, r, "create_metadata", r.i) /\ Keeping(q, r)
<1>1. r \in ThreadRecords /\ Consistent(r) /\ r.pc = "cp -rl"
  BY CallOf DEF CopyLinks
<1>2. r.op = "TAG"
  BY <1>1 DEF Consistent, CallsOf, ThreadRecords
<1>3. /\ UNCHANGED <<metadata, directories, tag_dirs, bitmap, content, hash_index>>
      /\ SameMutexes
      /\ links' = [links EXCEPT ![r.t] = [i \in LogicalBlocks |->
                     IF links[r.t][i] = NoBlock THEN links[r.from][i] ELSE links[r.t][i]]]
      /\ \/ /\ Ends(w)
            /\ \E i \in LogicalBlocks :
                  NoBlock # links[r.from][i] /\ links[r.t][i] \notin {NoBlock, links[r.from][i]}
         \/ GoesOn(w, At(r, "create_metadata"))
  BY DEF CopyLinks
<1>4. CASE Ends(w) /\ \E i \in LogicalBlocks :
                  NoBlock # links[r.from][i] /\ links[r.t][i] \notin {NoBlock, links[r.from][i]}
  BY <1>2, <1>3, <1>4, EndsThen
<1>5. CASE GoesOn(w, At(r, "create_metadata"))
  <2>1. q = At(r, "create_metadata") /\ Others(w)
    BY <1>5, GoesOnTo
  <2> QED
    BY <1>1, <1>2, <1>3, <2>1, AtGoes DEF CallNames
<1> QED
  BY <1>3, <1>4, <1>5

\* A request that goes on to a call.
LEMMA AtDone ==
    ASSUME ThreadTypes, NEW w \in Workers, NEW r \in ThreadRecords, NEW pc \in CallNames,
           GoesOn(w, At(r, pc)), NEW q, q = thread'[w]
    PROVE  Others(w) /\ Goes(q, r, pc, r.i) /\ Keeping(q, r) /\ q.buffer = r.buffer
<1>1. q = At(r, pc) /\ Others(w)
  BY GoesOnTo
<1> QED
  BY <1>1, AtGoes

\* A request that goes on to its next turn.
LEMMA TurnDone ==
    ASSUME ThreadTypes, NEW w \in Workers, NEW r \in ThreadRecords, r.i \in LogicalBlocks,
           GoesOn(w, NextTurn(r)), NEW q, q = thread'[w]
    PROVE  /\ Others(w) /\ Goes(q, r, AfterTurn(r), r.i + 1) /\ Keeping(q, r)
           /\ q.buffer = r.buffer
<1>1. q = NextTurn(r) /\ Others(w)
  BY GoesOnTo
<1> QED
  BY <1>1, NextTurnGoes

\* The outcome of create_metadata.
LEMMA CreateMetadataDone ==
    ASSUME ThreadTypes, NEW w \in Workers, create_metadata(w), NEW r, r = thread[w]
    PROVE  /\ Others(w) /\ thread'[w] = Waiting /\ r.op \in {"CREATE", "TAG"}
           /\ UNCHANGED <<links, directories, tag_dirs, bitmap, content, hash_index>>
           /\ SameMutexes
           /\ metadata' = [metadata EXCEPT ![r.t] = [blocks |-> r.blocks,
                                                     state |-> "WORK_IN_PROGRESS"]]
<1>1. r \in ThreadRecords /\ Consistent(r) /\ r.pc = "create_metadata"
  BY CallOf DEF create_metadata
<1>2. r.op \in {"CREATE", "TAG"}
  BY <1>1 DEF Consistent, CallsOf, ThreadRecords
<1> QED
  BY <1>2, EndsThen DEF create_metadata

\* The outcome of delete_file_dir_structure.
LEMMA DeleteStructureDone ==
    ASSUME ThreadTypes, NEW w \in Workers, delete_file_dir_structure(w), NEW r, r = thread[w]
    PROVE  /\ Others(w) /\ thread'[w] = Waiting /\ r.op = "DELETE"
           /\ UNCHANGED <<directories, bitmap, content, hash_index>> /\ SameMutexes
           /\ metadata' = [metadata EXCEPT ![r.t] = NoFile]
           /\ links' = [links EXCEPT ![r.t] = NoLinks]
           /\ tag_dirs' = tag_dirs \ {r.t}
<1>1. r \in ThreadRecords /\ Consistent(r) /\ r.pc = "delete_file_dir_structure"
  BY CallOf DEF delete_file_dir_structure
<1>2. r.op = "DELETE"
  BY <1>1 DEF Consistent, CallsOf, ThreadRecords
<1> QED
  BY <1>2, EndsThen DEF delete_file_dir_structure

\* The outcomes of link.
LEMMA LinkZeroDone ==
    ASSUME ThreadTypes, NEW w \in Workers, LinkZero(w), NEW r, r = thread[w],
           NEW q, q = thread'[w]
    PROVE  /\ Others(w) /\ r.op = "TRUNCATE" /\ r.i \in LogicalBlocks /\ SameMutexes
           /\ \/ /\ links[r.t][r.i] = NoBlock
                 /\ Linking(r.t, r.i, 0)
                 /\ Goes(q, r, IF r.i + 1 <= r.n THEN "link" ELSE "save_file_metadata", r.i + 1)
                 /\ Keeping(q, r)
              \/ links[r.t][r.i] # NoBlock /\ q = Waiting /\ UNCHANGED <<disk, tag_dirs>>
<1>1. r \in ThreadRecords /\ Consistent(r) /\ r.pc = "link"
  BY CallOf DEF LinkZero
<1>2. r.op = "TRUNCATE"
  BY <1>1 DEF Consistent, CallsOf, ThreadRecords
<1>3. r.i \in LogicalBlocks /\ r.i + 1 \in 1..MaxBlocks + 1
  BY <1>1, Numbers DEF Consistent, ThreadRecords, LogicalBlocks
<1>4. CASE links[r.t][r.i] = NoBlock /\ Linking(r.t, r.i, 0) /\ GoesOn(w, LinkFrom(r, r.i + 1))
  <2>1. q = LinkFrom(r, r.i + 1) /\ Others(w)
    BY <1>4, GoesOnTo
  <2>2. /\ Goes(q, r, IF r.i + 1 <= r.n THEN "link" ELSE "save_file_metadata", r.i + 1)
        /\ Keeping(q, r)
    BY <1>1, <1>3, <2>1, LinkFromGoes
  <2> QED
    BY <1>2, <1>3, <1>4, <2>1, <2>2 DEF LinkZero
<1>5. CASE links[r.t][r.i] # NoBlock /\ Ends(w) /\ UNCHANGED <<disk, tag_dirs>>
  BY <1>2, <1>3, <1>5, EndsThen DEF LinkZero
<1> QED
  BY <1>4, <1>5 DEF LinkZero

\* The outcomes of delete_logical_block.
LEMMA DeleteBlockDone ==
    ASSUME ThreadTypes, NEW w \in Workers, delete_logical_block(w), NEW r, r = thread[w],
           NEW q, q = thread'[w]
    PROVE  /\ Others(w) /\ r.op \in {"DELETE", "TRUNCATE"} /\ SameMutexes
           /\ \/ /\ links[r.t][r.i] # NoBlock
                 /\ Linking(r.t, r.i, NoBlock)
                 /\ Goes(q, r, "stat", r.i)
                 /\ q.blocks = r.blocks /\ q.block = r.blocks[r.i]
              \/ /\ links[r.t][r.i] = NoBlock
                 /\ UNCHANGED <<disk, tag_dirs>>
                 /\ \/ q = Waiting
                    \/ Goes(q, r, AfterTurn(r), r.i + 1) /\ Keeping(q, r)
<1>1. r \in ThreadRecords /\ Consistent(r) /\ r.pc = "delete_logical_block"
  BY CallOf DEF delete_logical_block
<1>2. r.op \in {"DELETE", "TRUNCATE"}
  BY <1>1 DEF Consistent, CallsOf, ThreadRecords
<1>3. r.i \in LogicalBlocks /\ r.i \in 1..Len(r.blocks) /\ r.blocks[r.i] \in Blocks
  BY <1>1, BlockOf DEF PerBlock
<1>4. CASE /\ links[r.t][r.i] # NoBlock /\ Linking(r.t, r.i, NoBlock)
           /\ GoesOn(w, [r EXCEPT !.pc = "stat", !.block = r.blocks[r.i]])
  <2>1. q = [r EXCEPT !.pc = "stat", !.block = r.blocks[r.i]] /\ Others(w)
    BY <1>4, GoesOnTo
  <2>2. PICK p : p = r.blocks[r.i] /\ p \in (0..BitmapBits - 1) \cup {NoBlock}
    BY <1>3, Numbers
  <2>3. q = [r EXCEPT !.pc = "stat", !.block = p]
    BY <2>1, <2>2
  <2>4. Goes(q, r, "stat", r.i) /\ q.blocks = r.blocks /\ q.block = p
    BY <1>1, <2>2, <2>3 DEF ThreadRecords, Goes, CallNames
  <2> QED
    BY <1>2, <1>4, <2>1, <2>2, <2>4 DEF delete_logical_block
<1>5. CASE links[r.t][r.i] = NoBlock /\ UNCHANGED <<disk, tag_dirs>> /\ Ends(w)
  BY <1>2, <1>5, EndsThen DEF delete_logical_block
<1>6. CASE links[r.t][r.i] = NoBlock /\ UNCHANGED <<disk, tag_dirs>> /\ GoesOn(w, NextTurn(r))
  BY <1>1, <1>2, <1>3, <1>6, TurnDone DEF delete_logical_block
<1> QED
  BY <1>4, <1>5, <1>6 DEF delete_logical_block

\* The outcomes of stat.
LEMMA CheckUnusedDone ==
    ASSUME ThreadTypes, NEW w \in Workers, CheckUnused(w), NEW r, r = thread[w],
           NEW q, q = thread'[w]
    PROVE  /\ Others(w) /\ r.op \in {"DELETE", "TRUNCATE", "COMMIT"} /\ SameMutexes
           /\ UNCHANGED <<disk, tag_dirs>>
           /\ r.i \in LogicalBlocks /\ Keeping(q, r)
           /\ \/ ~Unused(r.block) /\ Goes(q, r, AfterTurn(r), r.i + 1)
              \/ /\ Unused(r.block)
                 /\ Goes(q, r, IF r.op = "COMMIT" THEN "bitmap_load"
                                                  ELSE "modify_bitmap_bits", r.i)
<1>1. r \in ThreadRecords /\ Consistent(r) /\ r.pc = "stat"
  BY CallOf DEF CheckUnused
<1>2. r.op \in {"DELETE", "TRUNCATE", "COMMIT"}
  BY <1>1 DEF Consistent, CallsOf, ThreadRecords
<1>3. r.i \in LogicalBlocks
  BY <1>1, BlockOf DEF PerBlock
<1>4. CASE ~Unused(r.block)
  <2>1. GoesOn(w, NextTurn(r))
    BY <1>4 DEF CheckUnused
  <2> QED
    BY <1>1, <1>2, <1>3, <1>4, <2>1, TurnDone DEF CheckUnused
<1>5. CASE Unused(r.block)
  <2>1. PICK pc \in CallNames :
          pc = IF r.op = "COMMIT" THEN "bitmap_load" ELSE "modify_bitmap_bits"
    BY DEF CallNames
  <2>2. GoesOn(w, At(r, pc))
    BY <1>5, <2>1 DEF CheckUnused
  <2>3. Others(w) /\ Goes(q, r, pc, r.i) /\ Keeping(q, r)
    BY <1>1, <2>2, AtDone
  <2> QED
    BY <1>2, <1>3, <1>5, <2>1, <2>3 DEF CheckUnused
<1> QED
  BY <1>4, <1>5

\* A request without a copy of the bitmap.
LEMMA NoBufferGoes ==
    ASSUME NEW r \in ThreadRecords, NEW q, q = [r EXCEPT !.buffer = {}]
    PROVE  Goes(q, r, r.pc, r.i) /\ Keeping(q, r)
<1>1. Keeping(q, r) /\ q.pc = r.pc /\ q.i = r.i
  BY DEF ThreadRecords, Keeping
<1>2. /\ q.op = r.op /\ q.t = r.t /\ q.from = r.from /\ q.n = r.n /\ q.state = r.state
      /\ q.before = r.before
  BY DEF ThreadRecords
<1>3. q \in ThreadRecords
  BY DEF ThreadRecords
<1> QED
  BY <1>1, <1>2, <1>3 DEF Goes

\* A request with another block.
WithBlock(r, pc, p) == [r EXCEPT !.pc = pc, !.block = p]

\* It is the same request.
LEMMA BlockGoes ==
    ASSUME NEW r \in ThreadRecords, NEW pc \in CallNames,
           NEW p \in (0..BitmapBits - 1) \cup {NoBlock},
           NEW q, q = WithBlock(r, pc, p)
    PROVE  /\ Goes(q, r, pc, r.i)
           /\ q.c = r.c /\ q.blocks = r.blocks /\ q.block = p /\ q.index = r.index
<1>1. q.c = r.c /\ q.blocks = r.blocks /\ q.block = p /\ q.index = r.index /\ q.pc = pc
  BY DEF ThreadRecords, WithBlock
<1>2. /\ q.op = r.op /\ q.t = r.t /\ q.from = r.from /\ q.n = r.n /\ q.state = r.state
      /\ q.before = r.before /\ q.i = r.i
  BY DEF ThreadRecords, WithBlock
<1>3. q \in ThreadRecords
  BY DEF ThreadRecords, WithBlock
<1> QED
  BY <1>1, <1>2, <1>3 DEF Goes

\* A request with another list of blocks.
WithBlocks(r, pc, k, p) == [r EXCEPT !.pc = pc, !.blocks[k] = p]

\* It is the same request.
LEMMA BlocksGoes ==
    ASSUME NEW r \in ThreadRecords, NEW pc \in CallNames,
           NEW k \in 1..Len(r.blocks), NEW p \in Blocks,
           NEW q, q = WithBlocks(r, pc, k, p)
    PROVE  /\ Goes(q, r, pc, r.i)
           /\ q.c = r.c /\ q.block = r.block /\ q.index = r.index
           /\ q.blocks = [r.blocks EXCEPT ![k] = p] /\ Len(q.blocks) = Len(r.blocks)
<1>0. r.blocks \in Seq(Blocks)
  BY DEF ThreadRecords
<1>1. PICK b : b = [r.blocks EXCEPT ![k] = p] /\ b \in Seq(Blocks) /\ Len(b) = Len(r.blocks)
  <2> DEFINE n == Len(r.blocks)
             b == [r.blocks EXCEPT ![k] = p]
  <2>1. n \in Nat /\ r.blocks \in [1..n -> Blocks]
    BY <1>0
  <2>2. b \in [1..n -> Blocks]
    BY <2>1
  <2>3. b \in Seq(Blocks) /\ Len(b) = n
    BY <2>1, <2>2
  <2> QED
    BY <2>3
<1>2. q = [r EXCEPT !.pc = pc, !.blocks = b]
  BY <1>1 DEF ThreadRecords, WithBlocks
<1>3. q.c = r.c /\ q.block = r.block /\ q.index = r.index /\ q.blocks = b /\ q.pc = pc
  BY <1>2 DEF ThreadRecords
<1>4. /\ q.op = r.op /\ q.t = r.t /\ q.from = r.from /\ q.n = r.n /\ q.state = r.state
      /\ q.before = r.before /\ q.i = r.i
  BY <1>2 DEF ThreadRecords
<1>5. q \in ThreadRecords
  BY <1>1, <1>2 DEF ThreadRecords
<1> QED
  BY <1>1, <1>3, <1>4, <1>5 DEF Goes

\* A request with another copy of the hash index.
LEMMA IndexGoes ==
    ASSUME NEW r \in ThreadRecords, NEW x \in {<<>>} \cup [Contents -> Blocks \cup {NoBlock}],
           NEW q, q = [r EXCEPT !.index = x]
    PROVE  /\ Goes(q, r, r.pc, r.i)
           /\ q.c = r.c /\ q.blocks = r.blocks /\ q.block = r.block /\ q.index = x
<1>1. q.c = r.c /\ q.blocks = r.blocks /\ q.block = r.block /\ q.index = x /\ q.pc = r.pc
  BY DEF ThreadRecords
<1>2. /\ q.op = r.op /\ q.t = r.t /\ q.from = r.from /\ q.n = r.n /\ q.state = r.state
      /\ q.before = r.before /\ q.i = r.i
  BY DEF ThreadRecords
<1>3. q \in ThreadRecords
  BY DEF ThreadRecords
<1> QED
  BY <1>1, <1>2, <1>3 DEF Goes

\* The outcomes of modify_bitmap_bits.
LEMMA ModifyBitmapDone ==
    ASSUME ThreadTypes, NEW w \in Workers, modify_bitmap_bits(w), NEW r, r = thread[w],
           NEW q, q = thread'[w]
    PROVE  /\ Others(w) /\ r.op \in {"DELETE", "TRUNCATE"} /\ SameMutexes
           /\ UNCHANGED <<disk, tag_dirs>> /\ bitmap_mutex = Free
           /\ Goes(q, r, "fclose", r.i) /\ Keeping(q, r) /\ q.buffer = bitmap \ {r.block}
<1>1. r \in ThreadRecords /\ Consistent(r) /\ r.pc = "modify_bitmap_bits"
  BY CallOf DEF modify_bitmap_bits
<1>2. r.op \in {"DELETE", "TRUNCATE"}
  BY <1>1 DEF Consistent, CallsOf, ThreadRecords
<1>3. q = [r EXCEPT !.pc = "fclose", !.buffer = bitmap \ {r.block}] /\ Others(w)
  BY GoesOnTo DEF modify_bitmap_bits
<1>4. PICK b \in SUBSET (0..BitmapBits - 1) : b = bitmap \ {r.block}
  BY DEF ThreadTypes, TypeOK
<1>5. q = [r EXCEPT !.pc = "fclose", !.buffer = b]
  BY <1>3, <1>4
<1>6. "fclose" \in CallNames
  BY DEF CallNames
<1>7. Keeping(q, r) /\ q.buffer = b /\ q.pc = "fclose" /\ q.i = r.i
  BY <1>1, <1>5 DEF ThreadRecords, Keeping
<1>8. /\ q.op = r.op /\ q.t = r.t /\ q.from = r.from /\ q.n = r.n /\ q.state = r.state
      /\ q.before = r.before
  BY <1>1, <1>5 DEF ThreadRecords
<1>9. q \in ThreadRecords
  BY <1>1, <1>5, <1>6 DEF ThreadRecords
<1> QED
  BY <1>2, <1>3, <1>4, <1>7, <1>8, <1>9 DEF modify_bitmap_bits, Goes

\* The outcome of fclose.
LEMMA FcloseDone ==
    ASSUME ThreadTypes, NEW w \in Workers, fclose(w), NEW r, r = thread[w],
           NEW q, q = thread'[w]
    PROVE  /\ Others(w) /\ r.op \in {"DELETE", "TRUNCATE"} /\ SameMutexes
           /\ bitmap' = r.buffer
           /\ UNCHANGED <<metadata, links, directories, tag_dirs, content, hash_index>>
           /\ r.i \in LogicalBlocks /\ Goes(q, r, AfterTurn(r), r.i + 1) /\ Keeping(q, r)
<1>1. r \in ThreadRecords /\ Consistent(r) /\ r.pc = "fclose"
  BY CallOf DEF fclose
<1>2. r.op \in {"DELETE", "TRUNCATE"}
  BY <1>1 DEF Consistent, CallsOf, ThreadRecords
<1>3. r.i \in LogicalBlocks
  BY <1>1, BlockOf DEF PerBlock
<1>4. PICK s : s = NextTurn(r)
  OBVIOUS
<1>5. Goes(s, r, AfterTurn(r), r.i + 1) /\ Keeping(s, r)
  BY <1>1, <1>3, <1>4, NextTurnGoes
<1>6. q = [s EXCEPT !.buffer = {}] /\ Others(w)
  BY <1>4, GoesOnTo DEF fclose
<1>7. Goes(q, s, s.pc, s.i) /\ Keeping(q, s)
  BY <1>5, <1>6, NoBufferGoes DEF Goes
<1>8. Goes(q, r, AfterTurn(r), r.i + 1) /\ Keeping(q, r)
  BY <1>5, <1>7 DEF Goes, Keeping
<1> QED
  BY <1>2, <1>3, <1>6, <1>8 DEF fclose

\* What save_file_metadata writes.
SavedFile(r) ==
    [blocks |-> IF r.op # "TRUNCATE" THEN r.blocks
                ELSE [k \in 1..r.n |-> IF k <= Len(r.blocks) THEN r.blocks[k] ELSE 0],
     state |-> IF r.op = "COMMIT" THEN "COMMITTED" ELSE r.state]

\* The outcomes of save_file_metadata.
LEMMA SaveMetadataDone ==
    ASSUME ThreadTypes, NEW w \in Workers, save_file_metadata(w), NEW r, r = thread[w],
           NEW q, q = thread'[w]
    PROVE  /\ Others(w) /\ r.op \in {"TRUNCATE", "COMMIT", "WRITE"} /\ SameMutexes
           /\ UNCHANGED <<links, directories, tag_dirs, bitmap, content, hash_index>>
           /\ metadata' = [metadata EXCEPT ![r.t] = SavedFile(r)]
           /\ \/ r.op = "WRITE" /\ Goes(q, r, "fopen", r.i) /\ Keeping(q, r)
              \/ r.op # "WRITE" /\ q = Waiting
<1>1. r \in ThreadRecords /\ Consistent(r) /\ r.pc = "save_file_metadata"
  BY CallOf DEF save_file_metadata
<1>2. r.op \in {"TRUNCATE", "COMMIT", "WRITE"}
  BY <1>1 DEF Consistent, CallsOf, ThreadRecords
<1>3. /\ UNCHANGED <<links, directories, tag_dirs, bitmap, content, hash_index>>
      /\ SameMutexes
      /\ metadata' = [metadata EXCEPT ![r.t] = SavedFile(r)]
  BY DEF save_file_metadata, SavedFile
<1>4. CASE r.op = "WRITE" /\ GoesOn(w, At(r, "fopen"))
  <2>1. "fopen" \in CallNames
    BY DEF CallNames
  <2> QED
    BY <1>1, <1>2, <1>3, <1>4, <2>1, AtDone
<1>5. CASE r.op # "WRITE" /\ Ends(w)
  BY <1>2, <1>3, <1>5, EndsThen
<1> QED
  BY <1>4, <1>5 DEF save_file_metadata

\* The outcomes of ph_block_links.
LEMMA CheckSharedDone ==
    ASSUME ThreadTypes, NEW w \in Workers, CheckShared(w), NEW r, r = thread[w],
           NEW q, q = thread'[w]
    PROVE  /\ Others(w) /\ r.op = "WRITE" /\ SameMutexes /\ UNCHANGED <<disk, tag_dirs>>
           /\ \/ links[r.t][r.i] = NoBlock /\ q = Waiting
              \/ /\ links[r.t][r.i] # NoBlock
                 /\ Goes(q, r, IF Shared(links[r.t][r.i]) THEN "remove" ELSE "fopen", r.i)
                 /\ Keeping(q, r)
<1>1. r \in ThreadRecords /\ Consistent(r) /\ r.pc = "ph_block_links"
  BY CallOf DEF CheckShared
<1>2. r.op = "WRITE"
  BY <1>1 DEF Consistent, CallsOf, ThreadRecords
<1>3. SameMutexes /\ UNCHANGED <<disk, tag_dirs>>
  BY DEF CheckShared
<1>4. CASE links[r.t][r.i] = NoBlock /\ Ends(w)
  BY <1>2, <1>3, <1>4, EndsThen
<1>5. CASE /\ links[r.t][r.i] # NoBlock
           /\ GoesOn(w, At(r, IF Shared(links[r.t][r.i]) THEN "remove" ELSE "fopen"))
  <2>1. PICK pc \in CallNames : pc = IF Shared(links[r.t][r.i]) THEN "remove" ELSE "fopen"
    BY DEF CallNames
  <2>2. GoesOn(w, At(r, pc))
    BY <1>5, <2>1
  <2>3. Others(w) /\ Goes(q, r, pc, r.i) /\ Keeping(q, r)
    BY <1>1, <2>2, AtDone
  <2> QED
    BY <1>2, <1>3, <1>5, <2>1, <2>3
<1> QED
  BY <1>4, <1>5 DEF CheckShared

\* The outcome of remove.
LEMMA RemoveLinkDone ==
    ASSUME ThreadTypes, NEW w \in Workers, RemoveLink(w), NEW r, r = thread[w],
           NEW q, q = thread'[w]
    PROVE  /\ Others(w) /\ r.op \in {"WRITE", "COMMIT"} /\ SameMutexes
           /\ Linking(r.t, r.i, NoBlock)
           /\ Goes(q, r, IF r.op = "WRITE" THEN "bitmap_load" ELSE "relink", r.i)
           /\ Keeping(q, r)
<1>1. r \in ThreadRecords /\ Consistent(r) /\ r.pc = "remove"
  BY CallOf DEF RemoveLink
<1>2. r.op \in {"WRITE", "COMMIT"}
  BY <1>1 DEF Consistent, CallsOf, ThreadRecords
<1>3. SameMutexes /\ Linking(r.t, r.i, NoBlock)
  BY DEF RemoveLink
<1>4. PICK pc \in CallNames : pc = IF r.op = "WRITE" THEN "bitmap_load" ELSE "relink"
  BY DEF CallNames
<1>5. GoesOn(w, At(r, pc))
  BY <1>4 DEF RemoveLink
<1>6. Others(w) /\ Goes(q, r, pc, r.i) /\ Keeping(q, r)
  BY <1>1, <1>5, AtDone
<1> QED
  BY <1>2, <1>3, <1>4, <1>6

\* The outcomes of bitmap_load.
LEMMA BitmapLoadDone ==
    ASSUME ThreadTypes, NEW w \in Workers, bitmap_load(w), NEW r, r = thread[w],
           NEW q, q = thread'[w]
    PROVE  /\ Others(w) /\ r.op \in {"WRITE", "COMMIT"}
           /\ UNCHANGED <<disk, tag_dirs, index_mutex>> /\ bitmap_mutex = Free
           /\ \/ r.op = "WRITE" /\ q = Waiting /\ UNCHANGED bitmap_mutex
              \/ /\ bitmap_mutex' = w
                 /\ Goes(q, r, "bitmap_persist", r.i)
                 /\ q.c = r.c /\ q.blocks = r.blocks /\ q.index = r.index
                 /\ r.op = "COMMIT" => q.block = r.block /\ q.buffer = bitmap \ {r.block}
                 /\ r.op = "WRITE" => /\ q.block \in (0..BitmapBits - 1) \ bitmap
                                      /\ q.buffer = bitmap \cup {q.block}
<1> DEFINE p == IF r.op = "COMMIT" THEN r.block ELSE get_free_bit_index
           b == IF r.op = "COMMIT" THEN bitmap \ {p} ELSE bitmap \cup {p}
<1>1. r \in ThreadRecords /\ Consistent(r) /\ r.pc = "bitmap_load"
  BY CallOf DEF bitmap_load
<1>2. r.op \in {"WRITE", "COMMIT"}
  BY <1>1 DEF Consistent, CallsOf, ThreadRecords
<1>3. UNCHANGED <<disk, tag_dirs, index_mutex>> /\ bitmap_mutex = Free
  BY DEF bitmap_load
<1>4. r.op = "COMMIT" => p \in Blocks /\ p # NoBlock
  BY <1>1, Numbers DEF Consistent
<1>5. r.op = "WRITE" => p = NoBlock \/ p \in (0..BitmapBits - 1) \ bitmap
  BY FreeBit DEF ThreadTypes
<1>6. CASE p = NoBlock /\ NoSpace(w)
  <2>1. r.op = "WRITE"
    BY <1>2, <1>4, <1>6
  <2> QED
    BY <1>3, <1>6, <2>1, EndsThen DEF NoSpace
<1>7. CASE /\ p # NoBlock /\ BitmapLocked(w)
           /\ GoesOn(w, [r EXCEPT !.pc = "bitmap_persist", !.block = p, !.buffer = b])
  <2>1. q = [r EXCEPT !.pc = "bitmap_persist", !.block = p, !.buffer = b] /\ Others(w)
    BY <1>7, GoesOnTo
  <2>2. p \in 0..BitmapBits - 1
    BY <1>2, <1>4, <1>5, <1>7, Numbers
  <2>3. b \in SUBSET (0..BitmapBits - 1)
    BY <2>2 DEF ThreadTypes, TypeOK
  <2>4. r.op = "COMMIT" => p = r.block /\ b = bitmap \ {r.block}
    OBVIOUS
  <2>5. r.op = "WRITE" => p \in (0..BitmapBits - 1) \ bitmap /\ b = bitmap \cup {p}
    BY <1>5, <1>7
  <2>6. "bitmap_persist" \in CallNames
    BY DEF CallNames
  <2> HIDE DEF p, b
  <2>7. /\ q.c = r.c /\ q.blocks = r.blocks /\ q.index = r.index
        /\ q.block = p /\ q.buffer = b /\ q.pc = "bitmap_persist" /\ q.i = r.i
    BY <1>1, <2>1 DEF ThreadRecords
  <2>8. /\ q.op = r.op /\ q.t = r.t /\ q.from = r.from /\ q.n = r.n /\ q.state = r.state
        /\ q.before = r.before
    BY <1>1, <2>1 DEF ThreadRecords
  <2>9. q \in ThreadRecords
    BY <1>1, <2>1, <2>2, <2>3, <2>6 DEF ThreadRecords
  <2>10. Goes(q, r, "bitmap_persist", r.i)
    BY <2>7, <2>8, <2>9 DEF Goes
  <2> QED
    BY <1>2, <1>3, <1>7, <2>1, <2>4, <2>5, <2>7, <2>10 DEF BitmapLocked
<1> QED
  BY <1>6, <1>7 DEF bitmap_load

\* The outcomes of bitmap_persist.
LEMMA BitmapPersistDone ==
    ASSUME ThreadTypes, NEW w \in Workers, bitmap_persist(w), NEW r, r = thread[w],
           NEW q, q = thread'[w]
    PROVE  /\ Others(w) /\ r.op \in {"WRITE", "COMMIT"} /\ r.i \in LogicalBlocks
           /\ bitmap' = r.buffer /\ bitmap_mutex' = Free
           /\ UNCHANGED <<metadata, links, directories, tag_dirs, content, hash_index,
                          index_mutex>>
           /\ Keeping(q, r)
           /\ \/ r.op = "COMMIT" /\ Goes(q, r, AfterTurn(r), r.i + 1)
              \/ r.op = "WRITE" /\ Goes(q, r, "create_new_hardlink", r.i)
<1>1. r \in ThreadRecords /\ Consistent(r) /\ r.pc = "bitmap_persist"
  BY CallOf DEF bitmap_persist
<1>2. r.op \in {"WRITE", "COMMIT"}
  BY <1>1 DEF Consistent, CallsOf, ThreadRecords
<1>3. r.i \in LogicalBlocks
  BY <1>1, BlockOf DEF PerBlock
<1>4. /\ bitmap' = r.buffer /\ bitmap_mutex' = Free
      /\ UNCHANGED <<metadata, links, directories, tag_dirs, content, hash_index, index_mutex>>
  BY DEF bitmap_persist
<1>5. PICK s : s = [r EXCEPT !.buffer = {}]
  OBVIOUS
<1>6. Goes(s, r, r.pc, r.i) /\ Keeping(s, r)
  BY <1>1, <1>5, NoBufferGoes
<1>7. s \in ThreadRecords /\ s.i \in LogicalBlocks /\ s.op = r.op
  BY <1>3, <1>6 DEF Goes
<1>8. GoesOn(w, IF s.op = "COMMIT" THEN NextTurn(s) ELSE At(s, "create_new_hardlink"))
  BY <1>5 DEF bitmap_persist
<1>9. CASE r.op = "COMMIT"
  <2>1. Others(w) /\ Goes(q, s, AfterTurn(s), s.i + 1) /\ Keeping(q, s)
    BY <1>7, <1>8, <1>9, TurnDone
  <2>2. AfterTurn(s) = AfterTurn(r)
    BY <1>6 DEF Goes, Keeping, AfterTurn, AfterLookUp, AfterDelete
  <2>3. Goes(q, r, AfterTurn(r), r.i + 1) /\ Keeping(q, r)
    BY <1>6, <2>1, <2>2 DEF Goes, Keeping
  <2> QED
    BY <1>2, <1>3, <1>4, <1>9, <2>1, <2>3
<1>10. CASE r.op = "WRITE"
  <2>1. "create_new_hardlink" \in CallNames
    BY DEF CallNames
  <2>2. GoesOn(w, At(s, "create_new_hardlink"))
    BY <1>7, <1>8, <1>10
  <2>3. Others(w) /\ Goes(q, s, "create_new_hardlink", s.i) /\ Keeping(q, s)
    BY <1>7, <2>1, <2>2, AtDone
  <2>4. Goes(q, r, "create_new_hardlink", r.i) /\ Keeping(q, r)
    BY <1>6, <2>3 DEF Goes, Keeping
  <2> QED
    BY <1>2, <1>3, <1>4, <1>10, <2>3, <2>4
<1> QED
  BY <1>2, <1>9, <1>10

\* The outcomes of create_new_hardlink.
LEMMA HardlinkDone ==
    ASSUME ThreadTypes, NEW w \in Workers, create_new_hardlink(w), NEW r, r = thread[w],
           NEW q, q = thread'[w]
    PROVE  /\ Others(w) /\ r.op = "WRITE" /\ SameMutexes
           /\ \/ /\ r.block \in Blocks
                 /\ Linking(r.t, r.i, r.block)
                 /\ Goes(q, r, "save_file_metadata", r.i)
                 /\ q.blocks = [r.blocks EXCEPT ![r.i] = r.block]
                 /\ Len(q.blocks) = Len(r.blocks)
              \/ r.block \notin Blocks /\ q = Waiting /\ UNCHANGED <<disk, tag_dirs>>
<1>1. r \in ThreadRecords /\ Consistent(r) /\ r.pc = "create_new_hardlink"
  BY CallOf DEF create_new_hardlink
<1>2. r.op = "WRITE"
  BY <1>1 DEF Consistent, CallsOf, ThreadRecords
<1>3. r.i \in 1..Len(r.blocks)
  BY <1>1, <1>2, BlockOf
<1>4. CASE /\ r.block \in Blocks /\ Linking(r.t, r.i, r.block)
           /\ GoesOn(w, [r EXCEPT !.pc = "save_file_metadata", !.blocks[r.i] = r.block])
  <2>1. PICK k, p : k = r.i /\ p = r.block
    OBVIOUS
  <2>2. q = WithBlocks(r, "save_file_metadata", k, p) /\ Others(w)
    BY <1>4, <2>1, GoesOnTo DEF WithBlocks
  <2>3. "save_file_metadata" \in CallNames /\ k \in 1..Len(r.blocks) /\ p \in Blocks
    BY <1>3, <1>4, <2>1 DEF CallNames
  <2>4. /\ Goes(q, r, "save_file_metadata", r.i)
        /\ q.blocks = [r.blocks EXCEPT ![k] = p] /\ Len(q.blocks) = Len(r.blocks)
    BY <1>1, <2>2, <2>3, BlocksGoes
  <2> QED
    BY <1>2, <1>4, <2>1, <2>2, <2>4 DEF create_new_hardlink
<1>5. CASE r.block \notin Blocks /\ Ends(w) /\ UNCHANGED <<disk, tag_dirs>>
  BY <1>2, <1>5, EndsThen DEF create_new_hardlink
<1> QED
  BY <1>4, <1>5 DEF create_new_hardlink

\* The outcomes of fopen.
LEMMA OpenBlockDone ==
    ASSUME ThreadTypes, NEW w \in Workers, OpenBlock(w), NEW r, r = thread[w],
           NEW q, q = thread'[w]
    PROVE  /\ Others(w) /\ r.op \in {"WRITE", "READ"} /\ r.i \in LogicalBlocks
           /\ SameMutexes /\ UNCHANGED <<disk, tag_dirs>>
           /\ \/ links[r.t][r.i] = NoBlock /\ q = Waiting
              \/ /\ links[r.t][r.i] \in Blocks
                 /\ Goes(q, r, "access", r.i)
                 /\ q.c = r.c /\ q.blocks = r.blocks /\ q.block = links[r.t][r.i]
<1>1. r \in ThreadRecords /\ Consistent(r) /\ r.pc = "fopen"
  BY CallOf DEF OpenBlock
<1>2. r.op \in {"WRITE", "READ"}
  BY <1>1 DEF Consistent, CallsOf, ThreadRecords
<1>3. r.i \in LogicalBlocks
  BY <1>1, <1>2, BlockOf
<1>4. SameMutexes /\ UNCHANGED <<disk, tag_dirs>>
  BY DEF OpenBlock
<1>5. CASE links[r.t][r.i] = NoBlock /\ Ends(w)
  BY <1>2, <1>3, <1>4, <1>5, EndsThen
<1>6. CASE /\ links[r.t][r.i] # NoBlock
           /\ GoesOn(w, [r EXCEPT !.pc = "access", !.block = links[r.t][r.i]])
  <2>1. PICK p : p = links[r.t][r.i]
    OBVIOUS
  <2>2. p \in Blocks /\ p \in (0..BitmapBits - 1) \cup {NoBlock}
    <3>1. r.t \in FileTags
      BY <1>1 DEF ThreadRecords
    <3>2. p \in Blocks
      BY <1>3, <1>6, <2>1, <3>1 DEF ThreadTypes, TypeOK
    <3> QED
      BY <3>2, Numbers
  <2>3. q = WithBlock(r, "access", p) /\ Others(w)
    BY <1>6, <2>1, GoesOnTo DEF WithBlock
  <2>4. "access" \in CallNames
    BY DEF CallNames
  <2>5. Goes(q, r, "access", r.i) /\ q.c = r.c /\ q.blocks = r.blocks /\ q.block = p
    BY <1>1, <2>2, <2>3, <2>4, BlockGoes
  <2> QED
    BY <1>2, <1>3, <1>4, <2>1, <2>2, <2>3, <2>5
<1> QED
  BY <1>5, <1>6 DEF OpenBlock

\* The outcomes of the access to a block.
LEMMA AccessBlockDone ==
    ASSUME ThreadTypes, NEW w \in Workers, AccessBlock(w), NEW r, r = thread[w]
    PROVE  /\ Others(w) /\ thread'[w] = Waiting /\ SameMutexes
           /\ UNCHANGED <<metadata, links, directories, tag_dirs, bitmap, hash_index>>
           /\ \/ r.op = "WRITE" /\ content' = [content EXCEPT ![r.block] = r.c]
              \/ r.op = "READ" /\ UNCHANGED content
<1>1. CASE r.op = "WRITE" /\ content' = [content EXCEPT ![r.block] = r.c] /\ Ends(w)
  BY <1>1, EndsThen DEF AccessBlock
<1>2. CASE r.op = "READ" /\ Answers(w, <<content[r.block]>>) /\ UNCHANGED content
  <2>1. thread'[w] = Waiting /\ Others(w)
    BY <1>2 DEF ThreadTypes, Answers, Others
  <2> QED
    BY <1>2, <2>1 DEF AccessBlock
<1> QED
  BY <1>1, <1>2 DEF AccessBlock

\* The outcome of config_create.
LEMMA LoadIndexDone ==
    ASSUME ThreadTypes, NEW w \in Workers, LoadIndex(w), NEW r, r = thread[w],
           NEW q, q = thread'[w]
    PROVE  /\ Others(w) /\ r.op = "COMMIT"
           /\ UNCHANGED <<disk, tag_dirs, bitmap_mutex>>
           /\ index_mutex = Free /\ index_mutex' = w
           /\ Goes(q, r, AfterLookUp(r, 1), 1)
           /\ q.blocks = r.blocks /\ q.index = hash_index
<1>1. r \in ThreadRecords /\ Consistent(r) /\ r.pc = "config_create"
  BY CallOf DEF LoadIndex
<1>2. r.op = "COMMIT"
  BY <1>1 DEF Consistent, CallsOf, ThreadRecords
<1>3. /\ UNCHANGED <<disk, tag_dirs, bitmap_mutex>>
      /\ index_mutex = Free /\ index_mutex' = w
  BY DEF LoadIndex
<1>4. PICK x, s : x = hash_index /\ s = [r EXCEPT !.index = x]
  OBVIOUS
<1>5. x \in {<<>>} \cup [Contents -> Blocks \cup {NoBlock}]
  BY <1>4 DEF ThreadTypes, TypeOK
<1>6. Goes(s, r, r.pc, r.i) /\ s.blocks = r.blocks /\ s.index = x
  BY <1>1, <1>4, <1>5, IndexGoes
<1>7. q = DeduplicateFrom(s, 1) /\ Others(w)
  BY <1>4, GoesOnTo DEF LoadIndex
<1>8. s \in ThreadRecords /\ 1 \in 1..MaxBlocks + 1
  BY <1>6, Numbers DEF Goes
<1>9. Goes(q, s, AfterLookUp(s, 1), 1) /\ Keeping(q, s)
  BY <1>7, <1>8, DeduplicateFromGoes
<1>10. AfterLookUp(s, 1) = AfterLookUp(r, 1)
  BY <1>6 DEF AfterLookUp
<1>11. Goes(q, r, AfterLookUp(r, 1), 1) /\ q.blocks = r.blocks /\ q.index = x
  BY <1>6, <1>9, <1>10 DEF Goes, Keeping
<1> QED
  BY <1>2, <1>3, <1>4, <1>7, <1>11

\* A turn of deduplicate_blocks that finds the content c and no duplicate, or one.
LookUpOutcome(w, r, q, c) ==
    /\ Others(w) /\ r.op = "COMMIT" /\ r.i \in LogicalBlocks
    /\ UNCHANGED <<disk, tag_dirs, bitmap_mutex>>
    /\ \/ q = Waiting /\ links[r.t][r.i] = NoBlock /\ index_mutex' = Free
       \/ /\ UNCHANGED index_mutex /\ c \in Contents
          /\ links[r.t][r.i] \in Blocks
          /\ Goes(q, r, AfterTurn(r), r.i + 1)
          /\ q.blocks = r.blocks
          /\ \/ r.index[c] = NoBlock /\ q.index = [r.index EXCEPT ![c] = r.blocks[r.i]]
             \/ r.index[c] = r.blocks[r.i] /\ q.index = r.index
       \/ /\ UNCHANGED index_mutex /\ c \in Contents
          /\ links[r.t][r.i] \in Blocks
          /\ r.index[c] \notin {NoBlock, r.blocks[r.i]}
          /\ Goes(q, r, "remove", r.i)
          /\ q.blocks = r.blocks /\ q.index = r.index
          /\ q.block = r.blocks[r.i] /\ q.c = c

\* The outcomes of a turn of deduplicate_blocks.
LEMMA LookUpDone ==
    ASSUME ThreadTypes, NEW w \in Workers, LookUp(w), NEW r, r = thread[w],
           NEW q, q = thread'[w], NEW c, c = read_block_content(r)
    PROVE  LookUpOutcome(w, r, q, c)
<1> USE DEF LookUpOutcome
<1> DEFINE p == r.blocks[r.i]
<1>1. r \in ThreadRecords /\ Consistent(r) /\ r.pc = "read_block_content"
  BY CallOf DEF LookUp
<1>2. r.op = "COMMIT"
  BY <1>1 DEF Consistent, CallsOf, ThreadRecords
<1>3. r.i \in LogicalBlocks /\ p \in Blocks
  BY <1>1, BlockOf DEF PerBlock
<1>4. UNCHANGED <<disk, tag_dirs, bitmap_mutex>>
  BY DEF LookUp
<1>5. CASE links[r.t][r.i] = NoBlock /\ Ends(w) /\ index_mutex' = Free
  BY <1>2, <1>3, <1>4, <1>5, EndsThen
<1>6. CASE /\ links[r.t][r.i] # NoBlock /\ UNCHANGED index_mutex
           /\ GoesOn(w, IF r.index[c] = NoBlock THEN NextTurn([r EXCEPT !.index[c] = p])
                        ELSE IF r.index[c] = p THEN NextTurn(r)
                        ELSE [r EXCEPT !.pc = "remove", !.block = p, !.c = c])
  <2>1. links[r.t][r.i] \in Blocks /\ c \in Contents
    <3>1. r.t \in FileTags
      BY <1>1 DEF ThreadRecords
    <3>2. links[r.t][r.i] \in Blocks
      BY <1>3, <1>6, <3>1 DEF ThreadTypes, TypeOK
    <3> QED
      BY <3>2 DEF ThreadTypes, TypeOK, read_block_content
  <2>2. r.index \in [Contents -> Blocks \cup {NoBlock}]
    <3>1. r # Waiting
      BY <1>1, ThreadsAssumption
    <3> QED
      BY <1>1, <1>2, <3>1 DEF Consistent, HoldsIndex
  <2>3. CASE r.index[c] = NoBlock
    <3>1. PICK x : x = [r.index EXCEPT ![c] = p]
      OBVIOUS
    <3>2. x \in {<<>>} \cup [Contents -> Blocks \cup {NoBlock}]
      BY <1>3, <2>1, <2>2, <3>1
    <3>3. PICK s : s = [r EXCEPT !.index[c] = p]
      OBVIOUS
    <3>4. s = [r EXCEPT !.index = x]
      BY <1>1, <3>1, <3>3 DEF ThreadRecords
    <3>5. Goes(s, r, r.pc, r.i) /\ s.blocks = r.blocks /\ s.index = x
      BY <1>1, <3>2, <3>4, IndexGoes
    <3>6. s \in ThreadRecords /\ s.i \in LogicalBlocks /\ GoesOn(w, NextTurn(s))
      BY <1>3, <1>6, <2>3, <3>3, <3>5 DEF Goes
    <3>7. Others(w) /\ Goes(q, s, AfterTurn(s), s.i + 1) /\ Keeping(q, s)
      BY <3>6, TurnDone
    <3>8. AfterTurn(s) = AfterTurn(r)
      BY <3>5 DEF Goes, AfterTurn, AfterLookUp, AfterDelete
    <3>9. Goes(q, r, AfterTurn(r), r.i + 1) /\ q.blocks = r.blocks /\ q.index = x
      BY <3>5, <3>7, <3>8 DEF Goes, Keeping
    <3> QED
      BY <1>2, <1>3, <1>4, <1>6, <2>1, <2>3, <3>1, <3>7, <3>9
  <2>4. CASE r.index[c] # NoBlock /\ r.index[c] = p
    <3>1. GoesOn(w, NextTurn(r))
      BY <1>6, <2>4
    <3>2. Others(w) /\ Goes(q, r, AfterTurn(r), r.i + 1) /\ Keeping(q, r)
      BY <1>1, <1>3, <3>1, TurnDone
    <3> QED
      BY <1>2, <1>3, <1>4, <1>6, <2>1, <2>4, <3>2 DEF Keeping
  <2>5. CASE r.index[c] # NoBlock /\ r.index[c] # p
    <3>1. GoesOn(w, [r EXCEPT !.pc = "remove", !.block = p, !.c = c])
      BY <1>6, <2>5
    <3>2. q = [r EXCEPT !.pc = "remove", !.block = p, !.c = c] /\ Others(w)
      BY <3>1, GoesOnTo
    <3>3. p \in (0..BitmapBits - 1) \cup {NoBlock} /\ "remove" \in CallNames
      BY <1>3, Numbers DEF CallNames
    <3> HIDE DEF p
    <3>4. /\ q.blocks = r.blocks /\ q.index = r.index /\ q.block = p /\ q.c = c
          /\ q.pc = "remove" /\ q.i = r.i
      BY <1>1, <3>2 DEF ThreadRecords
    <3>5. /\ q.op = r.op /\ q.t = r.t /\ q.from = r.from /\ q.n = r.n /\ q.state = r.state
          /\ q.before = r.before
      BY <1>1, <3>2 DEF ThreadRecords
    <3>6. q \in ThreadRecords
      BY <1>1, <2>1, <3>2, <3>3 DEF ThreadRecords
    <3>7. Goes(q, r, "remove", r.i)
      BY <3>4, <3>5, <3>6 DEF Goes
    <3> QED
      BY <1>2, <1>3, <1>4, <1>6, <2>1, <2>5, <3>2, <3>4, <3>7 DEF p
  <2> QED
    BY <2>3, <2>4, <2>5
<1> QED
  BY <1>5, <1>6 DEF LookUp

\* The duplicate's link is replaced by one to the registered block.
RelinkOutcome(w, r, q) ==
    /\ Others(w) /\ r.op = "COMMIT" /\ SameMutexes
    /\ r.index[r.c] \in Blocks
    /\ Linking(r.t, r.i, r.index[r.c])
    /\ Goes(q, r, "stat", r.i)
    /\ q.block = r.block /\ q.index = r.index
    /\ q.blocks = [r.blocks EXCEPT ![r.i] = r.index[r.c]]
    /\ Len(q.blocks) = Len(r.blocks)

\* The outcome of update_logical_block_link.
LEMMA RelinkDone ==
    ASSUME ThreadTypes, NEW w \in Workers, update_logical_block_link(w), NEW r, r = thread[w],
           NEW q, q = thread'[w]
    PROVE  RelinkOutcome(w, r, q)
<1> USE DEF RelinkOutcome
<1>1. r \in ThreadRecords /\ Consistent(r) /\ r.pc = "relink" /\ r # Waiting
  BY CallOf DEF update_logical_block_link
<1>2. r.op = "COMMIT"
  BY <1>1 DEF Consistent, CallsOf, ThreadRecords
<1>3. r.i \in 1..Len(r.blocks)
  BY <1>1, BlockOf DEF PerBlock
<1>4. r.index[r.c] \in Blocks
  <2>1. r.index \in [Contents -> Blocks \cup {NoBlock}] /\ r.index[r.c] # NoBlock
    BY <1>1, <1>2 DEF Consistent, HoldsIndex
  <2>2. r.c \in Contents
    BY <1>1 DEF ThreadRecords
  <2> QED
    BY <2>1, <2>2
<1>5. PICK k, p : k = r.i /\ p = r.index[r.c]
  OBVIOUS
<1>6. q = WithBlocks(r, "stat", k, p) /\ Others(w)
  BY <1>5, GoesOnTo DEF update_logical_block_link, WithBlocks
<1>7. "stat" \in CallNames /\ k \in 1..Len(r.blocks) /\ p \in Blocks
  BY <1>3, <1>4, <1>5 DEF CallNames
<1>8. /\ Goes(q, r, "stat", r.i) /\ q.block = r.block /\ q.index = r.index
      /\ q.blocks = [r.blocks EXCEPT ![k] = p] /\ Len(q.blocks) = Len(r.blocks)
  BY <1>1, <1>6, <1>7, BlocksGoes
<1>9. SameMutexes /\ Linking(r.t, r.i, r.index[r.c])
  BY DEF update_logical_block_link
<1> QED
  BY <1>2, <1>4, <1>5, <1>6, <1>8, <1>9

\* The outcome of config_save.
LEMMA SaveIndexDone ==
    ASSUME ThreadTypes, NEW w \in Workers, SaveIndex(w), NEW r, r = thread[w],
           NEW q, q = thread'[w]
    PROVE  /\ Others(w) /\ r.op = "COMMIT"
           /\ UNCHANGED <<metadata, links, directories, tag_dirs, bitmap, content, bitmap_mutex>>
           /\ hash_index' = r.index /\ index_mutex' = Free
           /\ Goes(q, r, "save_file_metadata", r.i) /\ q.blocks = r.blocks
<1>1. r \in ThreadRecords /\ Consistent(r) /\ r.pc = "config_save"
  BY CallOf DEF SaveIndex
<1>2. r.op = "COMMIT"
  BY <1>1 DEF Consistent, CallsOf, ThreadRecords
<1>3. q = [r EXCEPT !.pc = "save_file_metadata", !.index = <<>>] /\ Others(w)
  BY GoesOnTo DEF SaveIndex
<1>4. "save_file_metadata" \in CallNames
  BY DEF CallNames
<1>5. q.blocks = r.blocks /\ q.pc = "save_file_metadata" /\ q.i = r.i
  BY <1>1, <1>3 DEF ThreadRecords
<1>6. /\ q.op = r.op /\ q.t = r.t /\ q.from = r.from /\ q.n = r.n /\ q.state = r.state
      /\ q.before = r.before
  BY <1>1, <1>3 DEF ThreadRecords
<1>7. q \in ThreadRecords
  BY <1>1, <1>3, <1>4 DEF ThreadRecords
<1>8. Goes(q, r, "save_file_metadata", r.i)
  BY <1>5, <1>6, <1>7 DEF Goes
<1> QED
  BY <1>2, <1>3, <1>5, <1>8 DEF SaveIndex

-----------------------------------------------------------------------------
(* The start of a request.                                                 *)

Operations == {"CREATE", "TAG", "DELETE", "TRUNCATE", "COMMIT", "WRITE", "READ"}
FileStates == {"WORK_IN_PROGRESS", "COMMITTED"}
StoredFiles == {NoFile} \cup [data : Seq(Contents \cup {NoBlock}), committed : BOOLEAN]

\* A request before its first call.
Received(r) ==
    /\ DOMAIN r = {"op", "t", "from", "i", "c", "n", "pc", "blocks", "state", "block",
                   "buffer", "index", "before"}
    /\ r = [x \in DOMAIN r |-> r[x]]
    /\ r.op \in Operations /\ r.t \in FileTags /\ r.from \in FileTags
    /\ r.i \in LogicalBlocks /\ r.c \in Contents /\ r.n \in 0..MaxBlocks
    /\ r.blocks \in Seq(Blocks) /\ r.state \in FileStates
    /\ r.block = NoBlock /\ r.buffer = {} /\ r.index = <<>> /\ r.before \in StoredFiles

\* It makes a first call.
FirstCall(r, i, pc) == [r EXCEPT !.i = i, !.pc = pc]

\* The request at its first call.
LEMMA FirstGoes ==
    ASSUME NEW r, Received(r), NEW i \in 1..MaxBlocks + 1, NEW pc \in CallNames,
           NEW q, q = FirstCall(r, i, pc)
    PROVE  Goes(q, r, pc, i) /\ Keeping(q, r)
<1>1. q.c = r.c /\ q.blocks = r.blocks /\ q.block = r.block /\ q.index = r.index /\ q.buffer = r.buffer
  BY DEF Received, FirstCall
<1>2. /\ q.op = r.op /\ q.t = r.t /\ q.from = r.from /\ q.n = r.n /\ q.state = r.state
      /\ q.before = r.before /\ q.i = i /\ q.pc = pc
  BY DEF Received, FirstCall
<1>3. q = [op |-> q.op, t |-> q.t, from |-> q.from, i |-> q.i, c |-> q.c, n |-> q.n,
           pc |-> q.pc, blocks |-> q.blocks, state |-> q.state, block |-> q.block,
           buffer |-> q.buffer, index |-> q.index, before |-> q.before]
  BY DEF Received, FirstCall
<1>4. /\ q.op \in Operations /\ q.t \in FileTags /\ q.from \in FileTags
      /\ q.i \in 1..MaxBlocks + 1 /\ q.c \in Contents /\ q.n \in 0..MaxBlocks
      /\ q.pc \in CallNames /\ q.blocks \in Seq(Blocks) /\ q.state \in FileStates
      /\ q.block \in (0..BitmapBits - 1) \cup {NoBlock} /\ q.before \in StoredFiles
      /\ q.index \in {<<>>} \cup [Contents -> Blocks \cup {NoBlock}]
  BY <1>1, <1>2 DEF Received
<1>5. q.buffer \in SUBSET (0..BitmapBits - 1)
  BY <1>1 DEF Received
<1>6. q \in ThreadRecords
  BY <1>3, <1>4, <1>5 DEF ThreadRecords, Operations, FileStates, StoredFiles
<1> QED
  BY <1>1, <1>2, <1>6 DEF Goes, Keeping

\* What a Worker may ask for.
LEMMA RequestReceived ==
    ASSUME ThreadTypes, NEW r \in Requests
    PROVE  /\ Received(r)
           /\ r.op # "TAG" => r.from = r.t
           /\ r.op \notin {"READ", "WRITE"} => r.i = 1
           /\ r.op # "TRUNCATE" => r.n = 0
           /\ r.blocks = <<>> /\ r.state = "WORK_IN_PROGRESS" /\ r.before = Stored(r.t)
<1>1. PICK op \in Operations, t \in FileTags, from \in FileTags, i \in LogicalBlocks,
           c \in Contents, n \in 0..MaxBlocks :
        /\ r = Request(op, t, from, i, c, n)
        /\ op # "TAG" => from = t
        /\ op \notin {"READ", "WRITE"} => i = 1
        /\ op # "TRUNCATE" => n = 0
  <2>1. 1 \in LogicalBlocks /\ Zeros \in Contents /\ 0 \in 0..MaxBlocks
    BY Numbers, StorageAssumption
  <2> QED
    BY <2>1 DEF Requests, Operations
<1>2. Stored(t) \in StoredFiles
  <2>1. CASE Exists(t)
    <3>1. DataOf(t) \in Seq(Contents \cup {NoBlock})
      BY <2>1, ShownType DEF ThreadTypes
    <3> QED
      BY <2>1, <3>1 DEF Stored, StoredFiles, Committed
  <2>2. CASE ~Exists(t)
    BY <2>2 DEF Stored, StoredFiles
  <2> QED
    BY <2>1, <2>2
<1>3. PICK b : b = Stored(t)
  OBVIOUS
<1>4. r = [op |-> op, t |-> t, from |-> from, i |-> i, c |-> c, n |-> n, pc |-> "",
           blocks |-> <<>>, state |-> "WORK_IN_PROGRESS", block |-> NoBlock, buffer |-> {},
           index |-> <<>>, before |-> b]
  BY <1>1, <1>3 DEF Request
<1>5. /\ r.op = op /\ r.t = t /\ r.from = from /\ r.i = i /\ r.c = c /\ r.n = n
      /\ r.blocks = <<>> /\ r.state = "WORK_IN_PROGRESS" /\ r.block = NoBlock
      /\ r.buffer = {} /\ r.index = <<>> /\ r.before = b
  BY <1>4
<1>6. /\ DOMAIN r = {"op", "t", "from", "i", "c", "n", "pc", "blocks", "state", "block",
                     "buffer", "index", "before"}
      /\ r = [x \in DOMAIN r |-> r[x]]
  BY <1>4
<1>7. Received(r)
  BY <1>2, <1>3, <1>5, <1>6 DEF Received, FileStates
<1> QED
  BY <1>1, <1>3, <1>5, <1>7

\* The copy of the metadata, before the first call.
Copying(r, b, st) == [r EXCEPT !.blocks = b, !.state = st]

\* It is the same request.
LEMMA CopyReceived ==
    ASSUME NEW r, Received(r), NEW b \in Seq(Blocks), NEW st \in FileStates,
           NEW s, s = Copying(r, b, st)
    PROVE  /\ Received(s)
           /\ s.op = r.op /\ s.t = r.t /\ s.from = r.from /\ s.i = r.i /\ s.c = r.c
           /\ s.n = r.n /\ s.before = r.before /\ s.blocks = b /\ s.state = st
<1>1. /\ s.op = r.op /\ s.t = r.t /\ s.from = r.from /\ s.i = r.i /\ s.c = r.c
      /\ s.n = r.n /\ s.before = r.before /\ s.blocks = b /\ s.state = st
      /\ s.block = r.block /\ s.buffer = r.buffer /\ s.index = r.index
  BY DEF Received, Copying
<1>2. DOMAIN s = DOMAIN r /\ s = [x \in DOMAIN s |-> s[x]]
  BY DEF Received, Copying
<1> QED
  BY <1>1, <1>2 DEF Received

\* q is the request r at its first call.
Begins(q, r) ==
    LET count == Len(q.blocks)
    IN  /\ q \in ThreadRecords
        /\ q.op = r.op /\ q.t = r.t /\ q.from = r.from /\ q.n = r.n /\ q.before = Stored(r.t)
        /\ r.op = "CREATE" => q.blocks = <<>>
        /\ r.op # "CREATE" => /\ Exists(r.from)
                              /\ q.blocks = metadata[r.from].blocks
                              /\ q.state = metadata[r.from].state
        /\ count \in 0..MaxBlocks
        /\ r.op \in {"CREATE", "TAG"} => q.pc = "mkdir"
        /\ r.op = "DELETE" => q.i = 1 /\ q.pc = AfterDelete(q, 1)
        /\ r.op = "TRUNCATE" =>
              \/ r.n < count /\ q.i = r.n + 1 /\ q.pc = "delete_logical_block"
              \/ r.n = count /\ q.i = count + 1 /\ q.pc = "save_file_metadata"
              \/ r.n > count /\ q.i = count + 1 /\ q.pc = "link"
        /\ r.op = "COMMIT" =>
              q.pc = IF count = 0 THEN "save_file_metadata" ELSE "config_create"
        /\ r.op = "WRITE" => q.pc = "ph_block_links"
        /\ r.op = "READ" => q.pc = "fopen"
        /\ r.op \in {"WRITE", "READ"} => q.i = r.i /\ q.i <= count

\* A request is refused, or makes its first call.
LEMMA HandleDone ==
    ASSUME ThreadTypes, NEW w \in Workers, handle_client(w), NEW q, q = thread'[w]
    PROVE  /\ Others(w) /\ thread[w] = Waiting /\ SameMutexes /\ UNCHANGED <<disk, tag_dirs>>
           /\ \/ q = Waiting
              \/ \E r \in Requests : Allowed(w, r) /\ ~Rejected(r) /\ Begins(q, r)
<1>1. thread[w] = Waiting /\ SameMutexes /\ UNCHANGED <<disk, tag_dirs>>
  BY DEF handle_client, Busy
<1>2. PICK r \in Requests : /\ Allowed(w, r)
                            /\ IF Rejected(r) THEN Ends(w) ELSE GoesOn(w, Begun(r))
  BY DEF handle_client
<1>3. CASE Rejected(r)
  BY <1>1, <1>2, <1>3, EndsThen
<1>4. CASE ~Rejected(r)
  <2>1. q = Begun(r) /\ Others(w)
    BY <1>2, <1>4, GoesOnTo
  <2>2. /\ Received(r) /\ r.blocks = <<>> /\ r.state = "WORK_IN_PROGRESS"
        /\ r.op # "TAG" => r.from = r.t
        /\ r.before = Stored(r.t)
        /\ r.op \notin {"READ", "WRITE"} => r.i = 1
    BY RequestReceived
  <2>3. r.op \in Operations
    BY <2>2 DEF Received
  <2>4. r.op # "CREATE" => Exists(r.from)
    BY <1>4, <2>2, <2>3 DEF Rejected, Operations
  <2>5. PICK s : s = IF r.op = "CREATE" THEN r
                     ELSE [r EXCEPT !.blocks = metadata[r.from].blocks,
                                    !.state = metadata[r.from].state]
    OBVIOUS
  <2>6. /\ Received(s)
        /\ s.op = r.op /\ s.t = r.t /\ s.from = r.from /\ s.i = r.i /\ s.n = r.n
        /\ s.before = r.before
        /\ r.op = "CREATE" => s.blocks = <<>>
        /\ r.op # "CREATE" => /\ s.blocks = metadata[r.from].blocks
                              /\ s.state = metadata[r.from].state
        /\ Len(s.blocks) \in 0..MaxBlocks
    <3>1. CASE r.op = "CREATE"
      <4>1. s = r /\ Len(<<>>) = 0 /\ 0 \in 0..MaxBlocks
        BY <2>5, <3>1, Numbers
      <4> QED
        BY <2>2, <3>1, <4>1
    <3>2. CASE r.op # "CREATE"
      <4>1. r.from \in FileTags
        BY <2>2 DEF Received
      <4>2. PICK b, st : b = metadata[r.from].blocks /\ st = metadata[r.from].state
        OBVIOUS
      <4>3. b \in Seq(Blocks) /\ st \in FileStates /\ Len(b) \in 0..MaxBlocks
        <5>1. /\ metadata[r.from] \in [blocks : Seq(Blocks), state : FileStates]
              /\ BlockCount(r.from) \in Nat /\ BlockCount(r.from) <= MaxBlocks
          BY <2>4, <3>2, <4>1, FileType DEF ThreadTypes, FileStates
        <5>2. b \in Seq(Blocks) /\ st \in FileStates
          BY <4>2, <5>1
        <5>3. Len(b) \in 0..MaxBlocks
          BY <4>2, <5>1, Numbers DEF BlockCount
        <5> QED
          BY <5>2, <5>3
      <4>4. s = Copying(r, b, st)
        BY <2>5, <3>2, <4>2 DEF Copying
      <4>5. /\ Received(s)
            /\ s.op = r.op /\ s.t = r.t /\ s.from = r.from /\ s.i = r.i
            /\ s.n = r.n /\ s.before = r.before /\ s.blocks = b /\ s.state = st
        BY <2>2, <4>3, <4>4, CopyReceived
      <4> QED
        BY <3>2, <4>2, <4>3, <4>5
    <3> QED
      BY <3>1, <3>2
  <2>7. s.i \in LogicalBlocks /\ s.n \in 0..MaxBlocks
    BY <2>6 DEF Received
  <2>8. Begins(q, r)
    <3> DEFINE count == Len(s.blocks)
    <3>1. ASSUME NEW i \in 1..MaxBlocks + 1, NEW pc \in CallNames,
                 q = FirstCall(s, i, pc)
          PROVE  Goes(q, s, pc, i) /\ q.blocks = s.blocks
      BY <2>6, <3>1, FirstGoes DEF Keeping
    <3>2. ASSUME NEW pc \in CallNames, q = At(s, pc)
          PROVE  Goes(q, s, pc, s.i) /\ q.blocks = s.blocks
      <4>1. q = FirstCall(s, s.i, pc)
        BY <2>6, <3>2 DEF At, Received, FirstCall
      <4>2. s.i \in 1..MaxBlocks + 1
        BY <2>7, Numbers DEF LogicalBlocks
      <4> QED
        BY <3>1, <4>1, <4>2
    <3>3. CASE r.op \in {"CREATE", "TAG"}
      <4>1. q = At(s, "mkdir")
        BY <2>1, <2>5, <3>3 DEF Begun
      <4>2. Goes(q, s, "mkdir", s.i) /\ q.blocks = s.blocks
        BY <3>2, <4>1 DEF CallNames
      <4> QED
        BY <2>2, <2>4, <2>6, <3>3, <4>2 DEF Begins, Goes
    <3>4. CASE r.op = "DELETE"
      <4>1. q = DeleteFrom(s, 1)
        BY <2>1, <2>5, <3>4 DEF Begun
      <4>2. PICK pc \in CallNames : pc = AfterDelete(s, 1)
        BY DEF CallNames, AfterDelete
      <4>3. q = FirstCall(s, 1, pc)
        BY <4>1, <4>2 DEF DeleteFrom, AfterDelete, FirstCall
      <4>4. 1 \in 1..MaxBlocks + 1
        BY Numbers
      <4>5. Goes(q, s, pc, 1) /\ q.blocks = s.blocks
        BY <3>1, <4>3, <4>4
      <4>6. AfterDelete(q, 1) = AfterDelete(s, 1)
        BY <4>5 DEF AfterDelete, Goes
      <4> QED
        BY <2>2, <2>4, <2>6, <3>4, <4>2, <4>5, <4>6 DEF Begins, Goes
    <3>5. CASE r.op = "TRUNCATE" /\ r.n < count
      <4>1. q = DeleteFrom(s, r.n + 1)
        BY <2>1, <2>5, <3>5 DEF Begun
      <4>2. r.n + 1 \in 1..MaxBlocks + 1 /\ r.n + 1 <= count
        BY <2>6, <2>7, <3>5, Numbers
      <4>3. PICK i : i = r.n + 1
        OBVIOUS
      <4>4. q = FirstCall(s, i, "delete_logical_block")
        BY <4>1, <4>2, <4>3 DEF DeleteFrom, FirstCall
      <4>5. "delete_logical_block" \in CallNames /\ i \in 1..MaxBlocks + 1
        BY <4>2, <4>3 DEF CallNames
      <4>6. Goes(q, s, "delete_logical_block", i) /\ q.blocks = s.blocks
        BY <3>1, <4>4, <4>5
      <4> QED
        BY <2>2, <2>4, <2>6, <3>5, <4>3, <4>6 DEF Begins, Goes
    <3>6. CASE r.op = "TRUNCATE" /\ ~(r.n < count)
      <4>1. q = LinkFrom(s, count + 1)
        BY <2>1, <2>5, <3>6 DEF Begun
      <4>2. count + 1 \in 1..MaxBlocks + 1 /\ count \in Nat /\ r.n \in Nat
        BY <2>6, <2>7, Numbers
      <4>3. PICK i, pc : i = count + 1 /\ pc = IF i <= s.n THEN "link" ELSE "save_file_metadata"
        OBVIOUS
      <4>4. q = FirstCall(s, i, pc)
        BY <4>1, <4>3 DEF LinkFrom, FirstCall
      <4>5. pc \in CallNames /\ i \in 1..MaxBlocks + 1
        BY <4>2, <4>3 DEF CallNames
      <4>6. Goes(q, s, pc, i) /\ q.blocks = s.blocks
        BY <3>1, <4>4, <4>5
      <4>7. \/ r.n = count /\ pc = "save_file_metadata"
            \/ r.n > count /\ pc = "link"
        BY <2>6, <3>6, <4>2, <4>3
      <4> QED
        BY <2>2, <2>4, <2>6, <3>6, <4>3, <4>6, <4>7 DEF Begins, Goes
    <3>7. CASE r.op = "COMMIT"
      <4>1. PICK pc \in CallNames : pc = IF count = 0 THEN "save_file_metadata" ELSE "config_create"
        BY DEF CallNames
      <4>2. q = At(s, pc)
        BY <2>1, <2>5, <3>7, <4>1 DEF Begun
      <4>3. Goes(q, s, pc, s.i) /\ q.blocks = s.blocks
        BY <3>2, <4>2
      <4> QED
        BY <2>2, <2>4, <2>6, <3>7, <4>1, <4>3 DEF Begins, Goes
    <3>8. CASE r.op \in {"WRITE", "READ"}
      <4>1. PICK pc \in CallNames : pc = IF r.op = "WRITE" THEN "ph_block_links" ELSE "fopen"
        BY DEF CallNames
      <4>2. q = At(s, pc)
        BY <2>1, <2>5, <3>8, <4>1 DEF Begun
      <4>3. Goes(q, s, pc, s.i) /\ q.blocks = s.blocks
        BY <3>2, <4>2
      <4>4. r.i <= count
        <5>1. count = BlockCount(r.t)
          BY <2>2, <2>6, <3>8 DEF BlockCount
        <5>2. ~(r.i > BlockCount(r.t))
          <6>1. CASE r.op = "WRITE"
            BY <1>4, <6>1 DEF Rejected
          <6>2. CASE r.op = "READ"
            BY <1>4, <6>2 DEF Rejected
          <6> QED
            BY <3>8, <6>1, <6>2
        <5>3. r.i \in Nat
          BY <2>6, <2>7, Numbers
        <5>4. count \in Nat
          BY <2>6, Numbers
        <5> QED
          BY <5>1, <5>2, <5>3, <5>4
      <4> QED
        BY <2>2, <2>4, <2>6, <3>8, <4>1, <4>3, <4>4 DEF Begins, Goes
    <3> QED
      BY <2>3, <3>3, <3>4, <3>5, <3>6, <3>7, <3>8 DEF Operations
  <2> QED
    BY <1>1, <1>2, <1>4, <2>1, <2>8
<1> QED
  BY <1>3, <1>4

-----------------------------------------------------------------------------
(* Types and mutexes.                                                      *)

\* What a thread may be after a step.
Typed(q) == q = Waiting \/ (q \in ThreadRecords /\ Consistent(q))

\* A step keeps the mutexes, locks one that was free or unlocks one that the
\* thread holds.
MutexMove(w) ==
    /\ \/ UNCHANGED bitmap_mutex /\ (HoldsBitmap(thread'[w]) <=> HoldsBitmap(thread[w]))
       \/ bitmap_mutex = Free /\ bitmap_mutex' = w /\ HoldsBitmap(thread'[w])
       \/ HoldsBitmap(thread[w]) /\ bitmap_mutex' = Free /\ ~HoldsBitmap(thread'[w])
    /\ \/ UNCHANGED index_mutex /\ (HoldsIndex(thread'[w]) <=> HoldsIndex(thread[w]))
       \/ index_mutex = Free /\ index_mutex' = w /\ HoldsIndex(thread'[w])
       \/ HoldsIndex(thread[w]) /\ index_mutex' = Free /\ ~HoldsIndex(thread'[w])

\* What every step of a thread keeps.
StepTypes(w) ==
    /\ TypeOK' /\ tag_dirs' \subseteq FileTags
    /\ Others(w) /\ Typed(thread'[w]) /\ MutexMove(w)

\* A step without locks.
LEMMA NoLock ==
    ASSUME SameMutexes, NEW w, NEW r, r = thread[w], NEW q, q = thread'[w],
           HoldsBitmap(q) <=> HoldsBitmap(r), HoldsIndex(q) <=> HoldsIndex(r)
    PROVE  MutexMove(w)
BY DEF SameMutexes, MutexMove

\* A step that leaves the disk alone.
LEMMA DiskType ==
    ASSUME ThreadTypes, UNCHANGED <<disk, tag_dirs>>
    PROVE  TypeOK' /\ tag_dirs' \subseteq FileTags
BY DEF ThreadTypes, TypeOK, disk

\* A step that changes one link.
LEMMA LinkType ==
    ASSUME ThreadTypes, NEW t \in FileTags, NEW i \in LogicalBlocks,
           NEW p \in Blocks \cup {NoBlock}, Linking(t, i, p)
    PROVE  TypeOK' /\ tag_dirs' \subseteq FileTags
<1>1. links' = [links EXCEPT ![t][i] = p]
  BY DEF Linking
<1>2. links' \in [FileTags -> [LogicalBlocks -> Blocks \cup {NoBlock}]]
  BY <1>1 DEF ThreadTypes, TypeOK
<1>3. UNCHANGED <<metadata, directories, tag_dirs, bitmap, content, hash_index>>
  BY DEF Linking
<1> QED
  BY <1>2, <1>3 DEF ThreadTypes, TypeOK

\* A thread that waits, or that starts, holds nothing.
LEMMA WaitingHoldsNothing == ~HoldsBitmap(Waiting) /\ ~HoldsIndex(Waiting)
BY DEF HoldsBitmap, HoldsIndex

\* The holder of a mutex by its next call.
LEMMA HoldsByCall ==
    ASSUME NEW r \in ThreadRecords
    PROVE  /\ HoldsBitmap(r) <=> r.pc = "bitmap_persist"
           /\ HoldsIndex(r) <=> /\ r.op = "COMMIT"
                                /\ r.pc \in {"read_block_content", "remove", "relink", "stat",
                                             "bitmap_load", "bitmap_persist", "config_save"}
BY ThreadsAssumption DEF HoldsBitmap, HoldsIndex

\* The next turn of a loop.
LEMMA TurnTyped ==
    ASSUME NEW r \in ThreadRecords, Consistent(r), r.i \in LogicalBlocks,
           r.op \in {"DELETE", "TRUNCATE", "COMMIT"},
           NEW q, Goes(q, r, AfterTurn(r), r.i + 1), q.blocks = r.blocks,
           r.op = "COMMIT" => q.index \in [Contents -> Blocks \cup {NoBlock}]
    PROVE  Consistent(q) /\ ~HoldsBitmap(q) /\ (HoldsIndex(q) <=> r.op = "COMMIT")
<1>1. q \in ThreadRecords /\ q.op = r.op /\ q.pc = AfterTurn(r) /\ q.i = r.i + 1
  BY DEF Goes
<1>2. Len(q.blocks) <= MaxBlocks
  BY DEF Consistent
<1>3. CASE r.op = "COMMIT"
  <2>1. q.op = "COMMIT" /\ q.pc = IF r.i + 1 <= Len(r.blocks) THEN "read_block_content"
                                  ELSE "config_save"
    BY <1>1, <1>3 DEF AfterTurn, AfterLookUp
  <2>2. q.pc \in PerBlock => q.i <= Len(q.blocks)
    BY <1>1, <2>1 DEF PerBlock
  <2>3. Consistent(q)
    BY <1>2, <1>3, <2>1, <2>2 DEF Consistent, CallsOf, Freeing
  <2> QED
    BY <1>1, <1>3, <2>1, <2>3, HoldsByCall
<1>4. CASE r.op # "COMMIT"
  <2>1. q.pc = IF r.i + 1 <= Len(r.blocks) THEN "delete_logical_block"
               ELSE IF r.op = "DELETE" THEN "delete_file_dir_structure"
               ELSE "save_file_metadata"
    BY <1>1, <1>4 DEF AfterTurn, AfterDelete
  <2>2. q.pc \in PerBlock => q.i <= Len(q.blocks)
    BY <1>1, <2>1 DEF PerBlock
  <2>3. q.op \in {"DELETE", "TRUNCATE"} /\ q.pc \in CallsOf(q.op)
    BY <1>1, <1>4, <2>1 DEF CallsOf
  <2>4. ~HoldsBitmap(q) /\ ~HoldsIndex(q)
    BY <1>1, <2>1, <2>3, HoldsByCall
  <2>5. Consistent(q)
    BY <1>2, <2>1, <2>2, <2>3, <2>4 DEF Consistent, Freeing
  <2> QED
    BY <1>4, <2>4, <2>5
<1> QED
  BY <1>3, <1>4

\* mkdir keeps the types and the mutexes.
LEMMA MkdirTypes ==
    ASSUME ThreadTypes, NEW w \in Workers, mkdir(w)
    PROVE  StepTypes(w)
<1>1. PICK r, q, pc : /\ r = thread[w] /\ q = thread'[w]
                      /\ pc = IF r.op = "TAG" THEN "cp -rl" ELSE "create_metadata"
  OBVIOUS
<1>2. r \in ThreadRecords /\ Consistent(r) /\ r.pc = "mkdir" /\ r.t \in FileTags
  BY <1>1, CallOf DEF mkdir, ThreadRecords
<1>3. /\ Others(w) /\ r.op \in {"CREATE", "TAG"} /\ SameMutexes
      /\ UNCHANGED <<metadata, links, bitmap, content, hash_index>>
  BY <1>1, MkdirDone
<1>8. q = Waiting \/ (Goes(q, r, pc, r.i) /\ Keeping(q, r))
  BY <1>1, MkdirDone
<1>9. /\ directories' \subseteq directories \cup {FileOf(r.t)}
      /\ tag_dirs' \subseteq tag_dirs \cup {r.t}
  BY <1>1, MkdirDone
<1>4. TypeOK' /\ tag_dirs' \subseteq FileTags
  <2>1. directories \subseteq {FileOf(u) : u \in FileTags} /\ tag_dirs \subseteq FileTags
    BY DEF ThreadTypes, TypeOK
  <2>2. FileOf(r.t) \in {FileOf(u) : u \in FileTags}
    BY <1>2
  <2>3. directories' \subseteq {FileOf(u) : u \in FileTags} /\ tag_dirs' \subseteq FileTags
    BY <1>2, <1>9, <2>1, <2>2
  <2> QED
    BY <1>3, <2>3 DEF ThreadTypes, TypeOK
<1>5. ~HoldsBitmap(r) /\ ~HoldsIndex(r)
  BY <1>2, HoldsByCall
<1>6. CASE q = Waiting
  BY <1>1, <1>3, <1>4, <1>5, <1>6, WaitingHoldsNothing, NoLock DEF StepTypes, Typed
<1>7. CASE Goes(q, r, pc, r.i) /\ Keeping(q, r)
  <2>1. /\ q \in ThreadRecords /\ q.op = r.op /\ q.blocks = r.blocks
        /\ q.pc = IF r.op = "TAG" THEN "cp -rl" ELSE "create_metadata"
    BY <1>1, <1>7 DEF Goes, Keeping
  <2>2. ~HoldsBitmap(q) /\ ~HoldsIndex(q)
    BY <2>1, HoldsByCall
  <2>3. Consistent(q)
    BY <1>2, <1>3, <2>1, <2>2 DEF Consistent, CallsOf, PerBlock, Freeing
  <2> QED
    BY <1>1, <1>3, <1>4, <1>5, <2>1, <2>2, <2>3, NoLock DEF StepTypes, Typed
<1> QED
  BY <1>6, <1>7, <1>8

\* cp -rl keeps the types and the mutexes.
LEMMA CopyLinksTypes ==
    ASSUME ThreadTypes, NEW w \in Workers, CopyLinks(w)
    PROVE  StepTypes(w)
<1>1. PICK r, q : r = thread[w] /\ q = thread'[w]
  OBVIOUS
<1>2. /\ r \in ThreadRecords /\ Consistent(r) /\ r.pc = "cp -rl"
      /\ r.t \in FileTags /\ r.from \in FileTags
  BY <1>1, CallOf DEF CopyLinks, ThreadRecords
<1>3. /\ Others(w) /\ r.op = "TAG" /\ SameMutexes
      /\ UNCHANGED <<metadata, directories, tag_dirs, bitmap, content, hash_index>>
      /\ links' = [links EXCEPT ![r.t] = [i \in LogicalBlocks |->
                     IF links[r.t][i] = NoBlock THEN links[r.from][i] ELSE links[r.t][i]]]
      /\ \/ q = Waiting
         \/ Goes(q, r, "create_metadata", r.i) /\ Keeping(q, r)
  BY <1>1, CopyLinksDone
<1>4. TypeOK' /\ tag_dirs' \subseteq FileTags
  <2>1. links \in [FileTags -> [LogicalBlocks -> Blocks \cup {NoBlock}]]
    BY DEF ThreadTypes, TypeOK
  <2>2. PICK f : f = [i \in LogicalBlocks |->
                    IF links[r.t][i] = NoBlock THEN links[r.from][i] ELSE links[r.t][i]]
    OBVIOUS
  <2>3. f \in [LogicalBlocks -> Blocks \cup {NoBlock}]
    <3>1. /\ links[r.t] \in [LogicalBlocks -> Blocks \cup {NoBlock}]
          /\ links[r.from] \in [LogicalBlocks -> Blocks \cup {NoBlock}]
      BY <1>2, <2>1
    <3> QED
      BY <2>2, <3>1
  <2>4. links' = [links EXCEPT ![r.t] = f]
    BY <1>3, <2>2
  <2>5. links' \in [FileTags -> [LogicalBlocks -> Blocks \cup {NoBlock}]]
    BY <2>1, <2>3, <2>4
  <2> QED
    BY <1>3, <2>5 DEF ThreadTypes, TypeOK
<1>5. ~HoldsBitmap(r) /\ ~HoldsIndex(r)
  BY <1>2, HoldsByCall
<1>6. CASE q = Waiting
  BY <1>1, <1>3, <1>4, <1>5, <1>6, WaitingHoldsNothing, NoLock DEF StepTypes, Typed
<1>7. CASE Goes(q, r, "create_metadata", r.i) /\ Keeping(q, r)
  <2>1. /\ q \in ThreadRecords /\ q.op = r.op /\ q.blocks = r.blocks
        /\ q.pc = "create_metadata"
    BY <1>7 DEF Goes, Keeping
  <2>2. ~HoldsBitmap(q) /\ ~HoldsIndex(q)
    BY <2>1, HoldsByCall
  <2>3. Consistent(q)
    BY <1>2, <1>3, <2>1, <2>2 DEF Consistent, CallsOf, PerBlock, Freeing
  <2> QED
    BY <1>1, <1>3, <1>4, <1>5, <2>1, <2>2, <2>3, NoLock DEF StepTypes, Typed
<1> QED
  BY <1>3, <1>6, <1>7

\* create_metadata keeps the types and the mutexes.
LEMMA CreateMetadataTypes ==
    ASSUME ThreadTypes, NEW w \in Workers, create_metadata(w)
    PROVE  StepTypes(w)
<1>1. PICK r : r = thread[w]
  OBVIOUS
<1>2. /\ r \in ThreadRecords /\ Consistent(r) /\ r.pc = "create_metadata"
      /\ r.t \in FileTags /\ r.blocks \in Seq(Blocks)
  BY <1>1, CallOf DEF create_metadata, ThreadRecords
<1>3. PICK file : file = [blocks |-> r.blocks, state |-> "WORK_IN_PROGRESS"]
  OBVIOUS
<1>4. /\ Others(w) /\ thread'[w] = Waiting /\ SameMutexes
      /\ UNCHANGED <<links, directories, tag_dirs, bitmap, content, hash_index>>
      /\ metadata' = [metadata EXCEPT ![r.t] = file]
  BY <1>1, <1>3, CreateMetadataDone
<1>5. file \in Files /\ Len(file.blocks) <= MaxBlocks
  BY <1>2, <1>3 DEF Files, Consistent
<1>6. TypeOK' /\ tag_dirs' \subseteq FileTags
  <2>1. /\ metadata' \in [FileTags -> {NoFile} \cup Files]
        /\ \A u \in FileTags : metadata'[u] # NoFile => Len(metadata'[u].blocks) <= MaxBlocks
    BY <1>2, <1>4, <1>5, MetadataType DEF ThreadTypes
  <2> QED
    BY <1>4, <2>1 DEF ThreadTypes, TypeOK, Files
<1>7. ~HoldsBitmap(r) /\ ~HoldsIndex(r)
  BY <1>2, HoldsByCall
<1> QED
  BY <1>1, <1>4, <1>6, <1>7, WaitingHoldsNothing, NoLock DEF StepTypes, Typed

\* The link to block 0 keeps the types and the mutexes.
LEMMA LinkZeroTypes ==
    ASSUME ThreadTypes, NEW w \in Workers, LinkZero(w)
    PROVE  StepTypes(w)
<1>1. PICK r, q : r = thread[w] /\ q = thread'[w]
  OBVIOUS
<1>2. r \in ThreadRecords /\ Consistent(r) /\ r.pc = "link" /\ r.t \in FileTags
  BY <1>1, CallOf DEF LinkZero, ThreadRecords
<1>3. /\ Others(w) /\ r.op = "TRUNCATE" /\ r.i \in LogicalBlocks /\ SameMutexes
      /\ \/ /\ Linking(r.t, r.i, 0)
            /\ Goes(q, r, IF r.i + 1 <= r.n THEN "link" ELSE "save_file_metadata", r.i + 1)
            /\ Keeping(q, r)
         \/ q = Waiting /\ UNCHANGED <<disk, tag_dirs>>
  BY <1>1, LinkZeroDone
<1>4. ~HoldsBitmap(r) /\ ~HoldsIndex(r)
  BY <1>2, HoldsByCall
<1>5. CASE q = Waiting /\ UNCHANGED <<disk, tag_dirs>>
  BY <1>1, <1>3, <1>4, <1>5, DiskType, WaitingHoldsNothing, NoLock DEF StepTypes, Typed
<1>6. CASE /\ Linking(r.t, r.i, 0)
           /\ Goes(q, r, IF r.i + 1 <= r.n THEN "link" ELSE "save_file_metadata", r.i + 1)
           /\ Keeping(q, r)
  <2>1. /\ q \in ThreadRecords /\ q.op = r.op /\ q.blocks = r.blocks /\ q.n = r.n
        /\ q.pc = IF r.i + 1 <= r.n THEN "link" ELSE "save_file_metadata"
        /\ q.i = r.i + 1
    BY <1>6 DEF Goes, Keeping
  <2>2. ~HoldsBitmap(q) /\ ~HoldsIndex(q)
    BY <2>1, HoldsByCall
  <2>3. Consistent(q)
    BY <1>2, <1>3, <2>1, <2>2 DEF Consistent, CallsOf, PerBlock, Freeing
  <2>4. TypeOK' /\ tag_dirs' \subseteq FileTags
    BY <1>2, <1>3, <1>6, Numbers, LinkType
  <2> QED
    BY <1>1, <1>3, <1>4, <2>1, <2>2, <2>3, <2>4, NoLock DEF StepTypes, Typed
<1> QED
  BY <1>3, <1>5, <1>6

\* delete_logical_block keeps the types and the mutexes.
LEMMA DeleteBlockTypes ==
    ASSUME ThreadTypes, NEW w \in Workers, delete_logical_block(w)
    PROVE  StepTypes(w)
<1>1. PICK r, q : r = thread[w] /\ q = thread'[w]
  OBVIOUS
<1>2. r \in ThreadRecords /\ Consistent(r) /\ r.pc = "delete_logical_block" /\ r.t \in FileTags
  BY <1>1, CallOf DEF delete_logical_block, ThreadRecords
<1>3. /\ Others(w) /\ r.op \in {"DELETE", "TRUNCATE"} /\ SameMutexes
      /\ \/ /\ Linking(r.t, r.i, NoBlock)
            /\ Goes(q, r, "stat", r.i) /\ q.blocks = r.blocks /\ q.block = r.blocks[r.i]
         \/ /\ UNCHANGED <<disk, tag_dirs>>
            /\ \/ q = Waiting
               \/ Goes(q, r, AfterTurn(r), r.i + 1) /\ Keeping(q, r)
  BY <1>1, DeleteBlockDone
<1>4. ~HoldsBitmap(r) /\ ~HoldsIndex(r)
  BY <1>2, HoldsByCall
<1>5. r.i \in LogicalBlocks /\ r.i \in 1..Len(r.blocks) /\ r.blocks[r.i] \in Blocks
  BY <1>2, BlockOf DEF PerBlock
<1>6. CASE q = Waiting /\ UNCHANGED <<disk, tag_dirs>>
  BY <1>1, <1>3, <1>4, <1>6, DiskType, WaitingHoldsNothing, NoLock DEF StepTypes, Typed
<1>7. CASE UNCHANGED <<disk, tag_dirs>> /\ Goes(q, r, AfterTurn(r), r.i + 1) /\ Keeping(q, r)
  <2>1. Consistent(q) /\ ~HoldsBitmap(q) /\ ~HoldsIndex(q)
    BY <1>2, <1>3, <1>5, <1>7, TurnTyped DEF Keeping
  <2> QED
    BY <1>1, <1>3, <1>4, <1>7, <2>1, DiskType, NoLock DEF StepTypes, Typed, Goes
<1>8. CASE /\ Linking(r.t, r.i, NoBlock)
           /\ Goes(q, r, "stat", r.i) /\ q.blocks = r.blocks /\ q.block = r.blocks[r.i]
  <2>1. q \in ThreadRecords /\ q.op = r.op /\ q.pc = "stat" /\ q.i = r.i
    BY <1>8 DEF Goes
  <2>2. ~HoldsBitmap(q) /\ ~HoldsIndex(q)
    BY <1>3, <2>1, HoldsByCall
  <2>3. Consistent(q)
    BY <1>2, <1>3, <1>5, <1>8, <2>1, <2>2 DEF Consistent, CallsOf, PerBlock, Freeing
  <2>4. TypeOK' /\ tag_dirs' \subseteq FileTags
    BY <1>2, <1>5, <1>8, LinkType
  <2> QED
    BY <1>1, <1>3, <1>4, <2>1, <2>2, <2>3, <2>4, NoLock DEF StepTypes, Typed
<1> QED
  BY <1>3, <1>6, <1>7, <1>8

\* The check for an unused block keeps the types and the mutexes.
LEMMA CheckUnusedTypes ==
    ASSUME ThreadTypes, NEW w \in Workers, CheckUnused(w)
    PROVE  StepTypes(w)
<1>1. PICK r, q : r = thread[w] /\ q = thread'[w]
  OBVIOUS
<1>2. r \in ThreadRecords /\ Consistent(r) /\ r.pc = "stat"
  BY <1>1, CallOf DEF CheckUnused
<1>3. /\ Others(w) /\ r.op \in {"DELETE", "TRUNCATE", "COMMIT"} /\ SameMutexes
      /\ UNCHANGED <<disk, tag_dirs>>
      /\ r.i \in LogicalBlocks /\ Keeping(q, r)
      /\ \/ Goes(q, r, AfterTurn(r), r.i + 1)
         \/ Goes(q, r, IF r.op = "COMMIT" THEN "bitmap_load" ELSE "modify_bitmap_bits", r.i)
  BY <1>1, CheckUnusedDone
<1>4. ~HoldsBitmap(r) /\ (HoldsIndex(r) <=> r.op = "COMMIT")
  BY <1>2, HoldsByCall
<1>5. r.op = "COMMIT" => q.index \in [Contents -> Blocks \cup {NoBlock}]
  BY <1>2, <1>3, <1>4 DEF Consistent, Keeping
<1>6. CASE Goes(q, r, AfterTurn(r), r.i + 1)
  <2>1. Consistent(q) /\ ~HoldsBitmap(q) /\ (HoldsIndex(q) <=> r.op = "COMMIT")
    BY <1>2, <1>3, <1>5, <1>6, TurnTyped DEF Keeping
  <2> QED
    BY <1>1, <1>3, <1>4, <1>6, <2>1, DiskType, NoLock DEF StepTypes, Typed, Goes
<1>7. CASE Goes(q, r, IF r.op = "COMMIT" THEN "bitmap_load" ELSE "modify_bitmap_bits", r.i)
  <2>1. /\ q \in ThreadRecords /\ q.op = r.op /\ q.i = r.i
        /\ q.pc = IF r.op = "COMMIT" THEN "bitmap_load" ELSE "modify_bitmap_bits"
        /\ q.blocks = r.blocks /\ q.block = r.block
    BY <1>3, <1>7 DEF Goes, Keeping
  <2>2. ~HoldsBitmap(q) /\ (HoldsIndex(q) <=> r.op = "COMMIT")
    BY <2>1, HoldsByCall
  <2>3. r.i <= Len(r.blocks) /\ r.block \in Blocks
    BY <1>2 DEF Consistent, PerBlock, Freeing
  <2>4. Consistent(q)
    BY <1>2, <1>3, <1>5, <2>1, <2>2, <2>3 DEF Consistent, CallsOf, PerBlock, Freeing
  <2> QED
    BY <1>1, <1>3, <1>4, <2>1, <2>2, <2>4, DiskType, NoLock DEF StepTypes, Typed
<1> QED
  BY <1>3, <1>6, <1>7

\* modify_bitmap_bits keeps the types and the mutexes.
LEMMA ModifyBitmapTypes ==
    ASSUME ThreadTypes, NEW w \in Workers, modify_bitmap_bits(w)
    PROVE  StepTypes(w)
<1>1. PICK r, q : r = thread[w] /\ q = thread'[w]
  OBVIOUS
<1>2. r \in ThreadRecords /\ Consistent(r) /\ r.pc = "modify_bitmap_bits"
  BY <1>1, CallOf DEF modify_bitmap_bits
<1>3. /\ Others(w) /\ r.op \in {"DELETE", "TRUNCATE"} /\ SameMutexes
      /\ UNCHANGED <<disk, tag_dirs>>
      /\ Goes(q, r, "fclose", r.i) /\ Keeping(q, r)
  BY <1>1, ModifyBitmapDone
<1>4. ~HoldsBitmap(r) /\ ~HoldsIndex(r)
  BY <1>2, HoldsByCall
<1>5. /\ q \in ThreadRecords /\ q.op = r.op /\ q.i = r.i /\ q.pc = "fclose"
      /\ q.blocks = r.blocks /\ q.block = r.block
  BY <1>3 DEF Goes, Keeping
<1>6. ~HoldsBitmap(q) /\ ~HoldsIndex(q)
  BY <1>5, HoldsByCall
<1>7. r.i <= Len(r.blocks) /\ r.block \in Blocks
  BY <1>2 DEF Consistent, PerBlock, Freeing
<1>8. Consistent(q)
  BY <1>2, <1>3, <1>5, <1>6, <1>7 DEF Consistent, CallsOf, PerBlock, Freeing
<1> QED
  BY <1>1, <1>3, <1>4, <1>5, <1>6, <1>8, DiskType, NoLock DEF StepTypes, Typed

\* A step that writes the bitmap, from a buffer.
LEMMA BitmapType ==
    ASSUME ThreadTypes, NEW r \in ThreadRecords, bitmap' = r.buffer,
           UNCHANGED <<metadata, links, directories, tag_dirs, content, hash_index>>
    PROVE  TypeOK' /\ tag_dirs' \subseteq FileTags
<1>1. r.buffer \subseteq 0..BitmapBits - 1
  BY DEF ThreadRecords
<1> QED
  BY <1>1 DEF ThreadTypes, TypeOK

\* fclose keeps the types and the mutexes.
LEMMA FcloseTypes ==
    ASSUME ThreadTypes, NEW w \in Workers, fclose(w)
    PROVE  StepTypes(w)
<1>1. PICK r, q : r = thread[w] /\ q = thread'[w]
  OBVIOUS
<1>2. r \in ThreadRecords /\ Consistent(r) /\ r.pc = "fclose"
  BY <1>1, CallOf DEF fclose
<1>3. /\ Others(w) /\ r.op \in {"DELETE", "TRUNCATE"} /\ SameMutexes
      /\ bitmap' = r.buffer
      /\ UNCHANGED <<metadata, links, directories, tag_dirs, content, hash_index>>
      /\ r.i \in LogicalBlocks /\ Goes(q, r, AfterTurn(r), r.i + 1) /\ Keeping(q, r)
  BY <1>1, FcloseDone
<1>4. ~HoldsBitmap(r) /\ ~HoldsIndex(r)
  BY <1>2, HoldsByCall
<1>5. Consistent(q) /\ ~HoldsBitmap(q) /\ ~HoldsIndex(q)
  BY <1>2, <1>3, TurnTyped DEF Keeping
<1>6. TypeOK' /\ tag_dirs' \subseteq FileTags
  BY <1>2, <1>3, BitmapType
<1> QED
  BY <1>1, <1>3, <1>4, <1>5, <1>6, NoLock DEF StepTypes, Typed, Goes

\* delete_file_dir_structure keeps the types and the mutexes.
LEMMA DeleteStructureTypes ==
    ASSUME ThreadTypes, NEW w \in Workers, delete_file_dir_structure(w)
    PROVE  StepTypes(w)
<1>1. PICK r : r = thread[w]
  OBVIOUS
<1>2. /\ r \in ThreadRecords /\ Consistent(r) /\ r.pc = "delete_file_dir_structure"
      /\ r.t \in FileTags
  BY <1>1, CallOf DEF delete_file_dir_structure, ThreadRecords
<1>3. /\ Others(w) /\ thread'[w] = Waiting /\ SameMutexes
      /\ UNCHANGED <<directories, bitmap, content, hash_index>>
      /\ metadata' = [metadata EXCEPT ![r.t] = NoFile]
      /\ links' = [links EXCEPT ![r.t] = NoLinks]
      /\ tag_dirs' = tag_dirs \ {r.t}
  BY <1>1, DeleteStructureDone
<1>4. TypeOK' /\ tag_dirs' \subseteq FileTags
  <2>1. /\ metadata' \in [FileTags -> {NoFile} \cup Files]
        /\ \A u \in FileTags : metadata'[u] # NoFile => Len(metadata'[u].blocks) <= MaxBlocks
    BY <1>2, <1>3, MetadataType DEF ThreadTypes
  <2>2. NoLinks \in [LogicalBlocks -> Blocks \cup {NoBlock}]
    BY DEF NoLinks
  <2>3. links' \in [FileTags -> [LogicalBlocks -> Blocks \cup {NoBlock}]]
    BY <1>2, <1>3, <2>2 DEF ThreadTypes, TypeOK
  <2>4. tag_dirs' \subseteq FileTags
    BY <1>3 DEF ThreadTypes
  <2> QED
    BY <1>3, <2>1, <2>3, <2>4 DEF ThreadTypes, TypeOK, Files
<1>5. ~HoldsBitmap(r) /\ ~HoldsIndex(r)
  BY <1>2, HoldsByCall
<1> QED
  BY <1>1, <1>3, <1>4, <1>5, WaitingHoldsNothing, NoLock DEF StepTypes, Typed

\* The metadata that a request writes.
LEMMA SavedFileType ==
    ASSUME NEW r \in ThreadRecords, Consistent(r)
    PROVE  SavedFile(r) \in Files /\ Len(SavedFile(r).blocks) <= MaxBlocks
<1>1. /\ r.blocks \in Seq(Blocks) /\ r.n \in 0..MaxBlocks
      /\ r.state \in {"WORK_IN_PROGRESS", "COMMITTED"}
  BY DEF ThreadRecords
<1>2. Len(r.blocks) <= MaxBlocks
  BY DEF Consistent
<1>3. PICK b : b = [k \in 1..r.n |-> IF k <= Len(r.blocks) THEN r.blocks[k] ELSE 0]
  OBVIOUS
<1>4. b \in Seq(Blocks) /\ Len(b) = r.n
  <2>1. r.n \in Nat
    BY <1>1, Numbers
  <2>2. \A k \in 1..r.n : (IF k <= Len(r.blocks) THEN r.blocks[k] ELSE 0) \in Blocks
    BY <1>1, <2>1, Numbers
  <2>3. b \in [1..r.n -> Blocks]
    BY <1>3, <2>2
  <2> QED
    BY <2>1, <2>3
<1>5. PICK f : f = IF r.op # "TRUNCATE" THEN r.blocks ELSE b
  OBVIOUS
<1>6. f \in Seq(Blocks) /\ Len(f) <= MaxBlocks
  BY <1>1, <1>2, <1>4, <1>5, Numbers
<1>7. SavedFile(r) = [blocks |-> f, state |-> IF r.op = "COMMIT" THEN "COMMITTED" ELSE r.state]
  BY <1>3, <1>5 DEF SavedFile
<1> QED
  BY <1>1, <1>6, <1>7 DEF Files

\* save_file_metadata keeps the types and the mutexes.
LEMMA SaveMetadataTypes ==
    ASSUME ThreadTypes, NEW w \in Workers, save_file_metadata(w)
    PROVE  StepTypes(w)
<1>1. PICK r, q : r = thread[w] /\ q = thread'[w]
  OBVIOUS
<1>2. r \in ThreadRecords /\ Consistent(r) /\ r.pc = "save_file_metadata" /\ r.t \in FileTags
  BY <1>1, CallOf DEF save_file_metadata, ThreadRecords
<1>3. /\ Others(w) /\ SameMutexes
      /\ UNCHANGED <<links, directories, tag_dirs, bitmap, content, hash_index>>
      /\ metadata' = [metadata EXCEPT ![r.t] = SavedFile(r)]
      /\ \/ r.op = "WRITE" /\ Goes(q, r, "fopen", r.i) /\ Keeping(q, r)
         \/ q = Waiting
  BY <1>1, SaveMetadataDone
<1>4. TypeOK' /\ tag_dirs' \subseteq FileTags
  <2>1. SavedFile(r) \in {NoFile} \cup Files /\ Len(SavedFile(r).blocks) <= MaxBlocks
    BY <1>2, SavedFileType
  <2>2. /\ metadata' \in [FileTags -> {NoFile} \cup Files]
        /\ \A u \in FileTags : metadata'[u] # NoFile => Len(metadata'[u].blocks) <= MaxBlocks
    BY <1>2, <1>3, <2>1, MetadataType DEF ThreadTypes
  <2> QED
    BY <1>3, <2>2 DEF ThreadTypes, TypeOK, Files
<1>5. ~HoldsBitmap(r) /\ ~HoldsIndex(r)
  BY <1>2, HoldsByCall
<1>6. CASE q = Waiting
  BY <1>1, <1>3, <1>4, <1>5, <1>6, WaitingHoldsNothing, NoLock DEF StepTypes, Typed
<1>7. CASE r.op = "WRITE" /\ Goes(q, r, "fopen", r.i) /\ Keeping(q, r)
  <2>1. /\ q \in ThreadRecords /\ q.op = r.op /\ q.blocks = r.blocks /\ q.pc = "fopen"
        /\ q.i = r.i
    BY <1>7 DEF Goes, Keeping
  <2>2. ~HoldsBitmap(q) /\ ~HoldsIndex(q)
    BY <2>1, HoldsByCall
  <2>3. Consistent(q)
    BY <1>2, <1>7, <2>1, <2>2 DEF Consistent, CallsOf, PerBlock, Freeing
  <2> QED
    BY <1>1, <1>3, <1>4, <1>5, <2>1, <2>2, <2>3, NoLock DEF StepTypes, Typed
<1> QED
  BY <1>3, <1>6, <1>7

\* The check for a shared block keeps the types and the mutexes.
LEMMA CheckSharedTypes ==
    ASSUME ThreadTypes, NEW w \in Workers, CheckShared(w)
    PROVE  StepTypes(w)
<1>1. PICK r, q, pc : /\ r = thread[w] /\ q = thread'[w]
                      /\ pc = IF Shared(links[r.t][r.i]) THEN "remove" ELSE "fopen"
  OBVIOUS
<1>2. r \in ThreadRecords /\ Consistent(r) /\ r.pc = "ph_block_links"
  BY <1>1, CallOf DEF CheckShared
<1>3. /\ Others(w) /\ r.op = "WRITE" /\ SameMutexes /\ UNCHANGED <<disk, tag_dirs>>
      /\ q = Waiting \/ (Goes(q, r, pc, r.i) /\ Keeping(q, r))
  BY <1>1, CheckSharedDone
<1>4. ~HoldsBitmap(r) /\ ~HoldsIndex(r)
  BY <1>2, HoldsByCall
<1>5. CASE q = Waiting
  BY <1>1, <1>3, <1>4, <1>5, DiskType, WaitingHoldsNothing, NoLock DEF StepTypes, Typed
<1>6. CASE Goes(q, r, pc, r.i) /\ Keeping(q, r)
  <2>1. /\ q \in ThreadRecords /\ q.op = r.op /\ q.blocks = r.blocks
        /\ q.pc \in {"remove", "fopen"} /\ q.i = r.i
    BY <1>1, <1>6 DEF Goes, Keeping
  <2>2. ~HoldsBitmap(q) /\ ~HoldsIndex(q)
    BY <1>3, <2>1, HoldsByCall
  <2>3. Consistent(q)
    BY <1>2, <1>3, <2>1, <2>2 DEF Consistent, CallsOf, PerBlock, Freeing
  <2> QED
    BY <1>1, <1>3, <1>4, <2>1, <2>2, <2>3, DiskType, NoLock DEF StepTypes, Typed
<1> QED
  BY <1>3, <1>5, <1>6

\* The removal of a link keeps the types and the mutexes.
LEMMA RemoveLinkTypes ==
    ASSUME ThreadTypes, NEW w \in Workers, RemoveLink(w)
    PROVE  StepTypes(w)
<1>1. PICK r, q, pc : /\ r = thread[w] /\ q = thread'[w]
                      /\ pc = IF r.op = "WRITE" THEN "bitmap_load" ELSE "relink"
  OBVIOUS
<1>2. r \in ThreadRecords /\ Consistent(r) /\ r.pc = "remove" /\ r.t \in FileTags
  BY <1>1, CallOf DEF RemoveLink, ThreadRecords
<1>3. /\ Others(w) /\ r.op \in {"WRITE", "COMMIT"} /\ SameMutexes
      /\ Linking(r.t, r.i, NoBlock) /\ Goes(q, r, pc, r.i) /\ Keeping(q, r)
  BY <1>1, RemoveLinkDone
<1>4. r.i \in LogicalBlocks /\ r.i <= Len(r.blocks)
  BY <1>2, BlockOf DEF PerBlock, Consistent
<1>5. /\ q \in ThreadRecords /\ q.op = r.op /\ q.i = r.i /\ q.pc = pc
      /\ q.blocks = r.blocks /\ q.block = r.block /\ q.index = r.index /\ q.c = r.c
  BY <1>3 DEF Goes, Keeping
<1>6. /\ ~HoldsBitmap(r) /\ ~HoldsBitmap(q)
      /\ HoldsIndex(r) <=> r.op = "COMMIT"
      /\ HoldsIndex(q) <=> r.op = "COMMIT"
  BY <1>1, <1>2, <1>3, <1>5, HoldsByCall
<1>7. Consistent(q)
  <2>1. q.pc \in CallsOf(q.op)
    BY <1>1, <1>3, <1>5 DEF CallsOf
  <2>2. q.pc # "link" /\ q.pc \notin {"bitmap_persist", "create_new_hardlink"}
    BY <1>1, <1>5
  <2>3. r.op = "COMMIT" => /\ r.block \in Blocks /\ r.index[r.c] # NoBlock
                           /\ r.index \in [Contents -> Blocks \cup {NoBlock}]
    BY <1>2, <1>6 DEF Consistent
  <2>4. q.pc \in {"bitmap_load", "relink"}
    BY <1>1, <1>5
  <2> QED
    BY <1>2, <1>3, <1>4, <1>5, <1>6, <2>1, <2>2, <2>3, <2>4 DEF Consistent, Freeing
<1>8. TypeOK' /\ tag_dirs' \subseteq FileTags
  BY <1>2, <1>3, <1>4, LinkType
<1> QED
  BY <1>1, <1>3, <1>5, <1>6, <1>7, <1>8, NoLock DEF StepTypes, Typed

\* bitmap_load keeps the types and locks the mutex of the bitmap.
LEMMA BitmapLoadTypes ==
    ASSUME ThreadTypes, NEW w \in Workers, bitmap_load(w)
    PROVE  StepTypes(w)
<1>1. PICK r, q : r = thread[w] /\ q = thread'[w]
  OBVIOUS
<1>2. r \in ThreadRecords /\ Consistent(r) /\ r.pc = "bitmap_load"
  BY <1>1, CallOf DEF bitmap_load
<1>3. /\ Others(w) /\ r.op \in {"WRITE", "COMMIT"}
      /\ UNCHANGED <<disk, tag_dirs, index_mutex>> /\ bitmap_mutex = Free
  BY <1>1, BitmapLoadDone
<1>4. \/ r.op = "WRITE" /\ q = Waiting /\ UNCHANGED bitmap_mutex
      \/ /\ bitmap_mutex' = w
         /\ Goes(q, r, "bitmap_persist", r.i)
         /\ q.blocks = r.blocks /\ q.index = r.index
         /\ r.op = "COMMIT" => q.block = r.block
         /\ r.op = "WRITE" => q.block \in 0..BitmapBits - 1
  BY <1>1, BitmapLoadDone
<1>5. ~HoldsBitmap(r) /\ (HoldsIndex(r) <=> r.op = "COMMIT")
  BY <1>2, HoldsByCall
<1>6. TypeOK' /\ tag_dirs' \subseteq FileTags
  BY <1>3, DiskType
<1>7. CASE r.op = "WRITE" /\ q = Waiting /\ UNCHANGED bitmap_mutex
  <2>1. MutexMove(w)
    BY <1>1, <1>3, <1>5, <1>7, WaitingHoldsNothing DEF MutexMove
  <2> QED
    BY <1>1, <1>3, <1>6, <1>7, <2>1 DEF StepTypes, Typed
<1>8. CASE /\ bitmap_mutex' = w
           /\ Goes(q, r, "bitmap_persist", r.i)
           /\ q.blocks = r.blocks /\ q.index = r.index
           /\ r.op = "COMMIT" => q.block = r.block
           /\ r.op = "WRITE" => q.block \in 0..BitmapBits - 1
  <2>1. q \in ThreadRecords /\ q.op = r.op /\ q.i = r.i /\ q.pc = "bitmap_persist"
    BY <1>8 DEF Goes
  <2>2. HoldsBitmap(q) /\ (HoldsIndex(q) <=> r.op = "COMMIT")
    BY <2>1, HoldsByCall
  <2>3. r.i <= Len(r.blocks)
    BY <1>2 DEF Consistent, PerBlock
  <2>4. r.op = "COMMIT" => /\ r.block \in Blocks
                           /\ r.index \in [Contents -> Blocks \cup {NoBlock}]
    BY <1>2, <1>5 DEF Consistent
  <2>5. q.block # NoBlock /\ (r.op = "COMMIT" => q.block \in Blocks)
    <3>1. NoBlock \notin Blocks /\ NoBlock \notin 0..BitmapBits - 1
      BY Numbers, StorageAssumption
    <3> QED
      BY <1>3, <1>8, <2>4, <3>1
  <2>6. Consistent(q)
    BY <1>2, <1>3, <1>8, <2>1, <2>2, <2>3, <2>4, <2>5 DEF Consistent, CallsOf, Freeing
  <2>7. MutexMove(w)
    BY <1>1, <1>3, <1>5, <1>8, <2>2 DEF MutexMove
  <2> QED
    BY <1>1, <1>3, <1>6, <2>1, <2>6, <2>7 DEF StepTypes, Typed
<1> QED
  BY <1>4, <1>7, <1>8

\* bitmap_persist keeps the types and unlocks the mutex of the bitmap.
LEMMA BitmapPersistTypes ==
    ASSUME ThreadTypes, NEW w \in Workers, bitmap_persist(w)
    PROVE  StepTypes(w)
<1>1. PICK r, q : r = thread[w] /\ q = thread'[w]
  OBVIOUS
<1>2. r \in ThreadRecords /\ Consistent(r) /\ r.pc = "bitmap_persist"
  BY <1>1, CallOf DEF bitmap_persist
<1>3. /\ Others(w) /\ r.op \in {"WRITE", "COMMIT"} /\ r.i \in LogicalBlocks
      /\ bitmap' = r.buffer /\ bitmap_mutex' = Free /\ UNCHANGED index_mutex
      /\ UNCHANGED <<metadata, links, directories, tag_dirs, content, hash_index>>
  BY <1>1, BitmapPersistDone
<1>4. /\ Keeping(q, r)
      /\ \/ r.op = "COMMIT" /\ Goes(q, r, AfterTurn(r), r.i + 1)
         \/ r.op = "WRITE" /\ Goes(q, r, "create_new_hardlink", r.i)
  BY <1>1, BitmapPersistDone
<1>5. HoldsBitmap(r) /\ (HoldsIndex(r) <=> r.op = "COMMIT")
  BY <1>2, HoldsByCall
<1>6. TypeOK' /\ tag_dirs' \subseteq FileTags
  BY <1>2, <1>3, BitmapType
<1>7. ASSUME q \in ThreadRecords, Consistent(q), ~HoldsBitmap(q), HoldsIndex(q) <=> r.op = "COMMIT"
      PROVE  StepTypes(w)
  BY <1>1, <1>3, <1>5, <1>6, <1>7 DEF StepTypes, Typed, MutexMove
<1>8. CASE r.op = "COMMIT" /\ Goes(q, r, AfterTurn(r), r.i + 1)
  <2>1. q.index \in [Contents -> Blocks \cup {NoBlock}] /\ q.blocks = r.blocks
    BY <1>2, <1>4, <1>5, <1>8 DEF Consistent, Keeping
  <2>2. Consistent(q) /\ ~HoldsBitmap(q) /\ (HoldsIndex(q) <=> r.op = "COMMIT")
    BY <1>2, <1>3, <1>8, <2>1, TurnTyped
  <2> QED
    BY <1>7, <1>8, <2>2 DEF Goes
<1>9. CASE r.op = "WRITE" /\ Goes(q, r, "create_new_hardlink", r.i)
  <2>1. /\ q \in ThreadRecords /\ q.op = r.op /\ q.i = r.i /\ q.pc = "create_new_hardlink"
        /\ q.blocks = r.blocks /\ q.block = r.block
    BY <1>4, <1>9 DEF Goes, Keeping
  <2>2. ~HoldsBitmap(q) /\ ~HoldsIndex(q)
    BY <2>1, HoldsByCall
  <2>3. r.i <= Len(r.blocks) /\ r.block # NoBlock
    BY <1>2 DEF Consistent, PerBlock
  <2>4. Consistent(q)
    BY <1>2, <1>9, <2>1, <2>2, <2>3 DEF Consistent, CallsOf, Freeing
  <2> QED
    BY <1>7, <1>9, <2>1, <2>2, <2>4
<1> QED
  BY <1>4, <1>8, <1>9

\* create_new_hardlink keeps the types and the mutexes.
LEMMA HardlinkTypes ==
    ASSUME ThreadTypes, NEW w \in Workers, create_new_hardlink(w)
    PROVE  StepTypes(w)
<1>1. PICK r, q : r = thread[w] /\ q = thread'[w]
  OBVIOUS
<1>2. r \in ThreadRecords /\ Consistent(r) /\ r.pc = "create_new_hardlink" /\ r.t \in FileTags
  BY <1>1, CallOf DEF create_new_hardlink, ThreadRecords
<1>3. Others(w) /\ r.op = "WRITE" /\ SameMutexes
  BY <1>1, HardlinkDone
<1>4. \/ /\ r.block \in Blocks /\ Linking(r.t, r.i, r.block)
         /\ Goes(q, r, "save_file_metadata", r.i) /\ Len(q.blocks) = Len(r.blocks)
      \/ q = Waiting /\ UNCHANGED <<disk, tag_dirs>>
  <2>1. CASE r.block \in Blocks
    <3>1. Linking(r.t, r.i, r.block)
      BY <1>1, <2>1, HardlinkDone
    <3>2. Goes(q, r, "save_file_metadata", r.i) /\ Len(q.blocks) = Len(r.blocks)
      BY <1>1, <2>1, HardlinkDone
    <3> QED
      BY <2>1, <3>1, <3>2
  <2>2. CASE r.block \notin Blocks
    BY <1>1, <2>2, HardlinkDone
  <2> QED
    BY <2>1, <2>2
<1>5. ~HoldsBitmap(r) /\ ~HoldsIndex(r)
  BY <1>2, HoldsByCall
<1>6. CASE q = Waiting /\ UNCHANGED <<disk, tag_dirs>>
  BY <1>1, <1>3, <1>5, <1>6, DiskType, WaitingHoldsNothing, NoLock DEF StepTypes, Typed
<1>7. CASE /\ r.block \in Blocks /\ Linking(r.t, r.i, r.block)
           /\ Goes(q, r, "save_file_metadata", r.i) /\ Len(q.blocks) = Len(r.blocks)
  <2>1. q \in ThreadRecords /\ q.op = r.op /\ q.i = r.i /\ q.pc = "save_file_metadata"
    BY <1>7 DEF Goes
  <2>2. ~HoldsBitmap(q) /\ ~HoldsIndex(q)
    BY <2>1, HoldsByCall
  <2>3. r.i \in LogicalBlocks /\ r.i <= Len(r.blocks)
    BY <1>2, BlockOf DEF PerBlock, Consistent
  <2>4. Consistent(q)
    BY <1>2, <1>3, <1>7, <2>1, <2>2, <2>3 DEF Consistent, CallsOf, Freeing
  <2>5. TypeOK' /\ tag_dirs' \subseteq FileTags
    BY <1>2, <1>7, <2>3, LinkType
  <2> QED
    BY <1>1, <1>3, <1>5, <2>1, <2>2, <2>4, <2>5, NoLock DEF StepTypes, Typed
<1> QED
  BY <1>4, <1>6, <1>7

\* The fopen of a block keeps the types and the mutexes.
LEMMA OpenBlockTypes ==
    ASSUME ThreadTypes, NEW w \in Workers, OpenBlock(w)
    PROVE  StepTypes(w)
<1>1. PICK r, q : r = thread[w] /\ q = thread'[w]
  OBVIOUS
<1>2. r \in ThreadRecords /\ Consistent(r) /\ r.pc = "fopen"
  BY <1>1, CallOf DEF OpenBlock
<1>3. /\ Others(w) /\ r.op \in {"WRITE", "READ"} /\ SameMutexes /\ UNCHANGED <<disk, tag_dirs>>
  BY <1>1, OpenBlockDone
<1>4. \/ q = Waiting
      \/ Goes(q, r, "access", r.i) /\ q.blocks = r.blocks /\ q.block \in Blocks
  BY <1>1, OpenBlockDone
<1>5. ~HoldsBitmap(r) /\ ~HoldsIndex(r)
  BY <1>2, HoldsByCall
<1>6. CASE q = Waiting
  BY <1>1, <1>3, <1>5, <1>6, DiskType, WaitingHoldsNothing, NoLock DEF StepTypes, Typed
<1>7. CASE Goes(q, r, "access", r.i) /\ q.blocks = r.blocks /\ q.block \in Blocks
  <2>1. q \in ThreadRecords /\ q.op = r.op /\ q.i = r.i /\ q.pc = "access"
    BY <1>7 DEF Goes
  <2>2. ~HoldsBitmap(q) /\ ~HoldsIndex(q)
    BY <2>1, HoldsByCall
  <2>3. Consistent(q)
    BY <1>2, <1>3, <1>7, <2>1, <2>2 DEF Consistent, CallsOf, PerBlock, Freeing
  <2> QED
    BY <1>1, <1>3, <1>5, <2>1, <2>2, <2>3, DiskType, NoLock DEF StepTypes, Typed
<1> QED
  BY <1>4, <1>6, <1>7

\* The access to a block keeps the types and the mutexes.
LEMMA AccessBlockTypes ==
    ASSUME ThreadTypes, NEW w \in Workers, AccessBlock(w)
    PROVE  StepTypes(w)
<1>1. PICK r : r = thread[w]
  OBVIOUS
<1>2. r \in ThreadRecords /\ Consistent(r) /\ r.pc = "access" /\ r.c \in Contents
  BY <1>1, CallOf DEF AccessBlock, ThreadRecords
<1>3. /\ Others(w) /\ thread'[w] = Waiting /\ SameMutexes
      /\ UNCHANGED <<metadata, links, directories, tag_dirs, bitmap, hash_index>>
      /\ content' = [content EXCEPT ![r.block] = r.c] \/ UNCHANGED content
  BY <1>1, AccessBlockDone
<1>4. content' \in [Blocks -> Contents]
  BY <1>2, <1>3 DEF ThreadTypes, TypeOK
<1>5. TypeOK' /\ tag_dirs' \subseteq FileTags
  BY <1>3, <1>4 DEF ThreadTypes, TypeOK
<1>6. ~HoldsBitmap(r) /\ ~HoldsIndex(r)
  BY <1>2, HoldsByCall
<1> QED
  BY <1>1, <1>3, <1>5, <1>6, WaitingHoldsNothing, NoLock DEF StepTypes, Typed

\* The load of the index keeps the types and locks its mutex.
LEMMA LoadIndexTypes ==
    ASSUME ThreadTypes, NEW w \in Workers, LoadIndex(w)
    PROVE  StepTypes(w)
<1>1. PICK r, q : r = thread[w] /\ q = thread'[w]
  OBVIOUS
<1>2. r \in ThreadRecords /\ Consistent(r) /\ r.pc = "config_create"
  BY <1>1, CallOf DEF LoadIndex
<1>3. /\ Others(w) /\ r.op = "COMMIT" /\ UNCHANGED <<disk, tag_dirs, bitmap_mutex>>
      /\ index_mutex = Free /\ index_mutex' = w
  BY <1>1, LoadIndexDone
<1>4. Goes(q, r, AfterLookUp(r, 1), 1) /\ q.blocks = r.blocks /\ q.index = hash_index
  BY <1>1, LoadIndexDone
<1>5. /\ q \in ThreadRecords /\ q.op = "COMMIT" /\ q.i = 1
      /\ q.pc = IF 1 <= Len(r.blocks) THEN "read_block_content" ELSE "config_save"
  BY <1>3, <1>4 DEF Goes, AfterLookUp
<1>6. /\ ~HoldsBitmap(r) /\ ~HoldsBitmap(q) /\ HoldsIndex(q)
  BY <1>2, <1>5, HoldsByCall
<1>7. q.index \in [Contents -> Blocks \cup {NoBlock}]
  BY <1>4 DEF ThreadTypes, TypeOK
<1>8. Consistent(q)
  <2>1. q.pc \in CallsOf(q.op)
    BY <1>5 DEF CallsOf
  <2>2. q.pc \in PerBlock => q.i <= Len(q.blocks)
    BY <1>4, <1>5 DEF PerBlock
  <2> QED
    BY <1>2, <1>4, <1>5, <1>7, <2>1, <2>2 DEF Consistent, Freeing
<1>9. MutexMove(w)
  BY <1>1, <1>3, <1>6 DEF MutexMove
<1> QED
  BY <1>1, <1>3, <1>5, <1>8, <1>9, DiskType DEF StepTypes, Typed

\* The look for a duplicate keeps the types, and unlocks when it fails.
LEMMA LookUpTypes ==
    ASSUME ThreadTypes, NEW w \in Workers, LookUp(w)
    PROVE  StepTypes(w)
<1>1. PICK r, q, c : r = thread[w] /\ q = thread'[w] /\ c = read_block_content(r)
  OBVIOUS
<1>2. r \in ThreadRecords /\ Consistent(r) /\ r.pc = "read_block_content"
  BY <1>1, CallOf DEF LookUp
<1>3. /\ Others(w) /\ r.op = "COMMIT" /\ r.i \in LogicalBlocks
      /\ UNCHANGED <<disk, tag_dirs, bitmap_mutex>>
  BY <1>1, LookUpDone DEF LookUpOutcome
<1>4. ~HoldsBitmap(r) /\ HoldsIndex(r)
  BY <1>2, <1>3, HoldsByCall
<1>5. /\ r.index \in [Contents -> Blocks \cup {NoBlock}]
      /\ r.i <= Len(r.blocks) /\ r.blocks[r.i] \in Blocks
  BY <1>2, <1>4, BlockOf DEF Consistent, PerBlock
<1>6. \/ q = Waiting /\ index_mutex' = Free
      \/ /\ UNCHANGED index_mutex /\ c \in Contents
         /\ Goes(q, r, AfterTurn(r), r.i + 1) /\ q.blocks = r.blocks
         /\ q.index \in {r.index, [r.index EXCEPT ![c] = r.blocks[r.i]]}
      \/ /\ UNCHANGED index_mutex /\ c \in Contents
         /\ Goes(q, r, "remove", r.i) /\ q.blocks = r.blocks /\ q.index = r.index
         /\ q.block = r.blocks[r.i] /\ q.c = c /\ r.index[c] # NoBlock
  <2>1. LookUpOutcome(w, r, q, c)
    BY <1>1, LookUpDone
  <2> QED
    BY <2>1 DEF LookUpOutcome
<1>7. TypeOK' /\ tag_dirs' \subseteq FileTags
  BY <1>3, DiskType
<1>8. CASE q = Waiting /\ index_mutex' = Free
  BY <1>1, <1>3, <1>4, <1>7, <1>8, WaitingHoldsNothing DEF StepTypes, Typed, MutexMove
<1>9. ASSUME q \in ThreadRecords, Consistent(q), ~HoldsBitmap(q), HoldsIndex(q),
             UNCHANGED index_mutex
      PROVE  StepTypes(w)
  BY <1>1, <1>3, <1>4, <1>7, <1>9 DEF StepTypes, Typed, MutexMove
<1>10. CASE /\ UNCHANGED index_mutex /\ c \in Contents
            /\ Goes(q, r, AfterTurn(r), r.i + 1) /\ q.blocks = r.blocks
            /\ q.index \in {r.index, [r.index EXCEPT ![c] = r.blocks[r.i]]}
  <2>1. q.index \in [Contents -> Blocks \cup {NoBlock}]
    BY <1>5, <1>10
  <2>2. Consistent(q) /\ ~HoldsBitmap(q) /\ (HoldsIndex(q) <=> r.op = "COMMIT")
    BY <1>2, <1>3, <1>10, <2>1, TurnTyped
  <2> QED
    BY <1>3, <1>9, <1>10, <2>2 DEF Goes
<1>11. CASE /\ UNCHANGED index_mutex /\ c \in Contents
            /\ Goes(q, r, "remove", r.i) /\ q.blocks = r.blocks /\ q.index = r.index
            /\ q.block = r.blocks[r.i] /\ q.c = c /\ r.index[c] # NoBlock
  <2>1. q \in ThreadRecords /\ q.op = "COMMIT" /\ q.i = r.i /\ q.pc = "remove"
    BY <1>3, <1>11 DEF Goes
  <2>2. ~HoldsBitmap(q) /\ HoldsIndex(q)
    BY <2>1, HoldsByCall
  <2>3. Consistent(q)
    <3>1. q.pc \in CallsOf(q.op)
      BY <2>1 DEF CallsOf
    <3>2. q.block \in Blocks /\ q.index[q.c] # NoBlock
      BY <1>5, <1>11
    <3>3. Len(q.blocks) <= MaxBlocks /\ q.i <= Len(q.blocks)
      BY <1>2, <1>5, <1>11, <2>1 DEF Consistent
    <3>4. q.index \in [Contents -> Blocks \cup {NoBlock}]
      BY <1>5, <1>11
    <3> QED
      BY <2>1, <3>1, <3>2, <3>3, <3>4 DEF Consistent
  <2> QED
    BY <1>9, <1>11, <2>1, <2>2, <2>3
<1> QED
  BY <1>6, <1>8, <1>10, <1>11

\* update_logical_block_link keeps the types and the mutexes.
LEMMA RelinkTypes ==
    ASSUME ThreadTypes, NEW w \in Workers, update_logical_block_link(w)
    PROVE  StepTypes(w)
<1>1. PICK r, q : r = thread[w] /\ q = thread'[w]
  OBVIOUS
<1>2. r \in ThreadRecords /\ Consistent(r) /\ r.pc = "relink" /\ r.t \in FileTags
  BY <1>1, CallOf DEF update_logical_block_link, ThreadRecords
<1>3. /\ Others(w) /\ r.op = "COMMIT" /\ SameMutexes /\ r.index[r.c] \in Blocks
      /\ Linking(r.t, r.i, r.index[r.c]) /\ Goes(q, r, "stat", r.i)
      /\ q.block = r.block /\ q.index = r.index /\ Len(q.blocks) = Len(r.blocks)
  <2>1. RelinkOutcome(w, r, q)
    BY <1>1, RelinkDone
  <2> QED
    BY <2>1 DEF RelinkOutcome
<1>4. q \in ThreadRecords /\ q.op = "COMMIT" /\ q.i = r.i /\ q.pc = "stat"
  BY <1>3 DEF Goes
<1>5. ~HoldsBitmap(r) /\ HoldsIndex(r) /\ ~HoldsBitmap(q) /\ HoldsIndex(q)
  BY <1>2, <1>3, <1>4, HoldsByCall
<1>6. r.i \in LogicalBlocks /\ r.i <= Len(r.blocks) /\ Len(r.blocks) <= MaxBlocks
  BY <1>2, BlockOf DEF PerBlock, Consistent
<1>7. Consistent(q)
  <2>1. q.pc \in CallsOf(q.op)
    BY <1>4 DEF CallsOf
  <2>2. q.block \in Blocks /\ q.index \in [Contents -> Blocks \cup {NoBlock}]
    BY <1>2, <1>3, <1>5 DEF Consistent
  <2> QED
    BY <1>3, <1>4, <1>6, <2>1, <2>2 DEF Consistent
<1>8. TypeOK' /\ tag_dirs' \subseteq FileTags
  BY <1>2, <1>3, <1>6, LinkType
<1> QED
  BY <1>1, <1>3, <1>4, <1>5, <1>7, <1>8, NoLock DEF StepTypes, Typed

\* The save of the index keeps the types and unlocks its mutex.
LEMMA SaveIndexTypes ==
    ASSUME ThreadTypes, NEW w \in Workers, SaveIndex(w)
    PROVE  StepTypes(w)
<1>1. PICK r, q : r = thread[w] /\ q = thread'[w]
  OBVIOUS
<1>2. r \in ThreadRecords /\ Consistent(r) /\ r.pc = "config_save"
  BY <1>1, CallOf DEF SaveIndex
<1>3. /\ Others(w) /\ r.op = "COMMIT"
      /\ UNCHANGED <<metadata, links, directories, tag_dirs, bitmap, content, bitmap_mutex>>
      /\ hash_index' = r.index /\ index_mutex' = Free
      /\ Goes(q, r, "save_file_metadata", r.i) /\ q.blocks = r.blocks
  BY <1>1, SaveIndexDone
<1>4. q \in ThreadRecords /\ q.op = "COMMIT" /\ q.i = r.i /\ q.pc = "save_file_metadata"
  BY <1>3 DEF Goes
<1>5. ~HoldsBitmap(r) /\ HoldsIndex(r) /\ ~HoldsBitmap(q) /\ ~HoldsIndex(q)
  BY <1>2, <1>3, <1>4, HoldsByCall
<1>6. Consistent(q)
  <2>1. q.pc \in CallsOf(q.op)
    BY <1>4 DEF CallsOf
  <2> QED
    BY <1>2, <1>3, <1>4, <1>5, <2>1 DEF Consistent, Freeing, PerBlock
<1>7. hash_index' \in [Contents -> Blocks \cup {NoBlock}]
  BY <1>2, <1>3, <1>5 DEF Consistent
<1>8. TypeOK' /\ tag_dirs' \subseteq FileTags
  BY <1>3, <1>7 DEF ThreadTypes, TypeOK
<1> QED
  BY <1>1, <1>3, <1>4, <1>5, <1>6, <1>8 DEF StepTypes, Typed, MutexMove

\* A request at its first call.
LEMMA BeginsTyped ==
    ASSUME NEW q, NEW r \in Requests, Begins(q, r)
    PROVE  q \in ThreadRecords /\ Consistent(q) /\ ~HoldsBitmap(q) /\ ~HoldsIndex(q)
<1>1. q \in ThreadRecords /\ q.op = r.op /\ q.n = r.n /\ Len(q.blocks) \in 0..MaxBlocks
  BY DEF Begins
<1>2. q.i \in Nat /\ q.n \in Nat /\ q.op \in Operations
  BY <1>1, Numbers DEF ThreadRecords, Operations
<1>3. Len(q.blocks) \in Nat /\ Len(q.blocks) <= MaxBlocks
  BY <1>1, Numbers
<1>4. CASE q.op \in {"CREATE", "TAG"}
  <2>1. q.pc = "mkdir"
    BY <1>1, <1>4 DEF Begins
  <2>2. ~HoldsBitmap(q) /\ ~HoldsIndex(q)
    BY <1>1, <2>1, HoldsByCall
  <2> QED
    BY <1>1, <1>3, <1>4, <2>1, <2>2 DEF Consistent, CallsOf, PerBlock, Freeing
<1>5. CASE q.op = "DELETE"
  <2>1. q.i = 1 /\ q.pc = IF 1 <= Len(q.blocks) THEN "delete_logical_block"
                          ELSE "delete_file_dir_structure"
    BY <1>1, <1>5 DEF Begins, AfterDelete
  <2>2. ~HoldsBitmap(q) /\ ~HoldsIndex(q)
    BY <1>1, <2>1, HoldsByCall
  <2> QED
    BY <1>1, <1>3, <1>5, <2>1, <2>2 DEF Consistent, CallsOf, PerBlock, Freeing
<1>6. CASE q.op = "TRUNCATE"
  <2>1. \/ q.n < Len(q.blocks) /\ q.i = q.n + 1 /\ q.pc = "delete_logical_block"
        \/ q.pc = "save_file_metadata"
        \/ q.n > Len(q.blocks) /\ q.i = Len(q.blocks) + 1 /\ q.pc = "link"
    BY <1>1, <1>6 DEF Begins
  <2>2. ~HoldsBitmap(q) /\ ~HoldsIndex(q)
    BY <1>1, <1>6, <2>1, HoldsByCall
  <2>3. q.pc \in PerBlock => q.i <= Len(q.blocks)
    BY <1>2, <1>3, <2>1 DEF PerBlock
  <2>4. q.pc = "link" => q.i <= q.n
    BY <1>2, <1>3, <2>1
  <2>5. q.pc \in CallsOf(q.op)
    BY <1>6, <2>1 DEF CallsOf
  <2> QED
    BY <1>1, <1>3, <1>6, <2>1, <2>2, <2>3, <2>4, <2>5 DEF Consistent, Freeing
<1>7. CASE q.op = "COMMIT"
  <2>1. q.pc \in {"save_file_metadata", "config_create"}
    BY <1>1, <1>7 DEF Begins
  <2>2. ~HoldsBitmap(q) /\ ~HoldsIndex(q)
    BY <1>1, <2>1, HoldsByCall
  <2> QED
    BY <1>1, <1>3, <1>7, <2>1, <2>2 DEF Consistent, CallsOf, PerBlock, Freeing
<1>8. CASE q.op \in {"WRITE", "READ"}
  <2>1. /\ q.pc = IF q.op = "WRITE" THEN "ph_block_links" ELSE "fopen"
        /\ q.i <= Len(q.blocks)
    BY <1>1, <1>8 DEF Begins
  <2>2. ~HoldsBitmap(q) /\ ~HoldsIndex(q)
    BY <1>1, <1>8, <2>1, HoldsByCall
  <2> QED
    BY <1>1, <1>3, <1>8, <2>1, <2>2 DEF Consistent, CallsOf, PerBlock, Freeing
<1> QED
  BY <1>2, <1>4, <1>5, <1>6, <1>7, <1>8 DEF Operations

\* The start of a request keeps the types and the mutexes.
LEMMA HandleTypes ==
    ASSUME ThreadTypes, NEW w \in Workers, handle_client(w)
    PROVE  StepTypes(w)
<1>1. PICK r, q : r = thread[w] /\ q = thread'[w]
  OBVIOUS
<1>2. /\ Others(w) /\ thread[w] = Waiting /\ SameMutexes /\ UNCHANGED <<disk, tag_dirs>>
      /\ q = Waiting \/ \E s \in Requests : Begins(q, s)
  BY <1>1, HandleDone
<1>3. ~HoldsBitmap(r) /\ ~HoldsIndex(r)
  BY <1>1, <1>2, WaitingHoldsNothing
<1>4. Typed(q) /\ ~HoldsBitmap(q) /\ ~HoldsIndex(q)
  BY <1>2, BeginsTyped, WaitingHoldsNothing DEF Typed
<1> QED
  BY <1>1, <1>2, <1>3, <1>4, DiskType, NoLock DEF StepTypes

\* Every step of a thread keeps the types and the mutexes.
LEMMA ThreadStepTypes ==
    ASSUME ThreadTypes, NEW w \in Workers, handle_client(w) \/ Step(w)
    PROVE  StepTypes(w)
BY HandleTypes, MkdirTypes, CopyLinksTypes, CreateMetadataTypes, LinkZeroTypes,
   DeleteBlockTypes, CheckUnusedTypes, ModifyBitmapTypes, FcloseTypes, DeleteStructureTypes,
   SaveMetadataTypes, CheckSharedTypes, RemoveLinkTypes, BitmapLoadTypes, BitmapPersistTypes,
   HardlinkTypes, OpenBlockTypes, AccessBlockTypes, LoadIndexTypes, LookUpTypes, RelinkTypes,
   SaveIndexTypes DEF Step

\* The mutexes after the step of one thread.
LEMMA MutexStep ==
    ASSUME Mutexes, NEW w \in Workers, Others(w), MutexMove(w)
    PROVE  Mutexes'
<1>1. Free \notin Workers
  BY ThreadsAssumption
<1>2. ASSUME NEW v \in Workers \ {w}
      PROVE  /\ HoldsBitmap(thread'[v]) <=> bitmap_mutex = v
             /\ HoldsIndex(thread'[v]) <=> index_mutex = v
  BY DEF Others, Mutexes
<1>3. bitmap_mutex' \in Workers \cup {Free} /\ index_mutex' \in Workers \cup {Free}
  BY DEF Mutexes, MutexMove
<1>4. ASSUME NEW v \in Workers
      PROVE  bitmap_mutex' = v <=> HoldsBitmap(thread'[v])
  <2>1. bitmap_mutex = w <=> HoldsBitmap(thread[w])
    BY DEF Mutexes
  <2>2. \/ bitmap_mutex' = bitmap_mutex /\ (HoldsBitmap(thread'[w]) <=> HoldsBitmap(thread[w]))
        \/ bitmap_mutex = Free /\ bitmap_mutex' = w /\ HoldsBitmap(thread'[w])
        \/ HoldsBitmap(thread[w]) /\ bitmap_mutex' = Free /\ ~HoldsBitmap(thread'[w])
    BY DEF MutexMove
  <2>3. CASE v = w
    BY <1>1, <2>1, <2>2, <2>3
  <2>4. CASE v # w
    BY <1>1, <1>2, <2>1, <2>2, <2>4
  <2> QED
    BY <2>3, <2>4
<1>5. ASSUME NEW v \in Workers
      PROVE  index_mutex' = v <=> HoldsIndex(thread'[v])
  <2>1. index_mutex = w <=> HoldsIndex(thread[w])
    BY DEF Mutexes
  <2>2. \/ index_mutex' = index_mutex /\ (HoldsIndex(thread'[w]) <=> HoldsIndex(thread[w]))
        \/ index_mutex = Free /\ index_mutex' = w /\ HoldsIndex(thread'[w])
        \/ HoldsIndex(thread[w]) /\ index_mutex' = Free /\ ~HoldsIndex(thread'[w])
    BY DEF MutexMove
  <2>3. CASE v = w
    BY <1>1, <2>1, <2>2, <2>3
  <2>4. CASE v # w
    BY <1>1, <1>2, <2>1, <2>2, <2>4
  <2> QED
    BY <2>3, <2>4
<1> QED
  BY <1>3, <1>4, <1>5 DEF Mutexes, HoldsBitmap, HoldsIndex

\* The types after the step of one thread.
LEMMA TypesStep ==
    ASSUME ThreadTypes, NEW w \in Workers, StepTypes(w), UNCHANGED owner
    PROVE  ThreadTypes'
<1>1. /\ TypeOK' /\ tag_dirs' \subseteq FileTags /\ Typed(thread'[w]) /\ Others(w)
  BY DEF StepTypes
<1>2. ASSUME NEW v \in Workers
      PROVE  Typed(thread'[v])
  BY <1>1 DEF Others, ThreadTypes, Busy, Typed
<1>3. thread' \in [Workers -> {Waiting} \cup ThreadRecords]
  BY <1>1, <1>2 DEF Others, Typed
<1>4. \A v \in Workers : Busy(v)' => Consistent(thread'[v])
  BY <1>2 DEF Busy, Typed
<1>5. owner' \in [FileTags -> Workers]
  BY DEF ThreadTypes
<1> QED
  BY <1>1, <1>3, <1>4, <1>5 DEF ThreadTypes

\* After a start of the Storage all threads wait and all mutexes are free.
LEMMA StartTypes ==
    ASSUME ThreadTypes, Restart
    PROVE  ThreadTypes' /\ Mutexes'
<1>1. /\ thread' = [w \in Workers |-> Waiting] /\ bitmap_mutex' = Free /\ index_mutex' = Free
      /\ UNCHANGED <<disk, tag_dirs, owner>>
  BY DEF Restart
<1>2. TypeOK' /\ tag_dirs' \subseteq FileTags
  BY <1>1, DiskType
<1>3. \A w \in Workers : thread'[w] = Waiting
  BY <1>1
<1>4. ThreadTypes'
  BY <1>1, <1>2, <1>3 DEF ThreadTypes, Busy
<1>5. Mutexes'
  BY <1>1, <1>3, ThreadsAssumption DEF Mutexes, HoldsBitmap, HoldsIndex
<1> QED
  BY <1>4, <1>5

\* Invariant: what the threads have, and who holds the mutexes.
LEMMA TypesInvariant == ThreadsSpec => [](ThreadTypes /\ Mutexes)
<1>1. ThreadsInit => ThreadTypes /\ Mutexes
  <2> SUFFICES ASSUME ThreadsInit PROVE ThreadTypes /\ Mutexes
    OBVIOUS
  <2>1. TypeOK
    BY DiskStart DEF ThreadsInit
  <2>2. owner \in [FileTags -> Workers] /\ tag_dirs \subseteq FileTags
    BY ThreadsAssumption, StorageAssumption DEF ThreadsInit
  <2>3. \A w \in Workers : thread[w] = Waiting
    BY DEF ThreadsInit
  <2>4. ThreadTypes
    BY <2>1, <2>2, <2>3 DEF ThreadTypes, Busy, ThreadsInit
  <2>5. Mutexes
    BY <2>3, ThreadsAssumption DEF Mutexes, HoldsBitmap, HoldsIndex, ThreadsInit
  <2> QED
    BY <2>4, <2>5
<1>2. (ThreadTypes /\ Mutexes) /\ [ThreadsNext]_all_vars => (ThreadTypes /\ Mutexes)'
  <2> SUFFICES ASSUME ThreadTypes, Mutexes, [ThreadsNext]_all_vars
               PROVE  ThreadTypes' /\ Mutexes'
    OBVIOUS
  <2>1. CASE Restart
    BY <2>1, StartTypes
  <2>2. ASSUME NEW w \in Workers, handle_client(w) \/ Step(w), UNCHANGED owner
        PROVE  ThreadTypes' /\ Mutexes'
    <3>1. StepTypes(w)
      BY <2>2, ThreadStepTypes
    <3>2. Others(w) /\ MutexMove(w)
      BY <3>1 DEF StepTypes
    <3> QED
      BY <2>2, <3>1, <3>2, TypesStep, MutexStep
  <2>3. CASE UNCHANGED all_vars
    BY <2>3 DEF all_vars, vars, disk, ThreadTypes, Mutexes, TypeOK, Busy
  <2> QED
    BY <2>1, <2>2, <2>3 DEF ThreadsNext
<1> QED
  BY <1>1, <1>2, PTL DEF ThreadsSpec

\* A mutex is held only by a request between its load and its persist, which
\* goes on to unlock it: no error path of any request, whatever the others do
\* and however often the Storage stops, leaves one locked.
THEOREM MutexesReleasedCorrect == ThreadsSpec => []MutexesReleased
<1>1. ThreadTypes /\ Mutexes => MutexesReleased
  <2> SUFFICES ASSUME ThreadTypes, Mutexes PROVE MutexesReleased
    OBVIOUS
  <2>1. ASSUME bitmap_mutex # Free
        PROVE  Calls(bitmap_mutex, "bitmap_persist")
    <3>1. PICK w \in Workers : bitmap_mutex = w
      BY <2>1 DEF Mutexes
    <3> QED
      BY <3>1 DEF Mutexes, HoldsBitmap, Calls, Busy
  <2>2. ASSUME index_mutex # Free
        PROVE  /\ Busy(index_mutex) /\ thread[index_mutex].op = "COMMIT"
               /\ ~Calls(index_mutex, "save_file_metadata")
    <3>1. PICK w \in Workers : index_mutex = w
      BY <2>2 DEF Mutexes
    <3> QED
      BY <3>1 DEF Mutexes, HoldsIndex, Calls, Busy
  <2> QED
    BY <2>1, <2>2 DEF MutexesReleased
<1> QED
  BY <1>1, TypesInvariant, PTL

=============================================================================
