---------------------------- MODULE MemoryProofs ----------------------------
(***************************************************************************)
(* Theorems about the memory of a Worker: its tables, frames and order of  *)
(* replacement are sound, and no query can tell that it is there.          *)
(***************************************************************************)
EXTENDS Memory, ListLemmas, FiniteSetTheorems

-----------------------------------------------------------------------------
(* Lists and numbers.                                                      *)

\* The sizes are natural numbers.
LEMMA Sizes ==
    /\ MaxBlocks \in Nat /\ MaxBlocks > 0
    /\ FrameCount \in Nat /\ FrameCount > 0
    /\ PageSize \in Nat /\ PageSize > 0
    /\ MaxAccess \in Nat
<1>1. /\ MaxBlocks \in Nat \ {0} /\ FrameCount \in Nat \ {0} /\ PageSize \in Nat \ {0}
      /\ MaxAccess \in Nat
  BY MemoryAssumption
<1> QED
  BY <1>1

\* Taking pages out of the order of accesses takes out those, and no other.
LEMMA WithoutLists ==
    ASSUME NEW S, NEW s \in Seq(S), NEW gone
    PROVE  /\ Without(s, gone) \in Seq(S)
           /\ ToSet(Without(s, gone)) = ToSet(s) \ gone
           /\ IsInjective(s) => IsInjective(Without(s, gone))
<1> DEFINE kept == {i \in DOMAIN s : s[i] \notin gone}
           n == Cardinality(kept)
           Low(i) == {j \in kept : j <= i}
           rank == [i \in kept |-> Cardinality(Low(i))]
           Nth(k) == CHOOSE i \in kept : Cardinality(Low(i)) = k
           w == Without(s, gone)
<1>1. /\ DOMAIN s = 1..Len(s) /\ Len(s) \in Nat
      /\ kept \subseteq 1..Len(s)
      /\ \A i \in 1..Len(s) : s[i] \in S
  OBVIOUS
<1>2. IsFiniteSet(kept) /\ n \in Nat
  <2>1. IsFiniteSet(1..Len(s))
    BY <1>1, FS_Interval
  <2> QED
    BY <1>1, <2>1, FS_Subset, FS_CardinalityType
<1>3. ASSUME NEW i \in kept
      PROVE  /\ IsFiniteSet(Low(i))
             /\ Cardinality(Low(i)) \in 1..n
  <2>1. Low(i) \in SUBSET kept /\ i \in Low(i)
    BY <1>1
  <2>2. IsFiniteSet(Low(i)) /\ Cardinality(Low(i)) <= n
    BY <1>2, <2>1, FS_Subset
  <2>3. Cardinality(Low(i)) \in Nat /\ Cardinality(Low(i)) # 0
    BY <2>1, <2>2, FS_CardinalityType, FS_EmptySet
  <2> QED
    BY <1>2, <2>2, <2>3
<1>4. ASSUME NEW i \in kept, NEW j \in kept, i < j
      PROVE  Cardinality(Low(i)) # Cardinality(Low(j))
  <2>1. Low(i) \in SUBSET Low(j) /\ j \in Low(j) /\ j \notin Low(i)
    BY <1>1, <1>4
  <2> QED
    BY <1>3, <2>1, FS_Subset
<1>5. \A i, j \in kept : Cardinality(Low(i)) = Cardinality(Low(j)) => i = j
  <2>1. ASSUME NEW i \in kept, NEW j \in kept, i # j
        PROVE  Cardinality(Low(i)) # Cardinality(Low(j))
    <3>1. i < j \/ j < i
      BY <1>1, <2>1
    <3> QED
      BY <1>4, <3>1
  <2> QED
    BY <2>1
<1>6. rank \in Injection(kept, 1..n)
  <2>1. rank \in [kept -> 1..n]
    BY <1>3
  <2> HIDE DEF Low
  <2>2. \A i, j \in kept : rank[i] = rank[j] => i = j
    BY <1>5
  <2> QED
    BY <2>1, <2>2 DEF Injection, IsInjective
<1>7. rank \in Surjection(kept, 1..n)
  <2>1. IsFiniteSet(1..n) /\ Cardinality(1..n) = n
    BY <1>2, FS_Interval
  <2> HIDE DEF rank
  <2> QED
    BY <1>6, <2>1, FS_Injection
<1>8. ASSUME NEW k \in 1..n
      PROVE  Nth(k) \in kept /\ Cardinality(Low(Nth(k))) = k
  <2>1. PICK i \in kept : rank[i] = k
    BY <1>7 DEF Surjection
  <2>2. Cardinality(Low(i)) = k
    BY <2>1
  <2> HIDE DEF Low
  <2> QED
    BY <2>2
<1>9. w = [k \in 1..n |-> s[Nth(k)]]
  BY DEF Without
<1>10. w \in Seq(S) /\ Len(w) = n /\ DOMAIN w = 1..n
  <2>1. \A k \in 1..n : s[Nth(k)] \in S
    BY <1>1, <1>8
  <2> HIDE DEF Nth
  <2> QED
    BY <1>2, <1>9, <2>1
<1>11. \A i \in kept : Nth(Cardinality(Low(i))) = i
  <2>1. ASSUME NEW i \in kept
        PROVE  Nth(Cardinality(Low(i))) = i
    <3>1. Cardinality(Low(i)) \in 1..n
      BY <1>3
    <3> DEFINE m == Nth(Cardinality(Low(i)))
    <3>2. m \in kept /\ Cardinality(Low(m)) = Cardinality(Low(i))
      BY <1>8, <3>1
    <3> HIDE DEF m
    <3>3. m = i
      BY <1>5, <3>2
    <3> QED
      BY <3>3 DEF m
  <2> QED
    BY <2>1
<1>12. ToSet(w) = ToSet(s) \ gone
  <2>1. ToSet(w) = {w[k] : k \in 1..n} /\ ToSet(s) = {s[i] : i \in 1..Len(s)}
    BY <1>1, <1>10 DEF ToSet
  <2>2. ASSUME NEW x \in ToSet(w) PROVE x \in ToSet(s) \ gone
    <3>1. PICK k \in 1..n : x = w[k]
      BY <2>1
    <3>2. x = s[Nth(k)]
      BY <1>9, <3>1
    <3> QED
      BY <1>1, <1>8, <2>1, <3>2
  <2>3. ASSUME NEW x \in ToSet(s) \ gone PROVE x \in ToSet(w)
    <3>1. PICK i \in 1..Len(s) : x = s[i]
      BY <2>1
    <3>2. i \in kept
      BY <1>1, <3>1
    <3>3. Cardinality(Low(i)) \in 1..n /\ Nth(Cardinality(Low(i))) = i
      BY <1>3, <1>11, <3>2
    <3> HIDE DEF Low, Nth
    <3>4. w[Cardinality(Low(i))] = x
      BY <1>9, <3>1, <3>3
    <3> QED
      BY <2>1, <3>3, <3>4
  <2> QED
    BY <2>2, <2>3
<1>13. ASSUME IsInjective(s) PROVE IsInjective(w)
  <2>1. ASSUME NEW k \in 1..n, NEW l \in 1..n, w[k] = w[l]
        PROVE  k = l
    <3>1. s[Nth(k)] = s[Nth(l)]
      BY <1>9, <2>1
    <3>2. Nth(k) \in DOMAIN s /\ Nth(l) \in DOMAIN s
      BY <1>8
    <3> HIDE DEF Nth
    <3>3. Nth(k) = Nth(l)
      BY <1>13, <3>1, <3>2 DEF IsInjective
    <3>4. Cardinality(Low(Nth(k))) = k /\ Cardinality(Low(Nth(l))) = l
      BY <1>8 DEF Nth
    <3> QED
      BY <3>3, <3>4
  <2> QED
    BY <1>10, <2>1 DEF IsInjective
<1> QED
  BY <1>10, <1>12, <1>13

-----------------------------------------------------------------------------
(* The invariant: what the tables, frames and File:Tags are.               *)

Tables == [FileTags -> Seq(pt_entry_t)]

\* What a File:Tag of the Storage can be.
StoredFiles == [data : {d \in Seq(Contents) : Len(d) <= MaxBlocks}, committed : BOOLEAN]
StoreTypes == files \in [FileTags -> {NoFile} \cup StoredFiles]

\* Only pages the Storage can have are ever present.
Bounded == \A t \in FileTags : \A i \in 1..PageCount(t) : Present(t, i) => i \in Pages

\* The table reaches the page the access is at, and there is something to do.
AccessInTable ==
    Accessing => instr.page \in 1..PageCount(instr.t) /\ instr.left > 0

\* entries lists exactly the File:Tags that have a table.
EntriesExact ==
    /\ IsInjective(entries)
    /\ \A t \in FileTags : mm_has_page_table(t) <=> t \in ToSet(entries)

-----------------------------------------------------------------------------
(* What happens to the pages when the tables change.                       *)

\* The tables q are `pages` with the entry of page i of t replaced by e.
Replaced(q, pages, t, i, e) ==
    /\ q \in Tables
    /\ \A u \in FileTags : Len(q[u]) = Len(pages[u])
    /\ \A u \in FileTags : \A j \in 1..Len(pages[u]) :
          q[u][j] = IF u = t /\ j = i THEN e ELSE pages[u][j]

\* An entry of a table is replaced, and nothing else.
LEMMA EntrySet ==
    ASSUME NEW pages \in Tables, NEW t \in FileTags,
           NEW i \in 1..Len(pages[t]), NEW e \in pt_entry_t,
           NEW q, q = [pages EXCEPT ![t][i] = e]
    PROVE  Replaced(q, pages, t, i, e)
<1> DEFINE r == [pages[t] EXCEPT ![i] = e]
<1>1. pages[t] \in Seq(pt_entry_t)
  BY DEF Tables
<1>2. /\ r \in Seq(pt_entry_t) /\ Len(r) = Len(pages[t])
      /\ \A j \in 1..Len(pages[t]) : r[j] = IF j = i THEN e ELSE pages[t][j]
  BY <1>1, ExceptSeq
<1>3. q = [pages EXCEPT ![t] = r]
  OBVIOUS
<1> HIDE DEF r
<1>4. /\ q \in Tables
      /\ \A u \in FileTags : Len(q[u]) = Len(pages[u])
      /\ \A u \in FileTags : \A j \in 1..Len(pages[u]) :
            q[u][j] = IF u = t /\ j = i THEN e ELSE pages[u][j]
  BY <1>2, <1>3 DEF Tables
<1> QED
  BY <1>4 DEF Replaced

\* The tables q are `pages` with a bit of the entry of page i of t set to b.
Rewritten(q, pages, t, i, b) ==
    \E e \in pt_entry_t : /\ e.frame = pages[t][i].frame /\ e.dirty = b
                          /\ q = [pages EXCEPT ![t][i] = e]

\* Setting two bits of an entry replaces the entry.
LEMMA BitsSet ==
    ASSUME NEW pages \in Tables, NEW t \in FileTags,
           NEW i \in 1..Len(pages[t]), NEW b \in BOOLEAN, NEW c \in BOOLEAN,
           NEW q, q = [pages EXCEPT ![t][i].dirty = b, ![t][i].use_bit = c]
    PROVE  Rewritten(q, pages, t, i, b)
<1> DEFINE e == [pages[t][i] EXCEPT !.dirty = b, !.use_bit = c]
<1>1. pages[t] \in Seq(pt_entry_t) /\ pages[t][i] \in pt_entry_t
  BY DEF Tables
<1>2. e \in pt_entry_t /\ e.frame = pages[t][i].frame /\ e.dirty = b
  BY <1>1 DEF pt_entry_t
<1>3. q = [pages EXCEPT ![t][i] = e]
  BY <1>1 DEF Tables
<1> HIDE DEF e
<1> QED
  BY <1>2, <1>3 DEF Rewritten

\* The pages in `gone` are no longer present; the others are as they were.
Dropped(gone) ==
    /\ PresentPages' = PresentPages \ gone
    /\ \A p \in PresentPages \ gone : /\ PageAt(p)'.frame = PageAt(p).frame
                                      /\ PageAt(p)'.dirty = PageAt(p).dirty

\* A present page, by its number.
LEMMA PresentPage ==
    ASSUME NEW p \in PresentPages, page_table \in Tables
    PROVE  /\ p[1] \in FileTags /\ p[2] \in Pages /\ p = <<p[1], p[2]>>
           /\ p[2] \in 1..PageCount(p[1])
           /\ PageAt(p) \in pt_entry_t
           /\ PageAt(p).frame \in Frames
           /\ PageAt(p).dirty \in BOOLEAN
<1>1. /\ p \in FileTags \X Pages
      /\ p[2] \in 1..PageCount(p[1]) /\ PageAt(p).frame # NoFrame
  BY DEF PresentPages, Present, PageAt
<1>2. p[1] \in FileTags /\ p[2] \in Pages /\ p = <<p[1], p[2]>>
  BY <1>1
<1>3. page_table[p[1]] \in Seq(pt_entry_t)
  BY <1>2 DEF Tables
<1>4. PageAt(p) \in pt_entry_t
  BY <1>1, <1>3 DEF PageAt, PageCount
<1> QED
  BY <1>1, <1>2, <1>4 DEF pt_entry_t

\* The pages follow the tables: what is said of every entry is said of the
\* present pages.
LEMMA PagesFollow ==
    ASSUME page_table \in Tables, page_table' \in Tables, Bounded, NEW gone,
           ASSUME NEW t \in FileTags, NEW i \in 1..PageCount(t)'
           PROVE  \/ page_table'[t][i].frame = NoFrame
                  \/ /\ i <= PageCount(t)
                     /\ <<t, i>> \notin gone
                     /\ page_table'[t][i].frame = page_table[t][i].frame,
           ASSUME NEW t \in FileTags, NEW i \in 1..PageCount(t),
                  Present(t, i), <<t, i>> \notin gone
           PROVE  /\ i <= PageCount(t)'
                  /\ page_table'[t][i].frame = page_table[t][i].frame
                  /\ page_table'[t][i].dirty = page_table[t][i].dirty
    PROVE  Bounded' /\ Dropped(gone)
<1>1. \A t \in FileTags : PageCount(t) \in Nat /\ PageCount(t)' \in Nat
  BY DEF PageCount, Tables
<1>2. ASSUME NEW t \in FileTags, NEW i \in 1..PageCount(t)', Present(t, i)'
      PROVE  Present(t, i) /\ <<t, i>> \notin gone
  <2>1. page_table'[t][i].frame # NoFrame
    BY <1>2 DEF Present
  <2>2. /\ i <= PageCount(t) /\ <<t, i>> \notin gone
        /\ page_table'[t][i].frame = page_table[t][i].frame
    BY <2>1
  <2> QED
    BY <1>1, <2>1, <2>2 DEF Present
<1>3. ASSUME NEW t \in FileTags, NEW i \in 1..PageCount(t),
             Present(t, i), <<t, i>> \notin gone
      PROVE  Present(t, i)'
  <2>1. /\ i <= PageCount(t)'
        /\ page_table'[t][i].frame = page_table[t][i].frame
    BY <1>3
  <2> QED
    BY <1>1, <1>3, <2>1 DEF Present
<1>4. Bounded'
  <2>1. ASSUME NEW t \in FileTags, NEW i \in 1..PageCount(t)', Present(t, i)'
        PROVE  i \in Pages
    BY <1>2, <2>1 DEF Bounded, Present
  <2> QED
    BY <2>1 DEF Bounded, Pages
<1>5. ASSUME NEW p \in FileTags \X Pages
      PROVE  p \in PresentPages' <=> p \in PresentPages \ gone
  <2>1. p[1] \in FileTags /\ p[2] \in Pages /\ p = <<p[1], p[2]>>
    OBVIOUS
  <2>2. p \in PresentPages' <=> Present(p[1], p[2])'
    BY DEF PresentPages, Pages
  <2>3. p \in PresentPages <=> Present(p[1], p[2])
    BY DEF PresentPages
  <2>4. Present(p[1], p[2])' => p[2] \in 1..PageCount(p[1])'
    BY DEF Present
  <2>5. Present(p[1], p[2]) => p[2] \in 1..PageCount(p[1])
    BY DEF Present
  <2> QED
    BY <1>2, <1>3, <2>1, <2>2, <2>3, <2>4, <2>5
<1>6. PresentPages' = PresentPages \ gone
  <2>1. PresentPages \subseteq FileTags \X Pages /\ PresentPages' \subseteq FileTags \X Pages
    BY DEF PresentPages, Pages
  <2> QED
    BY <1>5, <2>1
<1>7. ASSUME NEW p \in PresentPages \ gone
      PROVE  PageAt(p)'.frame = PageAt(p).frame /\ PageAt(p)'.dirty = PageAt(p).dirty
  <2>1. p[1] \in FileTags /\ p[2] \in 1..PageCount(p[1]) /\ p = <<p[1], p[2]>>
    BY PresentPage
  <2>2. Present(p[1], p[2]) /\ <<p[1], p[2]>> \notin gone
    BY <1>7, <2>1 DEF PresentPages
  <2> QED
    BY <2>1, <2>2 DEF PageAt
<1> QED
  BY <1>4, <1>6, <1>7 DEF Dropped

\* Tables with the same pages, but for the use bits, and perhaps more entries
\* of absent pages.
Extended(pages) ==
    /\ pages \in Tables
    /\ \A u \in FileTags : PageCount(u) <= Len(pages[u])
    /\ \A u \in FileTags : \A j \in 1..PageCount(u) :
          /\ pages[u][j].frame = page_table[u][j].frame
          /\ pages[u][j].dirty = page_table[u][j].dirty
    /\ \A u \in FileTags : \A j \in 1..Len(pages[u]) :
          j > PageCount(u) => pages[u][j].frame = NoFrame

\* Growing a table, or creating it, makes no page present and none absent.
LEMMA GrownTables ==
    ASSUME page_table \in Tables, NEW t \in FileTags, NEW n \in Nat \ {0}
    PROVE  /\ Extended(TablesWith(t, n))
           /\ n <= Len(TablesWith(t, n)[t])
           /\ \A u \in FileTags \ {t} : TablesWith(t, n)[u] = page_table[u]
<1> DEFINE pages == IF mm_has_page_table(t) THEN page_table[t] ELSE <<NewPage>>
           grown == IF n > Len(pages) THEN pt_resize(pages, n) ELSE pages
           tables1 == TablesWith(t, n)
<1>0. NewPage \in pt_entry_t /\ NewPage.frame = NoFrame
  BY DEF NewPage, pt_entry_t
<1>1. page_table[t] \in Seq(pt_entry_t) /\ PageCount(t) \in Nat
  BY DEF Tables, PageCount
<1>2. /\ pages \in Seq(pt_entry_t) /\ Len(pages) \in Nat /\ Len(pages) > 0
      /\ Len(pages) >= PageCount(t)
      /\ \A i \in 1..Len(pages) : pages[i] \in pt_entry_t
      /\ \A i \in 1..Len(pages) : IF i <= PageCount(t) THEN pages[i] = page_table[t][i]
                                                      ELSE pages[i] = NewPage
  <2>1. CASE mm_has_page_table(t)
    BY <1>1, <2>1 DEF mm_has_page_table, PageCount
  <2>2. CASE ~mm_has_page_table(t)
    BY <1>0, <1>1, <2>2 DEF mm_has_page_table, PageCount
  <2> QED
    BY <2>1, <2>2
<1> HIDE DEF pages
<1>3. /\ grown \in Seq(pt_entry_t) /\ Len(grown) >= n /\ Len(grown) >= PageCount(t)
      /\ \A i \in 1..Len(grown) : IF i <= PageCount(t) THEN grown[i] = page_table[t][i]
                                                      ELSE grown[i] = NewPage
  <2>1. CASE n > Len(pages)
    <3>1. grown = [i \in 1..n |-> IF i <= Len(pages) THEN pages[i] ELSE NewPage]
      BY <2>1 DEF pt_resize
    <3> QED
      BY <1>0, <1>1, <1>2, <2>1, <3>1
  <2>2. CASE ~(n > Len(pages))
    BY <1>1, <1>2, <2>2
  <2> QED
    BY <2>1, <2>2
<1> HIDE DEF grown
<1>4. tables1 = [page_table EXCEPT ![t] = grown]
  BY DEF TablesWith, grown, pages
<1> HIDE DEF tables1
<1>5. /\ tables1 \in Tables
      /\ tables1[t] = grown
      /\ \A u \in FileTags \ {t} : tables1[u] = page_table[u]
  BY <1>3, <1>4 DEF Tables
<1>6. ASSUME NEW u \in FileTags
      PROVE  /\ PageCount(u) <= Len(tables1[u])
             /\ \A j \in 1..PageCount(u) : tables1[u][j] = page_table[u][j]
             /\ \A j \in 1..Len(tables1[u]) :
                   j > PageCount(u) => tables1[u][j].frame = NoFrame
  <2>1. CASE u = t
    <3>1. \A j \in 1..PageCount(t) : j \in 1..Len(grown) /\ j <= PageCount(t)
      BY <1>1, <1>3
    <3>2. \A j \in 1..Len(grown) : j > PageCount(t) => ~(j <= PageCount(t))
      BY <1>1, <1>3
    <3> QED
      BY <1>0, <1>3, <1>5, <2>1, <3>1, <3>2
  <2>2. CASE u # t
    BY <1>5, <2>2 DEF PageCount, Tables
  <2> QED
    BY <2>1, <2>2
<1>7. Extended(tables1)
  BY <1>5, <1>6 DEF Extended
<1> QED
  BY <1>3, <1>5, <1>7 DEF tables1

\* The second pass of CLOCK-M changes nothing but use bits.
LEMMA BitsCleared ==
    ASSUME page_table \in Tables
    PROVE  /\ Extended(page_table) /\ Extended(UseBitsCleared)
           /\ \A u \in FileTags : Len(UseBitsCleared[u]) = PageCount(u)
<1>1. Extended(page_table)
  BY DEF Extended, PageCount, Tables
<1> DEFINE Entry(t, i) == [page_table[t][i] EXCEPT !.use_bit = @ /\ ~Present(t, i)]
           Row(t) == [i \in 1..PageCount(t) |-> Entry(t, i)]
<1>2. ASSUME NEW t \in FileTags, NEW i \in 1..PageCount(t)
      PROVE  /\ Entry(t, i) \in pt_entry_t
             /\ Entry(t, i).frame = page_table[t][i].frame
             /\ Entry(t, i).dirty = page_table[t][i].dirty
  <2>1. page_table[t][i] \in pt_entry_t
    BY DEF Tables, PageCount
  <2>2. Present(t, i) \in BOOLEAN
    BY DEF Present
  <2> QED
    BY <2>1, <2>2 DEF pt_entry_t
<1> HIDE DEF Entry
<1>3. ASSUME NEW t \in FileTags
      PROVE  Row(t) \in Seq(pt_entry_t) /\ Len(Row(t)) = PageCount(t)
  <2>1. PageCount(t) \in Nat
    BY DEF Tables, PageCount
  <2> QED
    BY <1>2, <2>1
<1>4. UseBitsCleared = [t \in FileTags |-> Row(t)]
  BY DEF UseBitsCleared, Entry
<1>5. UseBitsCleared \in Tables
  <2> HIDE DEF Row
  <2> QED
    BY <1>3, <1>4 DEF Tables
<1>6. \A u \in FileTags : Len(UseBitsCleared[u]) = PageCount(u) /\ PageCount(u) \in Nat
  <2> HIDE DEF Row
  <2> QED
    BY <1>3, <1>4 DEF PageCount, Tables
<1>7. \A u \in FileTags : \A j \in 1..PageCount(u) : UseBitsCleared[u][j] = Entry(u, j)
  BY <1>4
<1>8. Extended(UseBitsCleared)
  BY <1>2, <1>5, <1>6, <1>7 DEF Extended
<1> QED
  BY <1>1, <1>6, <1>8

\* Extended tables are the same to every query.
LEMMA ExtendedTables ==
    ASSUME page_table \in Tables, Bounded, NEW pages, Extended(pages), page_table' = pages
    PROVE  page_table' \in Tables /\ Bounded' /\ Dropped({})
<1>1. \A u \in FileTags : PageCount(u)' = Len(pages[u]) /\ PageCount(u) \in Nat
  BY DEF PageCount, Tables
<1>2. page_table' \in Tables
  BY DEF Extended
<1>3. ASSUME NEW u \in FileTags, NEW i \in 1..PageCount(u)'
      PROVE  \/ page_table'[u][i].frame = NoFrame
             \/ /\ i <= PageCount(u) /\ <<u, i>> \notin {}
                /\ page_table'[u][i].frame = page_table[u][i].frame
  <2>1. i \in 1..Len(pages[u]) /\ Len(pages[u]) \in Nat
    BY <1>1 DEF Extended, Tables
  <2>2. CASE i > PageCount(u)
    BY <2>1, <2>2 DEF Extended
  <2>3. CASE i <= PageCount(u)
    <3>1. i \in 1..PageCount(u)
      BY <1>1, <2>1, <2>3
    <3> QED
      BY <2>3, <3>1 DEF Extended
  <2> QED
    BY <1>1, <2>1, <2>2, <2>3
<1>4. ASSUME NEW u \in FileTags, NEW i \in 1..PageCount(u)
      PROVE  /\ i <= PageCount(u)'
             /\ page_table'[u][i].frame = page_table[u][i].frame
             /\ page_table'[u][i].dirty = page_table[u][i].dirty
  <2>1. PageCount(u) <= Len(pages[u]) /\ Len(pages[u]) \in Nat
    BY DEF Extended, Tables
  <2> QED
    BY <1>1, <2>1 DEF Extended
<1>5. Bounded' /\ Dropped({})
  BY <1>2, <1>3, <1>4, PagesFollow
<1> QED
  BY <1>2, <1>5

\* pt_unmap takes one page out.
LEMMA UnmappedTables ==
    ASSUME page_table \in Tables, Bounded, NEW pages, Extended(pages),
           NEW p \in PresentPages, Unmapped(p, pages)
    PROVE  /\ page_table' \in Tables /\ Bounded' /\ Dropped({p})
           /\ \A u \in FileTags : PageCount(u)' = Len(pages[u])
<1> DEFINE t == p[1]
           i == p[2]
           e == [pages[t][i] EXCEPT !.frame = NoFrame, !.dirty = FALSE]
<1>1. t \in FileTags /\ i \in 1..PageCount(t) /\ p = <<t, i>>
  BY PresentPage
<1>2. \A u \in FileTags : /\ Len(pages[u]) \in Nat /\ PageCount(u) \in Nat
                          /\ PageCount(u) <= Len(pages[u])
  BY DEF Extended, Tables, PageCount
<1>3. pages \in Tables /\ i \in 1..Len(pages[t]) /\ pages[t][i] \in pt_entry_t
  BY <1>1, <1>2 DEF Extended, Tables
<1>4. e \in pt_entry_t /\ e.frame = NoFrame
  BY <1>3 DEF pt_entry_t
<1>5. page_table' = [pages EXCEPT ![t][i] = e]
  <2>1. page_table' = [pages EXCEPT ![t][i].frame = NoFrame, ![t][i].dirty = FALSE]
    BY DEF Unmapped
  <2> QED
    BY <1>1, <1>3, <2>1 DEF Tables
<1> HIDE DEF e, t, i
<1>6. /\ page_table' \in Tables
      /\ \A u \in FileTags : Len(page_table'[u]) = Len(pages[u])
      /\ \A u \in FileTags : \A j \in 1..Len(pages[u]) :
            page_table'[u][j] = IF u = t /\ j = i THEN e ELSE pages[u][j]
  <2>1. Replaced(page_table', pages, t, i, e)
    BY <1>1, <1>3, <1>4, <1>5, EntrySet
  <2> QED
    BY <2>1 DEF Replaced
<1>7. \A u \in FileTags : PageCount(u)' = Len(pages[u])
  BY <1>6 DEF PageCount
<1>8. ASSUME NEW u \in FileTags, NEW j \in 1..PageCount(u)'
      PROVE  \/ page_table'[u][j].frame = NoFrame
             \/ /\ j <= PageCount(u) /\ <<u, j>> \notin {p}
                /\ page_table'[u][j].frame = page_table[u][j].frame
  <2>1. j \in 1..Len(pages[u])
    BY <1>7
  <2>2. CASE u = t /\ j = i
    BY <1>4, <1>6, <2>1, <2>2
  <2>3. CASE ~(u = t /\ j = i) /\ j > PageCount(u)
    BY <1>6, <2>1, <2>3 DEF Extended
  <2>4. CASE ~(u = t /\ j = i) /\ j <= PageCount(u)
    <3>1. j \in 1..PageCount(u)
      BY <1>2, <2>1, <2>4
    <3> QED
      BY <1>1, <1>6, <2>1, <2>4, <3>1 DEF Extended
  <2> QED
    BY <1>2, <2>1, <2>2, <2>3, <2>4
<1>9. ASSUME NEW u \in FileTags, NEW j \in 1..PageCount(u), <<u, j>> \notin {p}
      PROVE  /\ j <= PageCount(u)'
             /\ page_table'[u][j].frame = page_table[u][j].frame
             /\ page_table'[u][j].dirty = page_table[u][j].dirty
  <2>1. j \in 1..Len(pages[u]) /\ ~(u = t /\ j = i)
    BY <1>1, <1>2, <1>9
  <2>2. page_table'[u][j] = pages[u][j]
    BY <1>6, <2>1
  <2>3. j <= PageCount(u)'
    BY <1>2, <1>7, <2>1
  <2> QED
    BY <2>2, <2>3 DEF Extended
<1>10. Bounded' /\ Dropped({p})
  BY <1>6, <1>8, <1>9, PagesFollow
<1> QED
  BY <1>6, <1>7, <1>10

\* One page is present after the step, with the given entry; the others are
\* as they were.
EntryWritten(pages, t, i, e) ==
    /\ page_table' \in Tables /\ Bounded'
    /\ PresentPages' = PresentPages \cup {<<t, i>>}
    /\ \A p \in PresentPages \ {<<t, i>>} : /\ PageAt(p)'.frame = PageAt(p).frame
                                            /\ PageAt(p)'.dirty = PageAt(p).dirty
    /\ PageAt(<<t, i>>)' = e
    /\ \A u \in FileTags : PageCount(u)' = Len(pages[u])

\* An entry of a page that is present after the step is written.
LEMMA EntryTables ==
    ASSUME page_table \in Tables, Bounded, NEW pages, Extended(pages),
           NEW t \in FileTags, NEW i \in 1..PageCount(t), i \in Pages,
           NEW e \in pt_entry_t, e.frame # NoFrame,
           page_table' = [pages EXCEPT ![t][i] = e]
    PROVE  EntryWritten(pages, t, i, e)
<1>2. \A u \in FileTags : /\ Len(pages[u]) \in Nat /\ PageCount(u) \in Nat
                          /\ PageCount(u) <= Len(pages[u])
  BY DEF Extended, Tables, PageCount
<1>3. pages \in Tables /\ i \in 1..Len(pages[t])
  BY <1>2 DEF Extended, Tables
<1>6. /\ page_table' \in Tables
      /\ \A u \in FileTags : Len(page_table'[u]) = Len(pages[u])
      /\ \A u \in FileTags : \A j \in 1..Len(pages[u]) :
            page_table'[u][j] = IF u = t /\ j = i THEN e ELSE pages[u][j]
  <2>1. Replaced(page_table', pages, t, i, e)
    BY <1>3, EntrySet
  <2> QED
    BY <2>1 DEF Replaced
<1>7. \A u \in FileTags : PageCount(u)' = Len(pages[u])
  BY <1>6 DEF PageCount
<1>8. ASSUME NEW u \in FileTags, NEW j \in 1..Len(pages[u]), ~(u = t /\ j = i)
      PROVE  /\ Present(u, j)' <=> Present(u, j)
             /\ Present(u, j) => /\ page_table'[u][j].frame = page_table[u][j].frame
                                 /\ page_table'[u][j].dirty = page_table[u][j].dirty
  <2>1. page_table'[u][j] = pages[u][j] /\ j \in 1..PageCount(u)'
    BY <1>6, <1>7, <1>8
  <2>2. CASE j > PageCount(u)
    BY <1>2, <2>1, <2>2 DEF Extended, Present
  <2>3. CASE j <= PageCount(u)
    <3>1. j \in 1..PageCount(u)
      BY <1>2, <2>3
    <3>2. /\ page_table'[u][j].frame = page_table[u][j].frame
          /\ page_table'[u][j].dirty = page_table[u][j].dirty
      BY <2>1, <3>1 DEF Extended
    <3> QED
      BY <2>1, <3>1, <3>2 DEF Present
  <2> QED
    BY <1>2, <2>2, <2>3
<1>9. Present(t, i)' /\ page_table'[t][i] = e
  BY <1>3, <1>6, <1>7 DEF Present
<1>10. ASSUME NEW u \in FileTags, NEW j \in Nat \ {0}
       PROVE  Present(u, j)' <=> Present(u, j) \/ (u = t /\ j = i)
  <2>1. CASE j \in 1..Len(pages[u])
    BY <1>8, <1>9, <2>1
  <2>2. CASE j \notin 1..Len(pages[u])
    <3>1. j \notin 1..PageCount(u) /\ j \notin 1..PageCount(u)'
      BY <1>2, <1>7, <2>2
    <3> QED
      BY <1>3, <2>2, <3>1 DEF Present
  <2> QED
    BY <2>1, <2>2
<1>11. Bounded'
  <2>1. ASSUME NEW u \in FileTags, NEW j \in 1..PageCount(u)', Present(u, j)'
        PROVE  j \in Pages
    <3>1. j \in Nat \ {0}
      BY <1>2, <1>7
    <3> QED
      BY <1>10, <2>1, <3>1 DEF Bounded, Present
  <2> QED
    BY <2>1 DEF Bounded, Pages
<1>12. PresentPages' = PresentPages \cup {<<t, i>>}
  <2>1. \A u \in FileTags, j \in Pages :
           <<u, j>> \in PresentPages' <=> <<u, j>> \in PresentPages \cup {<<t, i>>}
    <3>1. \A j \in Pages : j \in Nat \ {0}
      BY DEF Pages
    <3>2. ASSUME NEW u \in FileTags, NEW j \in Pages
          PROVE  /\ <<u, j>> \in PresentPages' <=> Present(u, j)'
                 /\ <<u, j>> \in PresentPages <=> Present(u, j)
      BY DEF PresentPages, Pages
    <3> QED
      BY <1>10, <3>1, <3>2
  <2>2. PresentPages \subseteq FileTags \X Pages /\ PresentPages' \subseteq FileTags \X Pages
    BY DEF PresentPages, Pages
  <2> QED
    BY <2>1, <2>2
<1>13. ASSUME NEW p \in PresentPages \ {<<t, i>>}
       PROVE  /\ PageAt(p)'.frame = PageAt(p).frame
              /\ PageAt(p)'.dirty = PageAt(p).dirty
  <2>1. p[1] \in FileTags /\ p[2] \in 1..PageCount(p[1]) /\ p = <<p[1], p[2]>>
    BY PresentPage
  <2>2. Present(p[1], p[2]) /\ p[2] \in 1..Len(pages[p[1]])
    BY <1>2, <2>1 DEF PresentPages
  <2>3. ~(p[1] = t /\ p[2] = i)
    BY <1>13, <2>1
  <2> QED
    BY <1>8, <2>1, <2>2, <2>3 DEF PageAt
<1>14. PageAt(<<t, i>>)' = e
  BY <1>9 DEF PageAt
<1> QED
  BY <1>6, <1>7, <1>11, <1>12, <1>13, <1>14 DEF EntryWritten

\* pt_resize to n pages takes those beyond n out.
LEMMA CutTables ==
    ASSUME page_table \in Tables, Bounded, NEW t \in FileTags, NEW n \in Nat \ {0},
           page_table' = [page_table EXCEPT ![t] = pt_resize(@, n)]
    PROVE  /\ page_table' \in Tables /\ Bounded'
           /\ Dropped({p \in PresentPages : p[1] = t /\ p[2] > n})
           /\ page_table'[t] # <<>>
           /\ \A u \in FileTags \ {t} : page_table'[u] = page_table[u]
<1> DEFINE cut == pt_resize(page_table[t], n)
           gone == {p \in PresentPages : p[1] = t /\ p[2] > n}
<1>0. NewPage \in pt_entry_t /\ NewPage.frame = NoFrame
  BY DEF NewPage, pt_entry_t
<1>1. \A u \in FileTags : page_table[u] \in Seq(pt_entry_t) /\ PageCount(u) \in Nat
  BY DEF Tables, PageCount
<1>2. /\ cut \in Seq(pt_entry_t) /\ Len(cut) = n
      /\ \A j \in 1..n : cut[j] = IF j <= PageCount(t) THEN page_table[t][j] ELSE NewPage
  BY <1>0, <1>1 DEF pt_resize, PageCount
<1> HIDE DEF cut
<1>3. /\ page_table' \in Tables /\ page_table'[t] = cut
      /\ \A u \in FileTags \ {t} : page_table'[u] = page_table[u]
  BY <1>1, <1>2 DEF Tables, cut
<1>4. PageCount(t)' = n /\ \A u \in FileTags \ {t} : PageCount(u)' = PageCount(u)
  BY <1>2, <1>3 DEF PageCount
<1>5. \A u \in FileTags, j \in Nat : <<u, j>> \in gone => u = t /\ j > n
  OBVIOUS
<1>6. ASSUME NEW u \in FileTags, NEW j \in 1..PageCount(u)'
      PROVE  \/ page_table'[u][j].frame = NoFrame
             \/ /\ j <= PageCount(u) /\ <<u, j>> \notin gone
                /\ page_table'[u][j].frame = page_table[u][j].frame
  <2>1. CASE u = t
    <3>1. j \in 1..n /\ ~(j > n) /\ j \in Nat
      BY <1>4, <2>1
    <3>2. <<u, j>> \notin gone
      BY <1>5, <3>1
    <3> QED
      BY <1>0, <1>2, <1>3, <2>1, <3>1, <3>2
  <2>2. CASE u # t
    <3>1. j \in 1..PageCount(u)
      BY <1>4, <2>2
    <3>2. j \in Nat /\ j <= PageCount(u)
      BY <1>1, <3>1
    <3> QED
      BY <1>3, <1>5, <2>2, <3>2
  <2> QED
    BY <2>1, <2>2
<1>7. ASSUME NEW u \in FileTags, NEW j \in 1..PageCount(u),
             Present(u, j), <<u, j>> \notin gone
      PROVE  /\ j <= PageCount(u)'
             /\ page_table'[u][j].frame = page_table[u][j].frame
             /\ page_table'[u][j].dirty = page_table[u][j].dirty
  <2>0. j \in Nat /\ j <= PageCount(u) /\ PageCount(u) \in Nat
    BY <1>1
  <2>1. CASE u = t
    <3>1. j \in Pages
      BY <1>7 DEF Bounded
    <3>2. <<u, j>> \in PresentPages
      BY <1>7, <3>1 DEF PresentPages
    <3>3. j <= n /\ j \in 1..n
      BY <1>7, <2>0, <2>1, <3>2
    <3> QED
      BY <1>2, <1>3, <1>4, <2>0, <2>1, <3>3
  <2>2. CASE u # t
    BY <1>3, <1>4, <2>0, <2>2
  <2> QED
    BY <2>1, <2>2
<1>8. Bounded' /\ Dropped(gone)
  BY <1>3, <1>6, <1>7, PagesFollow
<1> QED
  BY <1>2, <1>3, <1>8

\* DELETE takes the pages of the File:Tag out.
LEMMA DeletedTables ==
    ASSUME page_table \in Tables, Bounded, NEW t \in FileTags,
           page_table' = [page_table EXCEPT ![t] = <<>>]
    PROVE  /\ page_table' \in Tables /\ Bounded'
           /\ Dropped({p \in PresentPages : p[1] = t})
           /\ page_table'[t] = <<>>
           /\ \A u \in FileTags \ {t} : page_table'[u] = page_table[u]
<1> DEFINE gone == {p \in PresentPages : p[1] = t}
<1>1. \A u \in FileTags : page_table[u] \in Seq(pt_entry_t) /\ PageCount(u) \in Nat
  BY DEF Tables, PageCount
<1>3. /\ page_table' \in Tables /\ page_table'[t] = <<>>
      /\ \A u \in FileTags \ {t} : page_table'[u] = page_table[u]
  BY <1>1 DEF Tables
<1>4. PageCount(t)' = 0 /\ \A u \in FileTags \ {t} : PageCount(u)' = PageCount(u)
  BY <1>3 DEF PageCount
<1>5. \A u \in FileTags, j \in Nat : <<u, j>> \in gone => u = t
  OBVIOUS
<1>6. ASSUME NEW u \in FileTags, NEW j \in 1..PageCount(u)'
      PROVE  \/ page_table'[u][j].frame = NoFrame
             \/ /\ j <= PageCount(u) /\ <<u, j>> \notin gone
                /\ page_table'[u][j].frame = page_table[u][j].frame
  <2>1. u # t
    BY <1>4
  <2>2. j \in 1..PageCount(u)
    BY <1>4, <2>1
  <2>3. j \in Nat /\ j <= PageCount(u)
    BY <1>1, <2>2
  <2> QED
    BY <1>3, <1>5, <2>1, <2>3
<1>7. ASSUME NEW u \in FileTags, NEW j \in 1..PageCount(u),
             Present(u, j), <<u, j>> \notin gone
      PROVE  /\ j <= PageCount(u)'
             /\ page_table'[u][j].frame = page_table[u][j].frame
             /\ page_table'[u][j].dirty = page_table[u][j].dirty
  <2>1. j \in Nat /\ j <= PageCount(u) /\ j \in Pages
    BY <1>1, <1>7 DEF Bounded
  <2>2. <<u, j>> \in PresentPages
    BY <1>7, <2>1 DEF PresentPages
  <2>3. u # t
    BY <1>7, <2>2
  <2> QED
    BY <1>3, <1>4, <2>1, <2>3
<1>8. Bounded' /\ Dropped(gone)
  BY <1>3, <1>6, <1>7, PagesFollow
<1> QED
  BY <1>3, <1>8

-----------------------------------------------------------------------------
(* Frames and the order of accesses.                                       *)

\* The order of accesses when a page is accessed.
LEMMA TouchedOrder ==
    ASSUME TypeOK, NEW p \in FileTags \X Pages
    PROVE  /\ Touched(recency, p) \in Seq(FileTags \X Pages)
           /\ policy = "LRU" =>
                 /\ ToSet(Touched(recency, p)) = ToSet(recency) \cup {p}
                 /\ IsInjective(recency) => IsInjective(Touched(recency, p))
<1> DEFINE S == FileTags \X Pages
           w == Without(recency, {p})
<1>1. recency \in Seq(S)
  BY DEF TypeOK
<1> HIDE DEF S
<1>2. /\ w \in Seq(S) /\ ToSet(w) = ToSet(recency) \ {p}
      /\ IsInjective(recency) => IsInjective(w)
  BY <1>1, WithoutLists
<1> HIDE DEF w
<1>3. p \in S
  BY DEF S
<1>4. /\ Append(w, p) \in Seq(S) /\ ToSet(Append(w, p)) = ToSet(w) \cup {p}
      /\ IsInjective(w) /\ p \notin ToSet(w) => IsInjective(Append(w, p))
  BY <1>2, <1>3, AppendLists
<1>5. CASE policy = "LRU"
  <2>1. Touched(recency, p) = Append(w, p)
    BY <1>5 DEF Touched, w
  <2> HIDE DEF Touched
  <2> QED
    BY <1>2, <1>4, <2>1 DEF S
<1>6. CASE policy # "LRU"
  BY <1>1, <1>6 DEF Touched, S
<1> QED
  BY <1>5, <1>6

\* No page comes or goes and LRU knows the same pages: frames stay exclusive.
LEMMA SameFrames ==
    ASSUME FramesExclusive, Dropped({}), UNCHANGED <<policy, used, recency>>
    PROVE  FramesExclusive'
<1>1. /\ PresentPages' = PresentPages
      /\ \A p \in PresentPages : PageAt(p)'.frame = PageAt(p).frame
  BY DEF Dropped
<1> QED
  BY <1>1 DEF FramesExclusive

\* Pages go, and LRU forgets them.
LEMMA FewerFrames ==
    ASSUME TypeOK, FramesExclusive, NEW gone, Dropped(gone), UNCHANGED policy,
           recency' = Forgotten(recency, gone),
           \A p \in PresentPages \ gone : PageAt(p).frame \in used'
    PROVE  FramesExclusive' /\ recency' \in Seq(FileTags \X Pages)
<1>1. /\ PresentPages' = PresentPages \ gone
      /\ \A p \in PresentPages \ gone : PageAt(p)'.frame = PageAt(p).frame
  BY DEF Dropped
<1>2. recency \in Seq(FileTags \X Pages) /\ recency' = Without(recency, gone)
  BY DEF TypeOK, Forgotten
<1>3. /\ recency' \in Seq(FileTags \X Pages)
      /\ ToSet(recency') = ToSet(recency) \ gone
      /\ IsInjective(recency) => IsInjective(recency')
  BY <1>2, WithoutLists
<1>4. policy' = "LRU" => ToSet(recency') = PresentPages' /\ IsInjective(recency')
  BY <1>1, <1>3 DEF FramesExclusive
<1>5. ASSUME NEW p \in PresentPages', NEW q \in PresentPages',
             PageAt(p)'.frame = PageAt(q)'.frame
      PROVE  p = q
  BY <1>1, <1>5 DEF FramesExclusive
<1>6. \A p \in PresentPages' : PageAt(p)'.frame \in used'
  BY <1>1
<1>7. ToSet(recency)' = ToSet(recency')
  BY DEF ToSet
<1>8. IsInjective(recency)' = IsInjective(recency')
  BY DEF IsInjective
<1> QED
  BY <1>3, <1>4, <1>5, <1>6, <1>7, <1>8 DEF FramesExclusive

\* A page is accessed, in its own frame or in one that was free.
LEMMA TouchedFrames ==
    ASSUME TypeOK, FramesExclusive, NEW x \in FileTags \X Pages, UNCHANGED policy,
           PresentPages' = PresentPages \cup {x},
           \A p \in PresentPages \ {x} : PageAt(p)'.frame = PageAt(p).frame,
           \/ x \in PresentPages /\ PageAt(x)'.frame = PageAt(x).frame
           \/ PageAt(x)'.frame \notin used,
           used' = used \cup {PageAt(x)'.frame},
           recency' = Touched(recency, x)
    PROVE  FramesExclusive' /\ recency' \in Seq(FileTags \X Pages)
<1>1. /\ recency' \in Seq(FileTags \X Pages)
      /\ policy = "LRU" => /\ ToSet(recency') = ToSet(recency) \cup {x}
                           /\ IsInjective(recency) => IsInjective(recency')
  <2> HIDE DEF Touched
  <2> QED
    BY TouchedOrder
<1>2. policy' = "LRU" => ToSet(recency') = PresentPages' /\ IsInjective(recency')
  BY <1>1 DEF FramesExclusive
<1>3. \A p, q \in PresentPages : PageAt(p).frame = PageAt(q).frame => p = q
  BY DEF FramesExclusive
<1>4. \A p \in PresentPages : PageAt(p).frame \in used
  BY DEF FramesExclusive
<1>5. ASSUME NEW p \in PresentPages', NEW q \in PresentPages',
             PageAt(p)'.frame = PageAt(q)'.frame
      PROVE  p = q
  <2>1. CASE p # x /\ q # x
    BY <1>3, <1>5, <2>1
  <2>2. CASE p = x /\ q # x
    BY <1>3, <1>4, <1>5, <2>2
  <2>3. CASE p # x /\ q = x
    BY <1>3, <1>4, <1>5, <2>3
  <2> QED
    BY <2>1, <2>2, <2>3
<1>6. \A p \in PresentPages' : PageAt(p)'.frame \in used'
  BY <1>4
<1>7. ToSet(recency)' = ToSet(recency')
  BY DEF ToSet
<1>8. IsInjective(recency)' = IsInjective(recency')
  BY DEF IsInjective
<1> QED
  BY <1>1, <1>2, <1>5, <1>6, <1>7, <1>8 DEF FramesExclusive

-----------------------------------------------------------------------------
(* The Storage.                                                            *)

\* A File:Tag that exists is data and whether it is committed.
LEMMA StoredFile ==
    ASSUME StoreTypes, NEW t \in FileTags, Disk!Exists(t)
    PROVE  /\ files[t].data \in Seq(Contents)
           /\ Len(files[t].data) \in Nat /\ Len(files[t].data) <= MaxBlocks
           /\ DOMAIN files[t].data = 1..Len(files[t].data)
           /\ DOMAIN files[t].data \subseteq Pages
           /\ \A i \in DOMAIN files[t].data : files[t].data[i] \in Contents
           /\ files[t].committed \in BOOLEAN
<1>1. files[t] \in StoredFiles
  BY DEF StoreTypes, Disk!Exists
<1>2. /\ files[t].data \in Seq(Contents) /\ Len(files[t].data) <= MaxBlocks
      /\ files[t].committed \in BOOLEAN
  BY <1>1 DEF StoredFiles
<1> QED
  BY <1>2, Sizes DEF Pages

\* What can be stored does not look like nothing.
LEMMA StoredIsFile ==
    ASSUME NEW d \in Seq(Contents), NEW c \in BOOLEAN
    PROVE  /\ Disk!Stored(d, c) # NoFile
           /\ Disk!Stored(d, c).data = d /\ Disk!Stored(d, c).committed = c
           /\ Len(d) <= MaxBlocks => Disk!Stored(d, c) \in StoredFiles
  BY NoFileAssumption DEF Disk!Stored, StoredFiles

\* Every request leaves the Storage with File:Tags it can have.
LEMMA StoreStep ==
    ASSUME StoreTypes, NEW t \in FileTags,
           \/ Disk!Create(t) \/ Disk!Commit(t) \/ Disk!Delete(t) \/ Disk!Refuse
           \/ UNCHANGED files
           \/ \E n \in 0..MaxBlocks : Disk!Truncate(t, n)
           \/ \E dst \in FileTags : Disk!Tag(t, dst)
           \/ \E i, c : c \in Contents /\ Disk!Write(t, i, c)
    PROVE  StoreTypes'
<1> DEFINE Range1 == {NoFile} \cup StoredFiles
<1>0. files \in [FileTags -> Range1]
  BY DEF StoreTypes
<1>1. ASSUME NEW u \in FileTags, NEW file \in Range1, files' = [files EXCEPT ![u] = file]
      PROVE  StoreTypes'
  <2> HIDE DEF Range1
  <2>1. files' \in [FileTags -> Range1]
    BY <1>0, <1>1
  <2> QED
    BY <2>1 DEF StoreTypes, Range1, StoredFiles, Contents, Offsets
<1>2. CASE UNCHANGED files \/ Disk!Refuse
  <2>1. files' = files
    BY <1>2 DEF Disk!Refuse
  <2> QED
    BY <2>1 DEF StoreTypes, StoredFiles, Contents, Offsets
<1>3. CASE Disk!Create(t)
  <2>1. <<>> \in Seq(Contents) /\ Len(<<>>) <= MaxBlocks
    BY Sizes
  <2>2. Disk!Stored(<<>>, FALSE) \in Range1
    BY <2>1, StoredIsFile
  <2> QED
    BY <1>1, <1>3, <2>2 DEF Disk!Create, Disk!Changed
<1>4. CASE Disk!Commit(t)
  <2>1. Disk!Exists(t)
    BY <1>4 DEF Disk!Commit, Disk!Open
  <2>2. Disk!Stored(files[t].data, TRUE) \in Range1
    BY <2>1, StoredFile, StoredIsFile
  <2> QED
    BY <1>1, <1>4, <2>2 DEF Disk!Commit, Disk!Changed
<1>5. CASE Disk!Delete(t)
  BY <1>1, <1>5 DEF Disk!Delete, Disk!Changed
<1>6. CASE \E n \in 0..MaxBlocks : Disk!Truncate(t, n)
  <2>1. PICK n \in 0..MaxBlocks : Disk!Truncate(t, n)
    BY <1>6
  <2>2. Disk!Exists(t)
    BY <2>1 DEF Disk!Truncate, Disk!Open
  <2> DEFINE d == [i \in 1..n |-> IF i <= Len(files[t].data)
                                  THEN files[t].data[i] ELSE Zeros]
  <2>3. d \in Seq(Contents) /\ Len(d) <= MaxBlocks
    <3>1. Zeros \in Contents
      BY MemoryAssumption DEF Zeros, Contents
    <3>2. n \in Nat /\ n <= MaxBlocks
      BY Sizes
    <3>3. \A i \in 1..n : (IF i <= Len(files[t].data)
                           THEN files[t].data[i] ELSE Zeros) \in Contents
      BY <2>2, <3>1, StoredFile
    <3> QED
      BY <3>2, <3>3
  <2> HIDE DEF d
  <2>4. Disk!Stored(d, FALSE) \in Range1
    BY <2>3, StoredIsFile
  <2>5. files' = [files EXCEPT ![t] = Disk!Stored(d, FALSE)]
    BY <2>1 DEF Disk!Truncate, Disk!Changed, d
  <2> QED
    BY <1>1, <2>4, <2>5
<1>7. CASE \E dst \in FileTags : Disk!Tag(t, dst)
  <2>1. PICK dst \in FileTags : Disk!Tag(t, dst)
    BY <1>7
  <2>2. Disk!Exists(t)
    BY <2>1 DEF Disk!Tag
  <2>3. Disk!Stored(files[t].data, FALSE) \in Range1
    BY <2>2, StoredFile, StoredIsFile
  <2> QED
    BY <1>1, <2>1, <2>3 DEF Disk!Tag, Disk!Changed
<1>8. CASE \E i, c : c \in Contents /\ Disk!Write(t, i, c)
  <2>1. PICK i, c : c \in Contents /\ Disk!Write(t, i, c)
    BY <1>8
  <2>2. Disk!Exists(t) /\ i \in DOMAIN files[t].data
    BY <2>1 DEF Disk!Write, Disk!Open
  <2> DEFINE d == [files[t].data EXCEPT ![i] = c]
  <2>3. d \in Seq(Contents) /\ Len(d) <= MaxBlocks
    BY <2>1, <2>2, StoredFile, ExceptSeq
  <2> HIDE DEF d
  <2>4. Disk!Stored(d, FALSE) \in Range1
    BY <2>3, StoredIsFile
  <2>5. files' = [files EXCEPT ![t] = Disk!Stored(d, FALSE)]
    BY <2>1 DEF Disk!Write, Disk!Changed, d
  <2> QED
    BY <1>1, <2>4, <2>5
<1> QED
  BY <1>2, <1>3, <1>4, <1>5, <1>6, <1>7, <1>8

-----------------------------------------------------------------------------
(* The list of tables.                                                     *)

\* A table is created or grown: its File:Tag is listed, once.
LEMMA EntriesAdded ==
    ASSUME entries \in Seq(FileTags), EntriesExact, NEW t \in FileTags,
           entries' = EntriesWith(t), page_table'[t] # <<>>,
           \A u \in FileTags \ {t} : page_table'[u] = page_table[u]
    PROVE  entries' \in Seq(FileTags) /\ EntriesExact'
<1>1. /\ IsInjective(entries)
      /\ \A u \in FileTags : page_table[u] # <<>> <=> u \in ToSet(entries)
  BY DEF EntriesExact, mm_has_page_table
<1>2. /\ entries' \in Seq(FileTags) /\ ToSet(entries') = ToSet(entries) \cup {t}
      /\ IsInjective(entries')
  <2>1. CASE mm_has_page_table(t)
    BY <1>1, <2>1 DEF EntriesWith, mm_has_page_table
  <2>2. CASE ~mm_has_page_table(t)
    <3>1. entries' = Append(entries, t) /\ t \notin ToSet(entries)
      BY <1>1, <2>2 DEF EntriesWith, mm_has_page_table
    <3> QED
      BY <1>1, <3>1, AppendLists
  <2> QED
    BY <2>1, <2>2
<1>3. ToSet(entries)' = ToSet(entries') /\ IsInjective(entries)' = IsInjective(entries')
  BY DEF ToSet, IsInjective
<1>4. \A u \in FileTags : page_table'[u] # <<>> <=> u \in ToSet(entries')
  BY <1>1, <1>2
<1> QED
  BY <1>2, <1>3, <1>4 DEF EntriesExact, mm_has_page_table

\* The last entry takes the place of the removed one: the others remain.
LEMMA EntriesRemoved ==
    ASSUME entries \in Seq(FileTags), EntriesExact, NEW t \in FileTags,
           mm_has_page_table(t), entries' = EntriesWithout(t), page_table'[t] = <<>>,
           \A u \in FileTags \ {t} : page_table'[u] = page_table[u]
    PROVE  entries' \in Seq(FileTags) /\ EntriesExact'
<1> DEFINE n == Len(entries)
           w == EntriesWithout(t)
<1>1. /\ \A i, j \in 1..n : entries[i] = entries[j] => i = j
      /\ \A u \in FileTags : page_table[u] # <<>> <=> u \in ToSet(entries)
      /\ n \in Nat /\ DOMAIN entries = 1..n
      /\ \A i \in 1..n : entries[i] \in FileTags
  BY DEF EntriesExact, mm_has_page_table, IsInjective
<1>2. PICK k \in 1..n : entries[k] = t
  BY <1>1 DEF mm_has_page_table, ToSet
<1>3. w = [i \in 1..n - 1 |-> IF entries[i] = t THEN entries[n] ELSE entries[i]]
  BY DEF EntriesWithout
<1>4. n >= 1 /\ n - 1 \in Nat
  BY <1>1, <1>2
<1> HIDE DEF w, n
<1>5. /\ w \in Seq(FileTags) /\ DOMAIN w = 1..n - 1
      /\ \A i \in 1..n - 1 : w[i] = IF i = k THEN entries[n] ELSE entries[i]
  <2>1. \A i \in 1..n - 1 : entries[i] = t <=> i = k
    BY <1>1, <1>2, <1>4
  <2>2. \A i \in 1..n - 1 :
           (IF entries[i] = t THEN entries[n] ELSE entries[i]) \in FileTags
    BY <1>1, <1>4
  <2> QED
    BY <1>3, <1>4, <2>1, <2>2
<1>6. IsInjective(w)
  <2>1. ASSUME NEW i \in 1..n - 1, NEW j \in 1..n - 1, w[i] = w[j] PROVE i = j
    BY <1>1, <1>4, <1>5, <2>1
  <2> QED
    BY <1>5, <2>1 DEF IsInjective
<1>7. ToSet(w) = ToSet(entries) \ {t}
  <2>1. /\ ToSet(w) = {w[i] : i \in 1..n - 1}
        /\ ToSet(entries) = {entries[i] : i \in 1..n}
    BY <1>1, <1>5 DEF ToSet
  <2>2. ASSUME NEW i \in 1..n - 1
        PROVE  w[i] \in ToSet(entries) /\ w[i] # t
    BY <1>1, <1>2, <1>4, <1>5, <2>1
  <2>3. ASSUME NEW i \in 1..n, entries[i] # t
        PROVE  entries[i] \in ToSet(w)
    <3>1. CASE i = n
      <4>1. k \in 1..n - 1
        BY <1>1, <1>2, <1>4, <2>3, <3>1
      <4> QED
        BY <1>5, <2>1, <3>1, <4>1
    <3>2. CASE i # n
      <4>1. i \in 1..n - 1 /\ i # k
        BY <1>1, <1>2, <1>4, <2>3, <3>2
      <4> QED
        BY <1>5, <2>1, <4>1
    <3> QED
      BY <3>1, <3>2
  <2> QED
    BY <2>1, <2>2, <2>3
<1>8. entries' = w
  BY DEF w
<1>9. ToSet(entries)' = ToSet(entries') /\ IsInjective(entries)' = IsInjective(entries')
  BY DEF ToSet, IsInjective
<1>10. \A u \in FileTags : page_table'[u] # <<>> <=> u \in ToSet(entries')
  BY <1>1, <1>7, <1>8
<1> QED
  BY <1>5, <1>6, <1>8, <1>9, <1>10 DEF EntriesExact, mm_has_page_table

\* No table comes or goes.
LEMMA EntriesKept ==
    ASSUME EntriesExact, page_table \in Tables, UNCHANGED entries,
           \A u \in FileTags : Len(page_table'[u]) > 0 <=> PageCount(u) > 0,
           page_table' \in Tables
    PROVE  EntriesExact'
<1>1. \A u \in FileTags : page_table'[u] # <<>> <=> page_table[u] # <<>>
  BY DEF PageCount, Tables
<1>2. ToSet(entries)' = ToSet(entries) /\ IsInjective(entries)' = IsInjective(entries)
  BY DEF ToSet, IsInjective
<1> QED
  BY <1>1, <1>2 DEF EntriesExact, mm_has_page_table

-----------------------------------------------------------------------------
(* The inductive invariant, and what each step does to the pages.          *)

MemoryInv ==
    TypeOK /\ StoreTypes /\ Bounded /\ AccessInTable /\ EntriesExact /\ FramesExclusive

\* The address of an offset in a page.
Addr(page, offset) == (page - 1) * PageSize + offset
Address(base, page, offset) == base = Addr(page, offset)

\* A WRITE to a committed File:Tag is careless.
MayAccess(op, t) == op = "WRITE" => ~Closed(t) \/ "WRITE COMMITTED" \in Careless

\* An access begins.
Started ==
    /\ instr = Idle
    /\ instr' \in Accesses
    /\ instr'.left = instr'.size /\ instr'.size > 0
    /\ Address(instr.base, instr.page, instr.offset)'
    /\ MayAccess(instr'.op, instr'.t)

\* Nothing but the instruction changes that has to do with data.
Quiet ==
    /\ Dropped({})
    /\ UNCHANGED <<files, physical_memory>>
    /\ \/ instr' = instr
       \/ instr' \in Flushes
       \/ Flushing /\ instr' = Idle
       \/ Started

\* A page is taken out of memory, written back if it is dirty.
Evicted(p) ==
    /\ p \in PresentPages
    /\ Dropped({p})
    /\ IF PageAt(p).dirty THEN BlockWritten(p) ELSE UNCHANGED files
    /\ UNCHANGED <<physical_memory, instr>>

\* A block is read into a free frame.
Loaded(t, i, f) ==
    /\ <<t, i>> \notin PresentPages
    /\ Disk!Exists(t) /\ i \in DOMAIN files[t].data
    /\ f \in Frames \ used
    /\ PresentPages' = PresentPages \cup {<<t, i>>}
    /\ \A p \in PresentPages : /\ PageAt(p)'.frame = PageAt(p).frame
                               /\ PageAt(p)'.dirty = PageAt(p).dirty
    /\ PageAt(<<t, i>>)'.frame = f /\ PageAt(<<t, i>>)'.dirty = FALSE
    /\ physical_memory' = [physical_memory EXCEPT ![f] = files[t].data[i]]
    /\ UNCHANGED <<files, instr>>

\* The pages stay in their frames, and only that of x may become dirty or
\* clean.
Marked(x, dirty) ==
    /\ x \in PresentPages
    /\ PresentPages' = PresentPages
    /\ \A p \in PresentPages : PageAt(p)'.frame = PageAt(p).frame
    /\ \A p \in PresentPages \ {x} : PageAt(p)'.dirty = PageAt(p).dirty
    /\ PageAt(x)'.dirty = dirty

\* Bytes are copied from or to the page x the access is at.
Copied(x) ==
    /\ Accessing /\ instr \in Accesses /\ instr.left > 0
    /\ x = <<instr.t, instr.page>>
    /\ Marked(x, PageAt(x).dirty \/ instr.op = "WRITE")
    /\ physical_memory' = [physical_memory EXCEPT ![PageAt(x).frame] =
          [o \in Offsets |->
              IF instr.op = "WRITE" /\ o \in instr.offset..instr.offset + bytes_to_copy - 1
              THEN instr.byte ELSE @[o]]]
    /\ instr' = IF bytes_to_copy = instr.left THEN Idle ELSE Advanced(bytes_to_copy)
    /\ UNCHANGED files

\* A dirty page is written back and stays.
Flushed(p) ==
    /\ Flushing
    /\ Marked(p, FALSE)
    /\ BlockWritten(p)
    /\ UNCHANGED <<physical_memory, instr>>

Committed ==
    /\ Flushing /\ instr.op = "COMMIT"
    /\ Disk!Commit(instr.t)
    /\ ~Unflushed(instr.t)
    /\ Dropped({})
    /\ instr' = Idle
    /\ UNCHANGED physical_memory

\* An instruction the Storage carries out while the executor waits.
Created(t) == Disk!Create(t) /\ Dropped({})

Truncated(t, n) ==
    /\ Disk!Truncate(t, n)
    /\ \/ Dropped({p \in PresentPages : p[1] = t /\ p[2] > n})
       \/ "TRUNCATE TO 0" \in Careless /\ Dropped({})

Tagged(src, dst) ==
    /\ Disk!Tag(src, dst)
    /\ ~Unflushed(src) \/ "TAG UNFLUSHED" \in Careless
    /\ Dropped({})

Deleted(t) == Disk!Delete(t) /\ Dropped({p \in PresentPages : p[1] = t})

Executed ==
    /\ instr = Idle
    /\ UNCHANGED <<physical_memory, instr>>
    /\ \E t \in FileTags :
          \/ Created(t) \/ Deleted(t)
          \/ \E n \in 0..MaxBlocks : Truncated(t, n)
          \/ \E dst \in FileTags : Tagged(t, dst)

\* DELETE drops the table of a File:Tag that the Storage then does not delete.
NotDeleted(t) ==
    /\ instr = Idle
    /\ StorageFull \/ ~Disk!Exists(t) \/ t = Protected
    /\ Dropped({p \in PresentPages : p[1] = t})
    /\ Fails /\ instr' \in Flushes
    /\ UNCHANGED <<files, physical_memory>>

\* Every step is one of these.
Effect ==
    \/ Quiet
    \/ \E p \in PresentPages : Evicted(p) \/ Flushed(p) \/ Copied(p)
    \/ \E t \in FileTags, i \in Pages, f \in Frames : Loaded(t, i, f)
    \/ Committed
    \/ Executed
    \/ \E t \in FileTags : NotDeleted(t)

-----------------------------------------------------------------------------
(* Every step keeps the invariant and has one of the effects.              *)

\* The parts of TypeOK, with the tables under their name here.
LEMMA MemoryTypes ==
    ASSUME TypeOK
    PROVE  /\ policy \in Policies /\ entries \in Seq(FileTags)
           /\ page_table \in Tables /\ recency \in Seq(FileTags \X Pages)
           /\ used \in SUBSET Frames /\ physical_memory \in [Frames -> Contents]
           /\ clock_pointer \in Frames
           /\ Accessing => instr \in Accesses
           /\ Flushing => instr \in Flushes
           /\ Flushing /\ instr.op # "FLUSH ALL" => instr.t \in FileTags
<1>1. \A r \in Flushes : r.op \in {"FLUSH", "COMMIT", "FLUSH ALL"}
                         /\ (r.op # "FLUSH ALL" => r.t \in FileTags)
  BY DEF Flushes
<1>2. \A r \in Accesses : r.op \in {"READ", "WRITE"}
  BY DEF Accesses
<1>3. Accessing => instr \in Accesses
  BY <1>1 DEF TypeOK, Accessing
<1>4. Flushing => instr \in Flushes
  BY <1>2 DEF TypeOK, Flushing
<1>5. Flushing /\ instr.op # "FLUSH ALL" => instr.t \in FileTags
  BY <1>1, <1>4
<1> QED
  BY <1>3, <1>4, <1>5 DEF TypeOK, Tables

\* What the write-back of every page is.
LEMMA FlushAll == [op |-> "FLUSH ALL"] \in Flushes
  BY DEF Flushes

\* Only an access needs a table.
LEMMA NotAccessing ==
    ASSUME instr' \in Flushes \/ instr' = Idle
    PROVE  AccessInTable' /\ (instr' = Idle \/ instr' \in Accesses \/ instr' \in Flushes)
<1>1. \A r \in Flushes : r.op \in {"FLUSH", "COMMIT", "FLUSH ALL"}
  BY DEF Flushes
<1> QED
  BY <1>1 DEF AccessInTable, Accessing

\* An access goes on as long as no table shrinks.
LEMMA StillAccessing ==
    ASSUME TypeOK, AccessInTable, instr' = instr,
           \A u \in FileTags : PageCount(u) \in Nat /\ PageCount(u)' \in Nat
                               /\ PageCount(u) <= PageCount(u)'
    PROVE  AccessInTable'
<1>1. Accessing => instr \in Accesses
  BY MemoryTypes
<1>2. Accessing => instr.t \in FileTags
  BY <1>1 DEF Accesses
<1>3. Accessing' <=> Accessing
  BY DEF Accessing
<1>4. ASSUME Accessing PROVE instr.page \in 1..PageCount(instr.t)' /\ instr.left > 0
  BY <1>2, <1>4 DEF AccessInTable
<1> QED
  BY <1>3, <1>4 DEF AccessInTable, PageCount

\* The parts of TypeOK put together.
LEMMA TypesTogether ==
    ASSUME TypeOK, policy' = policy, entries' \in Seq(FileTags), page_table' \in Tables,
           recency' \in Seq(FileTags \X Pages), used' \in SUBSET Frames,
           physical_memory' \in [Frames -> Contents], clock_pointer' \in Frames,
           instr' = Idle \/ instr' \in Accesses \/ instr' \in Flushes
    PROVE  TypeOK'
  BY DEF TypeOK, Tables, pt_entry_t, Frames, Pages, Contents, Offsets, Accesses, Flushes

\* The tables stay, or only grow: nothing happens to pages, frames and order.
LEMMA TablesKept ==
    ASSUME MemoryInv, NEW pages, Extended(pages), page_table' = pages,
           UNCHANGED <<policy, used, recency>>
    PROVE  /\ page_table' \in Tables /\ Bounded' /\ Dropped({}) /\ FramesExclusive'
           /\ \A u \in FileTags : /\ PageCount(u) \in Nat /\ PageCount(u)' \in Nat
                                  /\ PageCount(u) <= PageCount(u)'
<1>0. TypeOK /\ Bounded /\ FramesExclusive /\ page_table \in Tables
  BY MemoryTypes DEF MemoryInv
<1>1. page_table' \in Tables /\ Bounded' /\ Dropped({})
  BY <1>0, ExtendedTables
<1>2. FramesExclusive'
  BY <1>0, <1>1, SameFrames
<1>3. \A u \in FileTags : /\ PageCount(u) \in Nat /\ PageCount(u)' \in Nat
                          /\ PageCount(u) <= PageCount(u)'
  BY <1>0, <1>1 DEF Extended, PageCount, Tables
<1> QED
  BY <1>1, <1>2, <1>3

\* Nothing in memory changes.
LEMMA MemoryKept ==
    ASSUME MemoryInv, UNCHANGED <<policy, tables>>, clock_pointer' = clock_pointer,
           StoreTypes',
           instr' = instr \/ instr' \in Flushes \/ instr' = Idle
    PROVE  MemoryInv' /\ Dropped({}) /\ physical_memory' = physical_memory
<1>0. /\ TypeOK /\ AccessInTable /\ EntriesExact /\ page_table \in Tables
      /\ entries \in Seq(FileTags) /\ recency \in Seq(FileTags \X Pages)
      /\ used \in SUBSET Frames /\ physical_memory \in [Frames -> Contents]
      /\ clock_pointer \in Frames
  BY MemoryTypes DEF MemoryInv
<1>1. /\ entries' = entries /\ page_table' = page_table /\ recency' = recency
      /\ used' = used /\ physical_memory' = physical_memory /\ policy' = policy
  BY DEF tables
<1>2. /\ page_table' \in Tables /\ Bounded' /\ Dropped({}) /\ FramesExclusive'
      /\ \A u \in FileTags : /\ PageCount(u) \in Nat /\ PageCount(u)' \in Nat
                             /\ PageCount(u) <= PageCount(u)'
  BY <1>0, <1>1, BitsCleared, TablesKept
<1>3. EntriesExact'
  BY <1>0, <1>1 DEF EntriesExact, mm_has_page_table, ToSet, IsInjective
<1>4. AccessInTable' /\ (instr' = Idle \/ instr' \in Accesses \/ instr' \in Flushes)
  <2>1. CASE instr' = instr
    <3>1. AccessInTable'
      BY <1>0, <1>2, <2>1, StillAccessing
    <3> QED
      BY <1>0, <2>1, <3>1 DEF TypeOK
  <2>2. CASE instr' \in Flushes \/ instr' = Idle
    BY <2>2, NotAccessing
  <2> QED
    BY <2>1, <2>2
<1>5. TypeOK'
  BY <1>0, <1>1, <1>2, <1>4, TypesTogether
<1> QED
  BY <1>1, <1>2, <1>3, <1>4, <1>5 DEF MemoryInv

\* Taking a victim.
LEMMA EvictStep ==
    ASSUME MemoryInv, NEW p \in PresentPages, NEW pages, Extended(pages),
           \A u \in FileTags : Len(pages[u]) = PageCount(u), NEW hand \in Frames,
           EvictClean(p, pages, hand) \/ EvictDirty(p, pages, hand), UNCHANGED policy
    PROVE  MemoryInv' /\ Effect
<1>0. /\ TypeOK /\ AccessInTable /\ EntriesExact /\ FramesExclusive /\ Bounded
      /\ StoreTypes /\ page_table \in Tables
      /\ entries \in Seq(FileTags) /\ recency \in Seq(FileTags \X Pages)
      /\ used \in SUBSET Frames /\ physical_memory \in [Frames -> Contents]
      /\ clock_pointer \in Frames
  BY MemoryTypes DEF MemoryInv
<1>1. /\ p[1] \in FileTags /\ PageAt(p).frame \in Frames /\ PageAt(p).dirty \in BOOLEAN
  BY <1>0, PresentPage
<1>2. Dirty(p) <=> PageAt(p).dirty
  BY DEF Dirty
<1>3. ASSUME Taken(p, pages, hand), StoreTypes',
             IF PageAt(p).dirty THEN BlockWritten(p) ELSE UNCHANGED files
      PROVE  MemoryInv' /\ Effect
  <2>1. /\ Unmapped(p, pages) /\ clock_pointer' = hand /\ entries' = entries
        /\ physical_memory' = physical_memory /\ instr' = instr
    BY <1>3 DEF Taken
  <2>2. /\ page_table' \in Tables /\ Bounded' /\ Dropped({p})
        /\ \A u \in FileTags : PageCount(u)' = Len(pages[u])
    BY <1>0, <2>1, UnmappedTables
  <2>3. \A u \in FileTags : /\ PageCount(u) \in Nat /\ PageCount(u)' \in Nat
                            /\ PageCount(u) <= PageCount(u)'
    BY <1>0, <2>2 DEF PageCount, Tables
  <2>4. /\ recency' = Forgotten(recency, {p})
        /\ used' = used \ {PageAt(p).frame}
    BY <2>1 DEF Unmapped
  <2>5. \A q \in PresentPages \ {p} : PageAt(q).frame \in used'
    BY <1>0, <2>4 DEF FramesExclusive
  <2>6. FramesExclusive' /\ recency' \in Seq(FileTags \X Pages)
    BY <1>0, <2>2, <2>4, <2>5, FewerFrames
  <2>7. EntriesExact'
    <3>1. \A u \in FileTags : Len(page_table'[u]) > 0 <=> PageCount(u) > 0
      BY <2>2 DEF PageCount
    <3> QED
      BY <1>0, <2>1, <2>2, <3>1, EntriesKept
  <2>8. AccessInTable'
    BY <1>0, <2>1, <2>3, StillAccessing
  <2>9. TypeOK'
    <3>1. used' \in SUBSET Frames
      BY <1>0, <2>4
    <3>2. instr' = Idle \/ instr' \in Accesses \/ instr' \in Flushes
      BY <1>0, <2>1 DEF TypeOK
    <3> QED
      BY <1>0, <2>1, <2>2, <2>6, <3>1, <3>2, TypesTogether
  <2>10. Evicted(p)
    BY <1>3, <2>1, <2>2 DEF Evicted
  <2>11. Effect
    BY <2>10 DEF Effect
  <2> QED
    BY <1>3, <2>2, <2>6, <2>7, <2>8, <2>9, <2>11 DEF MemoryInv
<1>4. CASE EvictClean(p, pages, hand)
  <2>1. Taken(p, pages, hand) /\ ~PageAt(p).dirty /\ UNCHANGED files
    BY <1>2, <1>4 DEF EvictClean
  <2>2. StoreTypes'
    BY <1>0, <1>1, <2>1, StoreStep
  <2> QED
    BY <1>3, <2>1, <2>2
<1>5. CASE EvictDirty(p, pages, hand) /\ BlockWritten(p) /\ Taken(p, pages, hand)
  <2>1. PageAt(p).dirty
    BY <1>2, <1>5 DEF EvictDirty
  <2>2. StoreTypes'
    <3>1. Disk!Write(p[1], p[2], physical_memory[PageAt(p).frame])
      BY <1>5 DEF BlockWritten
    <3>2. physical_memory[PageAt(p).frame] \in Contents
      BY <1>0, <1>1
    <3> QED
      BY <1>0, <1>1, <3>1, <3>2, StoreStep
  <2> QED
    BY <1>3, <1>5, <2>1, <2>2
<1>6. CASE /\ BlockRefused(p) /\ page_table' = pages /\ Fails
           /\ UNCHANGED <<entries, recency, used, physical_memory, clock_pointer>>
  <2>0. Disk!Refuse /\ Fails
    BY <1>6 DEF BlockRefused
  <2>1. files' = files /\ instr' \in Flushes
    BY <2>0, FlushAll DEF Disk!Refuse, Fails
  <2>2. /\ page_table' \in Tables /\ Bounded' /\ Dropped({}) /\ FramesExclusive'
    BY <1>6, TablesKept
  <2>3. EntriesExact'
    <3>1. \A u \in FileTags : Len(page_table'[u]) > 0 <=> PageCount(u) > 0
      BY <1>6
    <3> QED
      BY <1>0, <1>6, <2>2, <3>1, EntriesKept
  <2>4. AccessInTable' /\ (instr' = Idle \/ instr' \in Accesses \/ instr' \in Flushes)
    BY <2>1, NotAccessing
  <2>5. TypeOK'
    BY <1>0, <1>6, <2>2, <2>4, TypesTogether
  <2>6. StoreTypes'
    BY <1>0, <1>1, <2>1, StoreStep
  <2>7. Quiet
    <3>1. UNCHANGED <<files, physical_memory>>
      BY <1>6, <2>1
    <3> QED
      BY <2>1, <2>2, <3>1 DEF Quiet
  <2>8. Effect
    BY <2>7 DEF Effect
  <2> QED
    BY <2>2, <2>3, <2>4, <2>5, <2>6, <2>8 DEF MemoryInv
<1> QED
  BY <1>4, <1>5, <1>6 DEF EvictDirty

\* Of the members of a set one is the first by a number.
LEMMA Least ==
    ASSUME NEW S, S # {}, NEW f \in [S -> Nat]
    PROVE  \E x \in S : \A y \in S : f[x] <= f[y]
<1> DEFINE T == {f[x] : x \in S}
<1>1. T \subseteq Nat /\ T # {}
  OBVIOUS
<1> HIDE DEF T
<1>2. Min(T) \in T /\ \A n \in T : Min(T) <= n
  BY <1>1, MinOfNaturals
<1>3. PICK x \in S : f[x] = Min(T)
  BY <1>2 DEF T
<1>4. \A y \in S : f[y] \in T
  BY DEF T
<1> QED
  BY <1>2, <1>3, <1>4

\* The remainder of a division is less than the divisor.
LEMMA Remainder ==
    ASSUME NEW a \in Nat, NEW b \in Nat, b > 0
    PROVE  a % b \in 0..b - 1
  OBVIOUS

\* The hand stops at a page it meets, and behind it, on a frame.
LEMMA HandStops ==
    ASSUME TypeOK, NEW pages, pages \subseteq PresentPages, pages # {}
    PROVE  /\ FirstMet(pages) \in pages
           /\ Behind(FirstMet(pages)) \in Frames
<1>0. page_table \in Tables /\ clock_pointer \in Frames
  BY MemoryTypes
<1>1. ASSUME NEW p \in PresentPages
      PROVE  Turns(p) \in Nat /\ Behind(p) \in Frames
  <2>1. PageAt(p).frame \in Frames
    BY <1>0, PresentPage
  <2> DEFINE a == PageAt(p).frame + FrameCount - clock_pointer
             b == PageAt(p).frame + 1
  <2>2. a \in Nat /\ b \in Nat
    BY <1>0, <2>1, Sizes DEF Frames
  <2> HIDE DEF a, b
  <2>3. a % FrameCount \in 0..FrameCount - 1 /\ b % FrameCount \in 0..FrameCount - 1
    BY <2>2, Sizes, Remainder
  <2>4. Turns(p) = a % FrameCount /\ Behind(p) = b % FrameCount
    BY DEF Turns, Behind, a, b
  <2> QED
    BY <2>3, <2>4 DEF Frames
<1> DEFINE f == [p \in pages |-> Turns(p)]
<1>2. f \in [pages -> Nat]
  BY <1>1
<1>3. \E p \in pages : \A q \in pages : f[p] <= f[q]
  <2> HIDE DEF f
  <2> QED
    BY <1>2, Least
<1>4. \E p \in pages : \A q \in pages : Turns(p) <= Turns(q)
  BY <1>3
<1>5. FirstMet(pages) \in pages
  <2> HIDE DEF f
  <2> QED
    BY <1>4 DEF FirstMet
<1> QED
  BY <1>1, <1>5

\* Looking for a frame.
LEMMA AllocateStep ==
    ASSUME MemoryInv, mm_allocate_frame
    PROVE  MemoryInv' /\ Effect
<1>0. /\ TypeOK /\ StoreTypes /\ FramesExclusive /\ EntriesExact /\ AccessInTable
      /\ page_table \in Tables /\ clock_pointer \in Frames
      /\ recency \in Seq(FileTags \X Pages) /\ entries \in Seq(FileTags)
      /\ used \in SUBSET Frames /\ physical_memory \in [Frames -> Contents]
  BY MemoryTypes DEF MemoryInv
<1>1. policy' = policy
  BY DEF mm_allocate_frame
<1>2. Extended(page_table) /\ \A u \in FileTags : Len(page_table[u]) = PageCount(u)
  BY <1>0, BitsCleared DEF PageCount
<1>3. /\ Extended(UseBitsCleared)
      /\ \A u \in FileTags : Len(UseBitsCleared[u]) = PageCount(u)
  BY <1>0, BitsCleared
<1>4. CASE policy = "LRU" /\ mm_find_lru_victim
  <2>1. CASE recency = <<>>
    <3>1. /\ UNCHANGED <<files, tables, clock_pointer>> /\ Fails
      BY <1>4, <2>1 DEF mm_find_lru_victim
    <3>2. instr' \in Flushes
      BY <3>1, FlushAll DEF Fails
    <3>3. StoreTypes'
      <4>1. Protected \in FileTags /\ files' = files
        BY <3>1, MemoryAssumption
      <4> QED
        BY <1>0, <4>1, StoreStep
    <3>4. MemoryInv' /\ Dropped({}) /\ physical_memory' = physical_memory
      BY <1>1, <3>1, <3>2, <3>3, MemoryKept
    <3>5. Quiet
      BY <3>1, <3>2, <3>4 DEF Quiet
    <3> QED
      BY <3>4, <3>5 DEF Effect
  <2>2. CASE recency # <<>>
    <3>1. Head(recency) \in PresentPages
      <4>1. Head(recency) \in ToSet(recency)
        BY <1>0, <2>2, TailLists
      <4> QED
        BY <1>0, <1>4, <4>1 DEF FramesExclusive
    <3> DEFINE p == Head(recency)
    <3>2. \/ EvictClean(p, page_table, clock_pointer)
          \/ EvictDirty(p, page_table, clock_pointer)
      BY <1>4, <2>2 DEF mm_find_lru_victim
    <3> HIDE DEF p
    <3>3. p \in PresentPages
      BY <3>1 DEF p
    <3> QED
      BY <1>0, <1>1, <1>2, <3>2, <3>3, EvictStep
  <2> QED
    BY <2>1, <2>2
<1>5. CASE policy = "CLOCK_M" /\ mm_find_clockm_victim
  <2> DEFINE clean == NotUsed(FALSE)
             dirty == NotUsed(TRUE)
             pc == FirstMet(clean)
             pd == FirstMet(dirty)
  <2>1. clean \subseteq PresentPages /\ dirty \subseteq PresentPages
    BY DEF NotUsed
  <2>2. \/ clean # {} /\ EvictClean(pc, page_table, Behind(pc))
        \/ clean = {} /\ dirty # {} /\ EvictDirty(pd, UseBitsCleared, Behind(pd))
        \/ /\ page_table' = UseBitsCleared
           /\ UNCHANGED <<files, entries, recency, used, physical_memory,
                          clock_pointer, instr>>
    BY <1>5 DEF mm_find_clockm_victim
  <2> HIDE DEF clean, dirty
  <2>3. CASE clean # {} /\ EvictClean(pc, page_table, Behind(pc))
    <3>1. pc \in PresentPages /\ Behind(pc) \in Frames
      BY <1>0, <2>1, <2>3, HandStops
    <3> HIDE DEF pc
    <3> QED
      BY <1>1, <1>2, <2>3, <3>1, EvictStep
  <2>4. CASE dirty # {} /\ EvictDirty(pd, UseBitsCleared, Behind(pd))
    <3>1. pd \in PresentPages /\ Behind(pd) \in Frames
      BY <1>0, <2>1, <2>4, HandStops
    <3> HIDE DEF pd
    <3> QED
      BY <1>1, <1>3, <2>4, <3>1, EvictStep
  <2>5. CASE /\ page_table' = UseBitsCleared
             /\ UNCHANGED <<files, entries, recency, used, physical_memory,
                            clock_pointer, instr>>
    <3>1. /\ page_table' \in Tables /\ Bounded' /\ Dropped({}) /\ FramesExclusive'
          /\ \A u \in FileTags : /\ PageCount(u) \in Nat /\ PageCount(u)' \in Nat
                                 /\ PageCount(u) <= PageCount(u)'
      BY <1>1, <1>3, <2>5, TablesKept
    <3>2. EntriesExact'
      <4>1. \A u \in FileTags : Len(page_table'[u]) > 0 <=> PageCount(u) > 0
        BY <1>3, <2>5
      <4> QED
        BY <1>0, <2>5, <3>1, <4>1, EntriesKept
    <3>3. AccessInTable'
      BY <1>0, <2>5, <3>1, StillAccessing
    <3>4. TypeOK'
      <4>1. instr' = Idle \/ instr' \in Accesses \/ instr' \in Flushes
        BY <1>0, <2>5 DEF TypeOK
      <4> QED
        BY <1>0, <1>1, <2>5, <3>1, <4>1, TypesTogether
    <3>5. StoreTypes'
      <4>1. Protected \in FileTags /\ files' = files
        BY <2>5, MemoryAssumption
      <4> QED
        BY <1>0, <4>1, StoreStep
    <3>6. Quiet
      BY <2>5, <3>1 DEF Quiet
    <3> QED
      BY <3>1, <3>2, <3>3, <3>4, <3>5, <3>6 DEF MemoryInv, Effect
  <2> QED
    BY <2>2, <2>3, <2>4, <2>5
<1> QED
  BY <1>4, <1>5 DEF mm_allocate_frame

\* What an access is.
LEMMA AccessFields ==
    ASSUME NEW r \in Accesses
    PROVE  /\ r.op \in {"READ", "WRITE"} /\ r.t \in FileTags /\ r.base \in Bases
           /\ r.size \in Nat /\ r.byte \in Bytes /\ r.page \in Nat
           /\ r.offset \in Offsets /\ r.left \in Nat
  BY DEF Accesses

\* A page fault.
LEMMA FaultStep ==
    ASSUME MemoryInv, mm_handle_page_fault
    PROVE  MemoryInv' /\ Effect
<1> PICK t, i : t = instr.t /\ i = instr.page
  OBVIOUS
<1> DEFINE f == FirstFree
<1>0. /\ TypeOK /\ StoreTypes /\ FramesExclusive /\ EntriesExact /\ AccessInTable
      /\ Bounded /\ page_table \in Tables /\ clock_pointer \in Frames
      /\ recency \in Seq(FileTags \X Pages) /\ entries \in Seq(FileTags)
      /\ used \in SUBSET Frames /\ physical_memory \in [Frames -> Contents]
  BY MemoryTypes DEF MemoryInv
<1>1. Accessing /\ ~Present(t, i) /\ used # Frames
  BY DEF mm_handle_page_fault, Missing
<1>2. instr \in Accesses /\ t \in FileTags /\ i \in 1..PageCount(t)
  BY <1>0, <1>1, MemoryTypes, AccessFields DEF AccessInTable
<1>3. UNCHANGED <<files, policy, entries, clock_pointer>>
  BY DEF mm_handle_page_fault
<1>4. StoreTypes'
  BY <1>0, <1>2, <1>3, StoreStep
<1>5. CASE /\ Disk!Exists(t) /\ i \in DOMAIN files[t].data
           /\ page_table' = pt_map(t, i, f)
           /\ used' = used \cup {f}
           /\ physical_memory' = FrameFilled(f, t, i)
           /\ recency' = Touched(recency, <<t, i>>)
           /\ UNCHANGED instr
  <2>1. f \in Frames \ used
    <3>0. Frames \subseteq Nat
      BY DEF Frames
    <3>1. Frames \ used \subseteq Nat /\ Frames \ used # {}
      BY <1>0, <1>1, <3>0
    <3>2. \E g \in Frames \ used : \A h \in Frames \ used : g <= h
      BY <3>1, MinOfNaturals
    <3> QED
      BY <3>2 DEF FirstFree
  <2> HIDE DEF f
  <2>2. i \in Pages /\ files[t].data[i] \in Contents
    BY <1>0, <1>2, <1>5, StoredFile
  <2> PICK e : e = [frame |-> f, dirty |-> FALSE,
                    use_bit |-> page_table[t][i].use_bit \/ policy = "CLOCK_M"]
    OBVIOUS
  <2>3. e \in pt_entry_t /\ e.frame # NoFrame
    <3>1. page_table[t][i].use_bit \in BOOLEAN
      <4>1. page_table[t] \in Seq(pt_entry_t) /\ i \in 1..Len(page_table[t])
        BY <1>0, <1>2 DEF Tables, PageCount
      <4>2. page_table[t][i] \in pt_entry_t
        BY <4>1
      <4> QED
        BY <4>2 DEF pt_entry_t
    <3>2. f # NoFrame
      BY <2>1, MemoryAssumption DEF Frames
    <3> QED
      BY <2>1, <3>1, <3>2 DEF pt_entry_t
  <2>4. page_table' = [page_table EXCEPT ![t][i] = e]
    BY <1>0, <1>2, <1>5 DEF pt_map, Tables
  <2>5. e.frame = f /\ e.dirty = FALSE
    OBVIOUS
  <2>6. /\ page_table' \in Tables /\ Bounded'
        /\ PresentPages' = PresentPages \cup {<<t, i>>}
        /\ \A p \in PresentPages \ {<<t, i>>} :
              /\ PageAt(p)'.frame = PageAt(p).frame
              /\ PageAt(p)'.dirty = PageAt(p).dirty
        /\ PageAt(<<t, i>>)' = e
        /\ \A u \in FileTags : PageCount(u)' = Len(page_table[u])
    <3>1. Extended(page_table)
      BY <1>0, BitsCleared
    <3>2. EntryWritten(page_table, t, i, e)
      BY <1>0, <1>2, <2>2, <2>3, <2>4, <3>1, EntryTables
    <3> QED
      BY <3>2 DEF EntryWritten
  <2>7. <<t, i>> \in FileTags \X Pages /\ <<t, i>> \notin PresentPages
    <3>1. <<t, i>>[1] = t /\ <<t, i>>[2] = i
      OBVIOUS
    <3> QED
      BY <1>1, <1>2, <2>2, <3>1 DEF PresentPages
  <2>8. FramesExclusive' /\ recency' \in Seq(FileTags \X Pages)
    <3>1. PageAt(<<t, i>>)'.frame \notin used /\ used' = used \cup {PageAt(<<t, i>>)'.frame}
      BY <1>5, <2>1, <2>5, <2>6
    <3>2. recency' = Touched(recency, <<t, i>>) /\ policy' = policy
      BY <1>3, <1>5
    <3> QED
      BY <1>0, <2>6, <2>7, <3>1, <3>2, TouchedFrames
  <2>9. \A u \in FileTags : /\ PageCount(u) \in Nat /\ PageCount(u)' \in Nat
                            /\ PageCount(u) <= PageCount(u)'
    BY <1>0, <2>6 DEF PageCount, Tables
  <2>10. EntriesExact'
    <3>1. \A u \in FileTags : Len(page_table'[u]) > 0 <=> PageCount(u) > 0
      BY <2>6 DEF PageCount
    <3> QED
      BY <1>0, <1>3, <2>6, <3>1, EntriesKept
  <2>11. instr' = instr
    BY <1>5
  <2>12. AccessInTable'
    BY <1>0, <2>9, <2>11, StillAccessing
  <2>13. physical_memory' = [physical_memory EXCEPT ![f] = files[t].data[i]]
    BY <1>5 DEF FrameFilled
  <2>14. TypeOK'
    <3>1. used' \in SUBSET Frames
      BY <1>0, <1>5, <2>1
    <3>2. physical_memory' \in [Frames -> Contents]
      BY <1>0, <2>1, <2>2, <2>13
    <3>3. instr' = Idle \/ instr' \in Accesses \/ instr' \in Flushes
      BY <1>2, <2>11
    <3>4. entries' \in Seq(FileTags) /\ clock_pointer' \in Frames /\ policy' = policy
      BY <1>0, <1>3
    <3> QED
      BY <1>0, <2>6, <2>8, <3>1, <3>2, <3>3, <3>4, TypesTogether
  <2>15. Loaded(t, i, f)
    <3>1. \A p \in PresentPages : p # <<t, i>>
      BY <2>7
    <3>2. Disk!Exists(t) /\ i \in DOMAIN files[t].data
      BY <1>5
    <3> QED
      BY <1>3, <2>1, <2>5, <2>6, <2>7, <2>11, <2>13, <3>1, <3>2 DEF Loaded
  <2>16. Effect
    BY <1>2, <2>1, <2>2, <2>15 DEF Effect
  <2> QED
    BY <1>4, <2>6, <2>8, <2>10, <2>12, <2>14, <2>16 DEF MemoryInv
<1>6. CASE Fails /\ UNCHANGED <<page_table, used, physical_memory, recency>>
  <2>1. instr' \in Flushes
    BY <1>6, FlushAll DEF Fails
  <2>2. UNCHANGED <<policy, tables>> /\ clock_pointer' = clock_pointer
    BY <1>3, <1>6 DEF tables
  <2>3. MemoryInv' /\ Dropped({}) /\ physical_memory' = physical_memory
    BY <1>4, <2>1, <2>2, MemoryKept
  <2>4. Quiet
    BY <1>3, <2>1, <2>3 DEF Quiet
  <2> QED
    BY <2>3, <2>4 DEF Effect
<1> QED
  BY <1>5, <1>6 DEF mm_handle_page_fault

\* How many bytes are copied.
LEMMA BytesToCopy ==
    ASSUME instr \in Accesses, instr.left > 0
    PROVE  /\ bytes_to_copy \in Nat /\ bytes_to_copy > 0
           /\ bytes_to_copy <= instr.left
           /\ instr.offset + bytes_to_copy <= PageSize
           /\ bytes_to_copy # instr.left => instr.offset + bytes_to_copy = PageSize
<1>1. instr.left \in Nat /\ instr.offset \in 0..PageSize - 1
  BY AccessFields DEF Offsets
<1> QED
  BY <1>1, Sizes DEF bytes_to_copy

\* Bytes are copied.
LEMMA CopyStep ==
    ASSUME MemoryInv, CopyBytes
    PROVE  MemoryInv' /\ Effect
<1> PICK t, i, x : t = instr.t /\ i = instr.page /\ x = <<t, i>>
  OBVIOUS
<1> DEFINE f == FrameOf(t, i)
           n == bytes_to_copy
           write == instr.op = "WRITE"
           pages == IF n = instr.left THEN page_table ELSE TablesWith(t, i + 1)
           copied == [o \in Offsets |->
                        IF write /\ o \in instr.offset..instr.offset + n - 1
                        THEN instr.byte ELSE physical_memory[f][o]]
<1>0. /\ TypeOK /\ StoreTypes /\ FramesExclusive /\ EntriesExact /\ AccessInTable
      /\ Bounded /\ page_table \in Tables /\ clock_pointer \in Frames
      /\ recency \in Seq(FileTags \X Pages) /\ entries \in Seq(FileTags)
      /\ used \in SUBSET Frames /\ physical_memory \in [Frames -> Contents]
  BY MemoryTypes DEF MemoryInv
<1>1. Accessing /\ Present(t, i)
  BY DEF CopyBytes
<1>2. /\ instr \in Accesses /\ t \in FileTags /\ i \in 1..PageCount(t) /\ i \in Nat
      /\ instr.left > 0 /\ instr.left \in Nat /\ instr.byte \in Bytes
  <2>1. instr \in Accesses
    BY <1>0, <1>1, MemoryTypes
  <2> QED
    BY <1>0, <1>1, <2>1, AccessFields DEF AccessInTable
<1>3. UNCHANGED <<files, policy, entries, used, clock_pointer>>
  BY DEF CopyBytes
<1>4. StoreTypes'
  BY <1>0, <1>2, <1>3, StoreStep
<1>5. i \in Pages /\ x \in PresentPages /\ x \in FileTags \X Pages
  <2>1. i \in Pages
    BY <1>0, <1>1, <1>2 DEF Bounded
  <2>2. x[1] = t /\ x[2] = i
    OBVIOUS
  <2> QED
    BY <1>1, <1>2, <2>1, <2>2 DEF PresentPages
<1>6. f = PageAt(x).frame /\ f \in Frames
  <2>1. f = PageAt(x).frame
    BY DEF FrameOf, PageAt
  <2> QED
    BY <1>0, <1>5, <2>1, PresentPage
<1>7. /\ Extended(pages)
      /\ n # instr.left => i + 1 <= Len(pages[t])
      /\ \A u \in FileTags : Len(pages[u]) > 0 <=> PageCount(u) > 0
  <2>1. CASE n = instr.left
    BY <1>0, <2>1, BitsCleared DEF PageCount
  <2>2. CASE n # instr.left
    <3>1. i + 1 \in Nat \ {0}
      BY <1>2
    <3>2. pages = TablesWith(t, i + 1)
      BY <2>2
    <3>3. /\ Extended(pages) /\ i + 1 <= Len(pages[t])
          /\ \A u \in FileTags \ {t} : pages[u] = page_table[u]
      BY <1>0, <1>2, <3>1, <3>2, GrownTables
    <3> HIDE DEF pages
    <3>4. PageCount(t) > 0 /\ Len(pages[t]) > 0
      BY <1>0, <1>2, <3>3 DEF PageCount, Tables, Extended
    <3> QED
      BY <3>3, <3>4 DEF PageCount
  <2> QED
    BY <2>1, <2>2
<1>8. page_table' = [pages EXCEPT ![t][i].dirty = @ \/ write,
                                  ![t][i].use_bit = @ \/ policy = "CLOCK_M"]
  BY DEF CopyBytes
<1>9. recency' = Touched(recency, x) /\ instr' = IF n = instr.left THEN Idle ELSE Advanced(n)
  BY DEF CopyBytes
<1>10. physical_memory' = [physical_memory EXCEPT ![f] = copied]
  BY DEF CopyBytes
<1>11. copied \in Contents
  <2>1. physical_memory[f] \in [Offsets -> Bytes]
    BY <1>0, <1>6 DEF Contents
  <2> QED
    BY <1>2, <2>1 DEF Contents
<1> HIDE DEF pages, copied, write
<1>12. /\ pages \in Tables /\ pages[t] \in Seq(pt_entry_t) /\ i \in 1..Len(pages[t])
       /\ pages[t][i] \in pt_entry_t
       /\ pages[t][i].frame = page_table[t][i].frame
       /\ pages[t][i].dirty = page_table[t][i].dirty
  <2>1. pages \in Tables /\ pages[t] \in Seq(pt_entry_t) /\ PageCount(t) <= Len(pages[t])
    BY <1>2, <1>7 DEF Extended, Tables
  <2>2. PageCount(t) \in Nat
    BY <1>0, <1>2 DEF PageCount, Tables
  <2>3. i \in 1..Len(pages[t])
    BY <1>2, <2>1, <2>2
  <2> QED
    BY <1>2, <1>7, <2>1, <2>3 DEF Extended
<1>13. write \in BOOLEAN
  BY DEF write
<1>14. PICK e \in pt_entry_t : /\ e.frame = f /\ e.frame # NoFrame
                               /\ e.dirty = (PageAt(x).dirty \/ write)
                               /\ page_table' = [pages EXCEPT ![t][i] = e]
  <2> DEFINE b == pages[t][i].dirty \/ write
             c == pages[t][i].use_bit \/ policy = "CLOCK_M"
  <2>1. page_table' = [pages EXCEPT ![t][i].dirty = b, ![t][i].use_bit = c]
    BY <1>2, <1>8, <1>12 DEF Tables
  <2>2. b \in BOOLEAN /\ c \in BOOLEAN
    BY <1>12, <1>13 DEF pt_entry_t
  <2>3. b = (PageAt(x).dirty \/ write) /\ pages[t][i].frame = f /\ f # NoFrame
    BY <1>1, <1>12 DEF FrameOf, PageAt, Present
  <2> HIDE DEF b, c
  <2>4. Rewritten(page_table', pages, t, i, b)
    BY <1>2, <1>12, <2>1, <2>2, BitsSet
  <2> QED
    BY <2>3, <2>4 DEF Rewritten
<1>16. /\ page_table' \in Tables /\ Bounded'
       /\ PresentPages' = PresentPages \cup {x}
       /\ \A p \in PresentPages \ {x} : /\ PageAt(p)'.frame = PageAt(p).frame
                                        /\ PageAt(p)'.dirty = PageAt(p).dirty
       /\ PageAt(x)' = e
       /\ \A u \in FileTags : PageCount(u)' = Len(pages[u])
  <2>1. EntryWritten(pages, t, i, e)
    BY <1>0, <1>2, <1>5, <1>7, <1>14, EntryTables
  <2> QED
    BY <2>1 DEF EntryWritten
<1>17. FramesExclusive' /\ recency' \in Seq(FileTags \X Pages)
  <2>1. PageAt(x)'.frame = PageAt(x).frame /\ PageAt(x).frame \in used
    BY <1>0, <1>5, <1>6, <1>14, <1>16 DEF FramesExclusive
  <2>2. used' = used \cup {PageAt(x)'.frame} /\ policy' = policy
    BY <1>3, <2>1
  <2> QED
    BY <1>0, <1>5, <1>9, <1>16, <2>1, <2>2, TouchedFrames
<1>18. EntriesExact'
  <2>1. \A u \in FileTags : Len(page_table'[u]) > 0 <=> PageCount(u) > 0
    BY <1>7, <1>16 DEF PageCount
  <2> QED
    BY <1>0, <1>3, <1>16, <2>1, EntriesKept
<1>19. AccessInTable' /\ (instr' = Idle \/ instr' \in Accesses)
  <2>1. CASE n = instr.left
    <3>1. instr' = Idle
      BY <1>9, <2>1
    <3> QED
      BY <3>1, NotAccessing
  <2>2. CASE n # instr.left
    <3>1. n \in Nat /\ n <= instr.left
      BY <1>2, BytesToCopy
    <3>2. /\ instr' = [instr EXCEPT !.page = @ + 1, !.offset = 0, !.left = @ - n]
      BY <1>9, <2>2 DEF Advanced
    <3>3. 0 \in Offsets /\ instr.page + 1 \in Nat /\ instr.left - n \in Nat
          /\ instr.left - n > 0
      BY <1>2, <2>2, <3>1, Sizes DEF Offsets
    <3> HIDE DEF n
    <3>4. /\ instr' \in Accesses /\ instr'.t = t /\ instr'.page = i + 1
          /\ instr'.left = instr.left - n
      BY <1>2, <3>2, <3>3 DEF Accesses
    <3>5. i + 1 \in 1..PageCount(t)'
      <4>1. Len(pages[t]) \in Nat
        BY <1>12
      <4> QED
        BY <1>2, <1>7, <1>16, <2>2, <4>1 DEF n
    <3>6. instr'.page \in 1..Len(page_table'[instr'.t]) /\ instr'.left > 0
      BY <3>3, <3>4, <3>5 DEF PageCount
    <3> QED
      BY <3>4, <3>6 DEF AccessInTable, PageCount
  <2> QED
    BY <2>1, <2>2
<1>20. TypeOK'
  <2>1. physical_memory' \in [Frames -> Contents]
    BY <1>0, <1>6, <1>10, <1>11
  <2>2. entries' \in Seq(FileTags) /\ clock_pointer' \in Frames /\ policy' = policy
        /\ used' \in SUBSET Frames
    BY <1>0, <1>3
  <2> QED
    BY <1>0, <1>16, <1>17, <1>19, <2>1, <2>2, TypesTogether
<1>21. Copied(x)
  <2>1. Marked(x, PageAt(x).dirty \/ write)
    BY <1>5, <1>6, <1>14, <1>16 DEF Marked
  <2>2. files' = files
    BY <1>3
  <2>3. physical_memory' = [physical_memory EXCEPT ![PageAt(x).frame] =
              [o \in Offsets |->
                  IF write /\ o \in instr.offset..instr.offset + bytes_to_copy - 1
                  THEN instr.byte ELSE @[o]]]
    BY <1>6, <1>10 DEF copied
  <2> QED
    BY <1>1, <1>2, <1>9, <2>1, <2>2, <2>3 DEF Copied, write
<1>22. Effect
  BY <1>5, <1>21 DEF Effect
<1> QED
  BY <1>4, <1>16, <1>17, <1>18, <1>19, <1>20, <1>22 DEF MemoryInv

\* A product of natural numbers is one.
LEMMA Product ==
    ASSUME NEW a \in Nat, NEW b \in Nat
    PROVE  a * b \in Nat
  OBVIOUS

\* There is a next page to write back as long as there are dirty ones.
LEMMA NextIsDirty ==
    ASSUME TypeOK, DirtyPages # {}
    PROVE  NextDirty \in DirtyPages
<1>1. ASSUME NEW p \in DirtyPages PROVE Place(p) \in Nat
  <2>1. p \in PresentPages /\ p[1] \in ToSet(entries)
    BY DEF DirtyPages
  <2>2. p[2] \in Pages
    BY <2>1, MemoryTypes, PresentPage
  <2> DEFINE k == CHOOSE k \in DOMAIN entries : entries[k] = p[1]
  <2>3. k \in DOMAIN entries
    BY <2>1 DEF ToSet
  <2>4. k \in Nat
    <3>1. entries \in Seq(FileTags)
      BY MemoryTypes
    <3>2. \A j \in DOMAIN entries : j \in Nat
      BY <3>1
    <3> HIDE DEF k
    <3> QED
      BY <2>3, <3>2
  <2>5. Place(p) = MaxBlocks * k + p[2]
    BY DEF Place
  <2> HIDE DEF k
  <2>6. MaxBlocks * k \in Nat
    BY <2>4, Sizes, Product
  <2> QED
    BY <2>2, <2>5, <2>6 DEF Pages
<1> DEFINE f == [p \in DirtyPages |-> Place(p)]
<1>2. f \in [DirtyPages -> Nat]
  BY <1>1
<1>3. \E p \in DirtyPages : \A q \in DirtyPages : f[p] <= f[q]
  <2> HIDE DEF f
  <2> QED
    BY <1>2, Least
<1>4. \E p \in DirtyPages : \A q \in DirtyPages : Place(p) <= Place(q)
  BY <1>3
<1> QED
  BY <1>4 DEF NextDirty

\* A page is written back.
LEMMA FlushStep ==
    ASSUME MemoryInv, FlushPage
    PROVE  MemoryInv' /\ Effect
<1>0. /\ TypeOK /\ StoreTypes /\ FramesExclusive /\ EntriesExact /\ AccessInTable
      /\ Bounded /\ page_table \in Tables /\ clock_pointer \in Frames
      /\ recency \in Seq(FileTags \X Pages) /\ entries \in Seq(FileTags)
      /\ used \in SUBSET Frames /\ physical_memory \in [Frames -> Contents]
  BY MemoryTypes DEF MemoryInv
<1> PICK p : p = NextDirty
  OBVIOUS
<1>1. /\ Flushing
      /\ UNCHANGED <<policy, entries, recency, used, physical_memory, clock_pointer>>
  BY DEF FlushPage
<1>2. p \in PresentPages /\ PageAt(p).dirty
  BY <1>0, NextIsDirty DEF FlushPage, DirtyPages, Dirty
<1> PICK t, i : t = p[1] /\ i = p[2]
  OBVIOUS
<1>3. /\ t \in FileTags /\ i \in Pages /\ p = <<t, i>> /\ i \in 1..PageCount(t)
      /\ PageAt(p) \in pt_entry_t /\ PageAt(p).frame \in Frames
      /\ page_table[t][i] = PageAt(p)
  BY <1>0, <1>2, PresentPage DEF PageAt
<1>4. CASE BlockWritten(p) /\ UNCHANGED instr
           /\ page_table' = [page_table EXCEPT ![p[1]][p[2]].dirty = FALSE]
  <2>1. StoreTypes'
    <3>1. Disk!Write(p[1], p[2], physical_memory[PageAt(p).frame])
      BY <1>4 DEF BlockWritten
    <3>2. physical_memory[PageAt(p).frame] \in Contents
      BY <1>0, <1>3
    <3> QED
      BY <1>0, <1>3, <3>1, <3>2, StoreStep
  <2>2. PICK e \in pt_entry_t : /\ e.frame = PageAt(p).frame /\ e.dirty = FALSE
                                /\ page_table' = [page_table EXCEPT ![t][i] = e]
    <3> DEFINE e == [page_table[t][i] EXCEPT !.dirty = FALSE]
    <3>1. e \in pt_entry_t /\ e.frame = PageAt(p).frame /\ e.dirty = FALSE
      BY <1>3 DEF pt_entry_t
    <3>2. page_table' = [page_table EXCEPT ![t][i] = e]
      BY <1>0, <1>3, <1>4 DEF Tables
    <3> HIDE DEF e
    <3> QED
      BY <3>1, <3>2
  <2>3. e.frame # NoFrame
    BY <1>3, <2>2, MemoryAssumption DEF Frames
  <2>4. EntryWritten(page_table, t, i, e)
    <3>1. Extended(page_table)
      BY <1>0, BitsCleared
    <3> QED
      BY <1>0, <1>3, <2>2, <2>3, <3>1, EntryTables
  <2>5. /\ page_table' \in Tables /\ Bounded'
        /\ PresentPages' = PresentPages
        /\ \A q \in PresentPages \ {p} : /\ PageAt(q)'.frame = PageAt(q).frame
                                         /\ PageAt(q)'.dirty = PageAt(q).dirty
        /\ PageAt(p)' = e
        /\ \A u \in FileTags : PageCount(u)' = Len(page_table[u])
    BY <1>2, <1>3, <2>4 DEF EntryWritten
  <2>6. FramesExclusive'
    <3>1. \A q \in PresentPages : PageAt(q)'.frame = PageAt(q).frame
      BY <2>2, <2>5
    <3> QED
      BY <1>0, <1>1, <2>5, <3>1 DEF FramesExclusive
  <2>7. \A u \in FileTags : /\ PageCount(u) \in Nat /\ PageCount(u)' \in Nat
                            /\ PageCount(u) <= PageCount(u)'
    BY <1>0, <2>5 DEF PageCount, Tables
  <2>8. EntriesExact'
    <3>1. \A u \in FileTags : Len(page_table'[u]) > 0 <=> PageCount(u) > 0
      BY <2>5 DEF PageCount
    <3> QED
      BY <1>0, <1>1, <2>5, <3>1, EntriesKept
  <2>9. AccessInTable'
    BY <1>0, <1>4, <2>7, StillAccessing
  <2>10. TypeOK'
    <3>1. instr' = Idle \/ instr' \in Accesses \/ instr' \in Flushes
      BY <1>0, <1>4 DEF TypeOK
    <3> QED
      BY <1>0, <1>1, <2>5, <3>1, TypesTogether
  <2>11. Flushed(p)
    <3>1. Marked(p, FALSE)
      BY <1>2, <2>2, <2>5 DEF Marked
    <3> QED
      BY <1>1, <1>4, <3>1 DEF Flushed
  <2>12. Effect
    BY <1>2, <2>11 DEF Effect
  <2> QED
    BY <2>1, <2>5, <2>6, <2>8, <2>9, <2>10, <2>12 DEF MemoryInv
<1>5. CASE /\ BlockRefused(p) /\ UNCHANGED page_table
           /\ instr' = IF instr.op = "FLUSH ALL" THEN Idle ELSE [op |-> "FLUSH ALL"]
  <2>1. files' = files
    BY <1>5 DEF BlockRefused, Disk!Refuse
  <2>2. instr' = Idle \/ instr' \in Flushes
    BY <1>5, FlushAll
  <2>3. StoreTypes'
    BY <1>0, <1>3, <2>1, StoreStep
  <2>4. UNCHANGED <<policy, tables>> /\ clock_pointer' = clock_pointer
    BY <1>1, <1>5 DEF tables
  <2>5. MemoryInv' /\ Dropped({}) /\ physical_memory' = physical_memory
    BY <2>2, <2>3, <2>4, MemoryKept
  <2>6. Quiet
    BY <1>1, <2>1, <2>2, <2>5 DEF Quiet
  <2> QED
    BY <2>5, <2>6 DEF Effect
<1> QED
  BY <1>4, <1>5 DEF FlushPage

\* Nothing is left to write back.
LEMMA FlushDoneStep ==
    ASSUME MemoryInv, FlushDone
    PROVE  MemoryInv' /\ Effect
<1>0. TypeOK /\ StoreTypes /\ EntriesExact /\ page_table \in Tables /\ Protected \in FileTags
  BY MemoryTypes, MemoryAssumption DEF MemoryInv
<1>1. Flushing /\ DirtyPages = {} /\ UNCHANGED <<policy, tables>> /\ clock_pointer' = clock_pointer
  BY DEF FlushDone
<1>2. CASE instr' = Idle /\ UNCHANGED files
  <2>1. StoreTypes'
    BY <1>0, <1>2, StoreStep
  <2>2. MemoryInv' /\ Dropped({}) /\ physical_memory' = physical_memory
    BY <1>1, <1>2, <2>1, MemoryKept
  <2>3. Quiet
    BY <1>1, <1>2, <2>2 DEF Quiet
  <2> QED
    BY <2>2, <2>3 DEF Effect
<1>3. CASE instr.op = "COMMIT" /\ Disk!Commit(instr.t) /\ instr' = Idle
  <2>1. instr.t \in FileTags
    BY <1>0, <1>1, <1>3, MemoryTypes
  <2>2. StoreTypes'
    BY <1>0, <1>3, <2>1, StoreStep
  <2>3. MemoryInv' /\ Dropped({}) /\ physical_memory' = physical_memory
    BY <1>1, <1>3, <2>2, MemoryKept
  <2>4. ~Unflushed(instr.t)
    <3>1. ASSUME NEW i \in Pages, Dirty(<<instr.t, i>>) PROVE FALSE
      <4> PICK p : p = <<instr.t, i>>
        OBVIOUS
      <4>1. p \in PresentPages /\ p[1] = instr.t
        BY <3>1 DEF Dirty
      <4>2. p[2] \in 1..PageCount(p[1]) /\ PageCount(p[1]) \in Nat
        BY <1>0, <2>1, <4>1, PresentPage DEF PageCount, Tables
      <4>3. mm_has_page_table(instr.t)
        BY <4>1, <4>2 DEF mm_has_page_table, PageCount
      <4>4. instr.t \in ToSet(entries)
        BY <1>0, <2>1, <4>3 DEF EntriesExact
      <4>5. p \in DirtyPages
        BY <3>1, <4>1, <4>4 DEF DirtyPages
      <4> QED
        BY <1>1, <4>5
    <3> QED
      BY <3>1 DEF Unflushed
  <2>5. Committed
    BY <1>1, <1>3, <2>3, <2>4 DEF Committed
  <2> QED
    BY <2>3, <2>5 DEF Effect
<1>4. CASE Disk!Refuse /\ Fails
  <2>1. files' = files /\ instr' \in Flushes
    BY <1>4, FlushAll DEF Disk!Refuse, Fails
  <2>2. StoreTypes'
    BY <1>0, <2>1, StoreStep
  <2>3. MemoryInv' /\ Dropped({}) /\ physical_memory' = physical_memory
    BY <1>1, <2>1, <2>2, MemoryKept
  <2>4. Quiet
    BY <1>1, <2>1, <2>3 DEF Quiet
  <2> QED
    BY <2>3, <2>4 DEF Effect
<1> QED
  BY <1>2, <1>3, <1>4 DEF FlushDone, commit_file_in_storage

\* An instruction that leaves the tables alone: the Storage carries it out, or
\* it fails.
LEMMA RequestStep ==
    ASSUME MemoryInv, instr = Idle, UNCHANGED <<policy, tables>>,
           clock_pointer' = clock_pointer, NEW t \in FileTags,
           \/ /\ Disk!Create(t) \/ \E dst \in FileTags : Tagged(t, dst)
              /\ instr' = instr
           \/ files' = files /\ instr' \in Flushes
    PROVE  MemoryInv' /\ Effect
<1>0. StoreTypes
  BY DEF MemoryInv
<1>1. StoreTypes'
  BY <1>0, StoreStep DEF Tagged
<1>2. MemoryInv' /\ Dropped({}) /\ physical_memory' = physical_memory
  BY <1>1, MemoryKept
<1>3. CASE Disk!Create(t) /\ instr' = instr
  <2>1. Created(t)
    BY <1>2, <1>3 DEF Created
  <2>2. Executed
    BY <1>2, <1>3, <2>1 DEF Executed
  <2> QED
    BY <1>2, <2>2 DEF Effect
<1>4. CASE (\E dst \in FileTags : Tagged(t, dst)) /\ instr' = instr
  <2>1. Executed
    BY <1>2, <1>4 DEF Executed
  <2> QED
    BY <1>2, <2>1 DEF Effect
<1>5. CASE files' = files /\ instr' \in Flushes
  <2>1. Quiet
    BY <1>2, <1>5 DEF Quiet
  <2> QED
    BY <1>2, <2>1 DEF Effect
<1> QED
  BY <1>3, <1>4, <1>5

\* Whole pages, at most MaxBlocks of them.
LEMMA WholePages ==
    ASSUME NEW size \in 0..MaxBlocks * PageSize
    PROVE  /\ size \div PageSize \in 0..MaxBlocks
           /\ size % PageSize = 0 /\ size > 0 => size \div PageSize > 0
<1> PICK q, m : q = size \div PageSize /\ m = size % PageSize
  OBVIOUS
<1>0. MaxBlocks * PageSize \in Nat
  BY Sizes, Product
<1>1. q \in Nat /\ m \in 0..PageSize - 1 /\ size = PageSize * q + m
  BY <1>0, Sizes
<1>2. q <= MaxBlocks
  <2>1. SUFFICES ASSUME q >= MaxBlocks + 1 PROVE FALSE
    BY <1>1, Sizes
  <2>2. PageSize * q >= PageSize * (MaxBlocks + 1)
    BY <1>1, <2>1, Sizes
  <2>3. PageSize * (MaxBlocks + 1) = MaxBlocks * PageSize + PageSize
    BY Sizes
  <2> QED
    BY <1>0, <1>1, <2>2, <2>3, Sizes
<1>3. m = 0 /\ size > 0 => q > 0
  BY <1>1, Sizes
<1> QED
  BY <1>1, <1>2, <1>3, Sizes

\* TRUNCATE to n pages, or its failure.
Resized(t, n) ==
    /\ UNCHANGED <<policy, entries, used, physical_memory, clock_pointer>>
    /\ \/ files' = files /\ Fails /\ UNCHANGED <<page_table, recency>>
       \/ /\ Disk!Truncate(t, n) /\ instr' = instr
          /\ \/ /\ mm_has_page_table(t) /\ n > 0
                /\ page_table' = [page_table EXCEPT ![t] = pt_resize(@, n)]
                /\ recency' = Forgotten(recency, {p \in PresentPages : p[1] = t /\ p[2] > n})
             \/ /\ ~mm_has_page_table(t) \/ "TRUNCATE TO 0" \in Careless
                /\ UNCHANGED <<page_table, recency>>

\* To truncate to 0 what has a table is careless.
MayTruncate(t, size) ==
    size > 0 \/ ~mm_has_page_table(t) \/ "TRUNCATE TO 0" \in Careless

\* The size is a number of pages.
LEMMA TruncateCases ==
    ASSUME NEW t \in FileTags, NEW size \in 0..MaxBlocks * PageSize,
           MayTruncate(t, size), TRUNCATE(t, size)
    PROVE  \E n \in 0..MaxBlocks : Resized(t, n)
<1> DEFINE n == size \div PageSize
<1>1. n \in 0..MaxBlocks /\ (size % PageSize = 0 /\ size > 0 => n > 0)
  BY WholePages
<1>2. /\ UNCHANGED <<policy, entries, used, physical_memory, clock_pointer>>
      /\ \/ files' = files /\ Fails /\ UNCHANGED <<page_table, recency>>
         \/ /\ size % PageSize = 0 /\ Disk!Truncate(t, n) /\ instr' = instr
            /\ \/ /\ mm_has_page_table(t) /\ n > 0
                  /\ page_table' = [page_table EXCEPT ![t] = pt_resize(@, n)]
                  /\ recency' = Forgotten(recency, {p \in PresentPages : p[1] = t /\ p[2] > n})
               \/ /\ ~mm_has_page_table(t) \/ n = 0
                  /\ UNCHANGED <<page_table, recency>>
  BY DEF TRUNCATE, Disk!Refuse
<1> HIDE DEF n
<1>4. n = 0 => ~(n > 0)
  OBVIOUS
<1>5. size % PageSize = 0 /\ n = 0 =>
         ~mm_has_page_table(t) \/ "TRUNCATE TO 0" \in Careless
  BY <1>1, <1>4 DEF MayTruncate
<1>6. Resized(t, n)
  BY <1>2, <1>5 DEF Resized
<1> QED
  BY <1>1, <1>6

\* TRUNCATE.
LEMMA TruncateStep ==
    ASSUME MemoryInv, instr = Idle, NEW t \in FileTags, NEW n \in 0..MaxBlocks,
           Resized(t, n)
    PROVE  MemoryInv' /\ Effect
<1> DEFINE Cut == {p \in PresentPages : p[1] = t /\ p[2] > n}
<1>0. /\ TypeOK /\ StoreTypes /\ FramesExclusive /\ EntriesExact /\ Bounded
      /\ page_table \in Tables /\ clock_pointer \in Frames
      /\ recency \in Seq(FileTags \X Pages) /\ entries \in Seq(FileTags)
      /\ used \in SUBSET Frames /\ physical_memory \in [Frames -> Contents]
  BY MemoryTypes DEF MemoryInv
<1>1. UNCHANGED <<policy, entries, used, physical_memory, clock_pointer>>
  BY DEF Resized
<1>2. n \in Nat /\ n <= MaxBlocks
  BY Sizes
<1>3. CASE /\ Disk!Truncate(t, n) /\ UNCHANGED instr /\ n > 0
           /\ page_table' = [page_table EXCEPT ![t] = pt_resize(@, n)]
           /\ recency' = Forgotten(recency, Cut)
           /\ mm_has_page_table(t)
  <2>1. n \in Nat \ {0}
    BY <1>2, <1>3
  <2>2. page_table' = [page_table EXCEPT ![t] = pt_resize(@, n)]
    BY <1>3
  <2>3. /\ page_table' \in Tables /\ Bounded' /\ Dropped(Cut)
        /\ page_table'[t] # <<>>
        /\ \A u \in FileTags \ {t} : page_table'[u] = page_table[u]
    BY <1>0, <2>1, <2>2, CutTables
  <2> HIDE DEF Cut
  <2>4. FramesExclusive' /\ recency' \in Seq(FileTags \X Pages)
    <3>1. \A p \in PresentPages \ Cut : PageAt(p).frame \in used'
      BY <1>0, <1>1 DEF FramesExclusive
    <3> QED
      BY <1>0, <1>1, <1>3, <2>3, <3>1, FewerFrames
  <2>5. EntriesExact'
    <3>1. \A u \in FileTags : page_table'[u] # <<>> <=> page_table[u] # <<>>
      BY <1>3, <2>3 DEF mm_has_page_table
    <3>2. ToSet(entries)' = ToSet(entries) /\ IsInjective(entries)' = IsInjective(entries)
      BY <1>1 DEF ToSet, IsInjective
    <3> QED
      BY <1>0, <3>1, <3>2 DEF EntriesExact, mm_has_page_table
  <2>6. AccessInTable' /\ (instr' = Idle \/ instr' \in Accesses \/ instr' \in Flushes)
    BY <1>3, NotAccessing
  <2>7. TypeOK'
    BY <1>0, <1>1, <2>3, <2>4, <2>6, TypesTogether
  <2>8. StoreTypes'
    BY <1>0, <1>2, <1>3, StoreStep
  <2>9. Truncated(t, n)
    BY <1>3, <2>3 DEF Truncated, Cut
  <2>10. Executed
    BY <1>1, <1>2, <1>3, <2>9 DEF Executed
  <2> QED
    BY <2>3, <2>4, <2>5, <2>6, <2>7, <2>8, <2>10 DEF MemoryInv, Effect
<1>4. CASE /\ Disk!Truncate(t, n) /\ UNCHANGED instr
           /\ ~mm_has_page_table(t) \/ "TRUNCATE TO 0" \in Careless
           /\ UNCHANGED <<page_table, recency>>
  <2>1. UNCHANGED <<policy, tables>> /\ clock_pointer' = clock_pointer
    BY <1>1, <1>4 DEF tables
  <2>2. StoreTypes'
    BY <1>0, <1>2, <1>4, StoreStep
  <2>3. MemoryInv' /\ Dropped({}) /\ physical_memory' = physical_memory
    BY <1>4, <2>1, <2>2, MemoryKept
  <2>4. CASE ~mm_has_page_table(t)
    <3>1. Cut = {}
      <4>1. ASSUME NEW p \in PresentPages, p[1] = t PROVE FALSE
        <5>1. p[2] \in 1..PageCount(t)
          BY <1>0, <4>1, PresentPage
        <5>2. PageCount(t) = 0
          BY <2>4 DEF mm_has_page_table, PageCount
        <5> QED
          BY <5>1, <5>2
      <4> QED
        BY <4>1
    <3>2. Truncated(t, n)
      BY <1>4, <2>3, <3>1 DEF Truncated
    <3>3. Executed
      BY <1>2, <1>4, <2>3, <3>2 DEF Executed
    <3> QED
      BY <2>3, <3>3 DEF Effect
  <2>5. CASE mm_has_page_table(t)
    <3>1. "TRUNCATE TO 0" \in Careless
      BY <1>4, <2>5
    <3>2. Truncated(t, n)
      BY <1>4, <2>3, <3>1 DEF Truncated
    <3>3. Executed
      BY <1>2, <1>4, <2>3, <3>2 DEF Executed
    <3> QED
      BY <2>3, <3>3 DEF Effect
  <2> QED
    BY <2>4, <2>5
<1>5. CASE files' = files /\ Fails /\ UNCHANGED <<page_table, recency>>
  <2>1. UNCHANGED <<policy, tables>> /\ clock_pointer' = clock_pointer
    BY <1>1, <1>5 DEF tables
  <2>2. instr' \in Flushes
    BY <1>5, FlushAll DEF Fails
  <2> QED
    BY <1>5, <2>1, <2>2, RequestStep
<1> QED
  BY <1>3, <1>4, <1>5 DEF Resized

\* DELETE.
LEMMA DeleteStep ==
    ASSUME MemoryInv, instr = Idle, NEW t \in FileTags, DELETE(t)
    PROVE  MemoryInv' /\ Effect
<1> DEFINE gone == {p \in PresentPages : p[1] = t}
<1>0. /\ TypeOK /\ StoreTypes /\ FramesExclusive /\ EntriesExact /\ Bounded
      /\ page_table \in Tables /\ clock_pointer \in Frames
      /\ recency \in Seq(FileTags \X Pages) /\ entries \in Seq(FileTags)
      /\ used \in SUBSET Frames /\ physical_memory \in [Frames -> Contents]
  BY MemoryTypes DEF MemoryInv
<1>1. /\ page_table' = [page_table EXCEPT ![t] = <<>>]
      /\ entries' = IF mm_has_page_table(t) THEN EntriesWithout(t) ELSE entries
      /\ recency' = Forgotten(recency, gone)
      /\ delete_file_in_storage(t)
      /\ UNCHANGED <<policy, used, physical_memory, clock_pointer>>
  BY DEF DELETE
<1>2. /\ page_table' \in Tables /\ Bounded' /\ Dropped(gone)
      /\ page_table'[t] = <<>>
      /\ \A u \in FileTags \ {t} : page_table'[u] = page_table[u]
  BY <1>0, <1>1, DeletedTables
<1> HIDE DEF gone
<1>3. FramesExclusive' /\ recency' \in Seq(FileTags \X Pages)
  <2>1. \A p \in PresentPages \ gone : PageAt(p).frame \in used'
    BY <1>0, <1>1 DEF FramesExclusive
  <2> QED
    BY <1>0, <1>1, <1>2, <2>1, FewerFrames
<1>4. entries' \in Seq(FileTags) /\ EntriesExact'
  <2>1. CASE mm_has_page_table(t)
    BY <1>0, <1>1, <1>2, <2>1, EntriesRemoved
  <2>2. CASE ~mm_has_page_table(t)
    <3>1. entries' = entries
      BY <1>1, <2>2
    <3>2. \A u \in FileTags : page_table'[u] # <<>> <=> page_table[u] # <<>>
      BY <1>2, <2>2 DEF mm_has_page_table
    <3>3. ToSet(entries)' = ToSet(entries) /\ IsInjective(entries)' = IsInjective(entries)
      BY <3>1 DEF ToSet, IsInjective
    <3> QED
      BY <1>0, <3>1, <3>2, <3>3 DEF EntriesExact, mm_has_page_table
  <2> QED
    BY <2>1, <2>2
<1>5. \/ Disk!Delete(t) /\ instr' = instr
      \/ /\ StorageFull \/ ~Disk!Exists(t) \/ t = Protected
         /\ files' = files /\ Fails /\ instr' \in Flushes
  BY <1>1, FlushAll DEF delete_file_in_storage, Disk!Refuse, Fails
<1>6. AccessInTable' /\ (instr' = Idle \/ instr' \in Accesses \/ instr' \in Flushes)
  BY <1>5, NotAccessing
<1>7. TypeOK'
  BY <1>0, <1>1, <1>2, <1>3, <1>4, <1>6, TypesTogether
<1>8. StoreTypes'
  BY <1>0, <1>5, StoreStep
<1>9. Effect
  <2>1. CASE Disk!Delete(t) /\ instr' = instr
    <3>1. Deleted(t)
      BY <1>2, <2>1 DEF Deleted, gone
    <3>2. Executed
      BY <1>1, <2>1, <3>1 DEF Executed
    <3> QED
      BY <3>2 DEF Effect
  <2>2. CASE /\ StorageFull \/ ~Disk!Exists(t) \/ t = Protected
             /\ files' = files /\ Fails /\ instr' \in Flushes
    <3>1. NotDeleted(t)
      BY <1>1, <1>2, <2>2 DEF NotDeleted, gone
    <3> QED
      BY <3>1 DEF Effect
  <2> QED
    BY <1>5, <2>1, <2>2
<1> QED
  BY <1>2, <1>3, <1>4, <1>6, <1>7, <1>8, <1>9 DEF MemoryInv

\* An access that begins at a page and an offset, or fails.
Begun(op, t, base, size, byte, first, rest) ==
    /\ entries' = EntriesWith(t)
    /\ \/ page_table' = TablesWith(t, 1) /\ Fails
       \/ /\ size > 0
          /\ page_table' = TablesWith(t, first)
          /\ instr' = [op |-> op, t |-> t, base |-> base, size |-> size, byte |-> byte,
                       page |-> first, offset |-> rest, left |-> size]
    /\ UNCHANGED <<files, policy, recency, used, physical_memory, clock_pointer>>

\* Addresses are natural numbers.
LEMMA BaseIsNumber ==
    ASSUME NEW base \in Bases
    PROVE  base \in Nat
<1> PICK m : m = MaxBlocks * PageSize
  OBVIOUS
<1>1. m \in Nat
  BY Sizes, Product
<1>2. base \in 0..m - 1
  BY MemoryAssumption
<1> QED
  BY <1>1, <1>2

\* Dividing an address gives its page and its offset.
LEMMA Divided ==
    ASSUME NEW base \in Nat
    PROVE  /\ base \div PageSize + 1 \in Nat \ {0}
           /\ base % PageSize \in Offsets
           /\ Address(base, base \div PageSize + 1, base % PageSize)
<1> PICK q, m : q = base \div PageSize /\ m = base % PageSize
  OBVIOUS
<1>1. q \in Nat /\ m \in 0..PageSize - 1 /\ base = PageSize * q + m
  BY Sizes
<1>2. q + 1 \in Nat \ {0} /\ (q + 1) - 1 = q
  BY <1>1
<1>3. PageSize * q = q * PageSize
  BY <1>1, Sizes
<1>4. Address(base, q + 1, m)
  BY <1>1, <1>2, <1>3 DEF Address, Addr
<1> QED
  BY <1>1, <1>2, <1>4 DEF Offsets

\* An access begins where its address is.
LEMMA AccessCases ==
    ASSUME NEW op, NEW t, NEW base \in Bases, NEW size, NEW byte,
           Access(op, t, base, size, byte)
    PROVE  \E first \in Nat \ {0}, rest \in Offsets :
              Address(base, first, rest) /\ Begun(op, t, base, size, byte, first, rest)
<1> DEFINE first == base \div PageSize + 1
           rest == base % PageSize
<1>1. first \in Nat \ {0} /\ rest \in Offsets /\ Address(base, first, rest)
  BY BaseIsNumber, Divided
<1>2. Address(base, first, rest)
  BY <1>1
<1>3. Begun(op, t, base, size, byte, first, rest)
  BY DEF Access, Begun
<1> HIDE DEF first, rest
<1> QED
  BY <1>1, <1>2, <1>3

\* READ and WRITE.
LEMMA AccessStep ==
    ASSUME MemoryInv, instr = Idle, NEW t \in FileTags, NEW op \in {"READ", "WRITE"},
           NEW base \in Bases, NEW size \in 0..MaxAccess, NEW byte \in Bytes,
           MayAccess(op, t), NEW first \in Nat \ {0}, NEW rest \in Offsets,
           Address(base, first, rest), Begun(op, t, base, size, byte, first, rest)
    PROVE  MemoryInv' /\ Effect
<1>0. /\ TypeOK /\ StoreTypes /\ FramesExclusive /\ EntriesExact /\ Bounded
      /\ page_table \in Tables /\ clock_pointer \in Frames
      /\ recency \in Seq(FileTags \X Pages) /\ entries \in Seq(FileTags)
      /\ used \in SUBSET Frames /\ physical_memory \in [Frames -> Contents]
  BY MemoryTypes DEF MemoryInv
<1>1. /\ entries' = EntriesWith(t)
      /\ UNCHANGED <<files, policy, recency, used, physical_memory, clock_pointer>>
  BY DEF Begun
<1>2. size \in Nat
  BY Sizes
<1>3. StoreTypes'
  BY <1>0, <1>1, StoreStep
<1>4. PICK n \in Nat \ {0} :
         /\ page_table' = TablesWith(t, n)
         /\ \/ instr' \in Flushes
            \/ /\ n = first /\ size > 0
               /\ instr' = [op |-> op, t |-> t, base |-> base, size |-> size,
                            byte |-> byte, page |-> first,
                            offset |-> rest, left |-> size]
  <2>1. CASE page_table' = TablesWith(t, 1) /\ Fails
    <3>1. instr' \in Flushes
      BY <2>1, FlushAll DEF Fails
    <3>2. 1 \in Nat \ {0}
      OBVIOUS
    <3> QED
      BY <2>1, <3>1, <3>2
  <2>2. CASE /\ size > 0 /\ page_table' = TablesWith(t, first)
             /\ instr' = [op |-> op, t |-> t, base |-> base, size |-> size,
                          byte |-> byte, page |-> first,
                          offset |-> rest, left |-> size]
    BY <2>2
  <2> QED
    BY <2>1, <2>2 DEF Begun
<1>5. /\ Extended(TablesWith(t, n)) /\ n <= Len(TablesWith(t, n)[t])
      /\ \A u \in FileTags \ {t} : TablesWith(t, n)[u] = page_table[u]
  BY <1>0, GrownTables
<1>6. page_table' \in Tables /\ Bounded' /\ Dropped({}) /\ FramesExclusive'
  BY <1>1, <1>4, <1>5, TablesKept
<1>7. /\ n <= Len(page_table'[t]) /\ Len(page_table'[t]) \in Nat
      /\ \A u \in FileTags \ {t} : page_table'[u] = page_table[u]
  BY <1>4, <1>5, <1>6 DEF Tables
<1>8. entries' \in Seq(FileTags) /\ EntriesExact'
  <2>1. page_table'[t] # <<>>
    BY <1>7
  <2> QED
    BY <1>0, <1>1, <1>7, <2>1, EntriesAdded
<1>9. CASE instr' \in Flushes
  <2>1. AccessInTable' /\ (instr' = Idle \/ instr' \in Accesses \/ instr' \in Flushes)
    BY <1>9, NotAccessing
  <2>2. TypeOK'
    BY <1>0, <1>1, <1>6, <1>8, <2>1, TypesTogether
  <2>3. Quiet
    BY <1>1, <1>6, <1>9 DEF Quiet
  <2> QED
    BY <1>3, <1>6, <1>8, <2>1, <2>2, <2>3 DEF MemoryInv, Effect
<1>10. CASE /\ n = first /\ size > 0
            /\ instr' = [op |-> op, t |-> t, base |-> base, size |-> size,
                         byte |-> byte, page |-> first,
                         offset |-> rest, left |-> size]
  <2>2. /\ instr'.op = op /\ instr'.t = t /\ instr'.base = base /\ instr'.size = size
        /\ instr'.page = first /\ instr'.offset = rest /\ instr'.left = size
    BY <1>10
  <2>3. instr' \in Accesses
    BY <1>2, <1>10 DEF Accesses
  <2>4. AccessInTable'
    <3>1. instr'.page \in 1..Len(page_table'[instr'.t]) /\ instr'.left > 0
      BY <1>2, <1>7, <1>10, <2>2
    <3> QED
      BY <3>1 DEF AccessInTable, PageCount
  <2>5. TypeOK'
    BY <1>0, <1>1, <1>6, <1>8, <2>3, TypesTogether
  <2>6. Started
    BY <1>10, <2>2, <2>3 DEF Started
  <2>7. Quiet
    BY <1>1, <1>6, <2>6 DEF Quiet
  <2> QED
    BY <1>3, <1>6, <1>8, <2>4, <2>5, <2>7 DEF MemoryInv, Effect
<1> QED
  BY <1>4, <1>9, <1>10

\* Any instruction.
LEMMA ExecuteStep ==
    ASSUME MemoryInv, execute_instruction
    PROVE  MemoryInv' /\ Effect
<1>0. instr = Idle
  BY DEF execute_instruction
<1>1. PICK t \in FileTags :
         \/ create_file_in_storage(t)
         \/ \E size \in 0..MaxBlocks * PageSize : MayTruncate(t, size) /\ TRUNCATE(t, size)
         \/ \E dst \in FileTags : /\ ~Unflushed(t) \/ "TAG UNFLUSHED" \in Careless
                                  /\ fork_file_in_storage(t, dst)
         \/ DELETE(t)
         \/ \E base \in Bases, size \in 0..MaxAccess :
               \/ Access("READ", t, base, size, Zero)
               \/ /\ ~Closed(t) \/ "WRITE COMMITTED" \in Careless
                  /\ \E byte \in Bytes \ {Zero} : Access("WRITE", t, base, size, byte)
         \/ StartFlush(t)
         \/ StartCommit(t)
  BY DEF execute_instruction, MayTruncate
<1>2. CASE create_file_in_storage(t)
  <2>1. /\ UNCHANGED <<policy, tables>> /\ clock_pointer' = clock_pointer
        /\ \/ Disk!Create(t) /\ instr' = instr
           \/ files' = files /\ instr' \in Flushes
    BY <1>2, FlushAll DEF create_file_in_storage, Disk!Refuse, Fails
  <2> QED
    BY <1>0, <2>1, RequestStep
<1>3. ASSUME NEW size \in 0..MaxBlocks * PageSize, MayTruncate(t, size), TRUNCATE(t, size)
      PROVE  MemoryInv' /\ Effect
  BY <1>0, <1>3, TruncateCases, TruncateStep
<1>4. ASSUME NEW dst \in FileTags, ~Unflushed(t) \/ "TAG UNFLUSHED" \in Careless,
             fork_file_in_storage(t, dst)
      PROVE  MemoryInv' /\ Effect
  <2>1. /\ UNCHANGED <<policy, tables>> /\ clock_pointer' = clock_pointer
        /\ \/ Disk!Tag(t, dst) /\ instr' = instr
           \/ files' = files /\ instr' \in Flushes
    BY <1>4, FlushAll DEF fork_file_in_storage, Disk!Refuse, Fails
  <2>2. StoreTypes
    BY DEF MemoryInv
  <2>3. CASE Disk!Tag(t, dst) /\ instr' = instr
    <3>1. StoreTypes'
      BY <2>2, <2>3, StoreStep
    <3>2. Dropped({})
      BY <2>1, <2>3, <3>1, MemoryKept
    <3>3. Tagged(t, dst)
      BY <1>4, <2>3, <3>2 DEF Tagged
    <3> QED
      BY <1>0, <2>1, <2>3, <3>3, RequestStep
  <2>4. CASE files' = files /\ instr' \in Flushes
    BY <1>0, <2>1, <2>4, RequestStep
  <2> QED
    BY <2>1, <2>3, <2>4
<1>5. CASE DELETE(t)
  BY <1>0, <1>5, DeleteStep
<1>6. ASSUME NEW op \in {"READ", "WRITE"}, NEW base \in Bases, NEW size \in 0..MaxAccess,
             NEW byte \in Bytes, MayAccess(op, t), Access(op, t, base, size, byte)
      PROVE  MemoryInv' /\ Effect
  BY <1>0, <1>6, AccessCases, AccessStep
<1>7. ASSUME NEW base \in Bases, NEW size \in 0..MaxAccess,
             \/ Access("READ", t, base, size, Zero)
             \/ /\ ~Closed(t) \/ "WRITE COMMITTED" \in Careless
                /\ \E byte \in Bytes \ {Zero} : Access("WRITE", t, base, size, byte)
      PROVE  MemoryInv' /\ Effect
  <2>1. CASE Access("READ", t, base, size, Zero)
    <3>1. MayAccess("READ", t) /\ Zero \in Bytes
      BY MemoryAssumption DEF MayAccess
    <3> QED
      BY <1>6, <2>1, <3>1
  <2>2. ASSUME ~Closed(t) \/ "WRITE COMMITTED" \in Careless, NEW byte \in Bytes,
               Access("WRITE", t, base, size, byte)
        PROVE  MemoryInv' /\ Effect
    <3>1. MayAccess("WRITE", t)
      BY <2>2 DEF MayAccess
    <3> QED
      BY <1>6, <2>2, <3>1
  <2> QED
    BY <1>7, <2>1, <2>2
<1>8. CASE StartFlush(t) \/ StartCommit(t)
  <2>1. [op |-> "FLUSH", t |-> t] \in Flushes /\ [op |-> "COMMIT", t |-> t] \in Flushes
    BY DEF Flushes
  <2>2. /\ UNCHANGED <<policy, tables>> /\ clock_pointer' = clock_pointer
        /\ files' = files /\ instr' \in Flushes
    BY <1>8, <2>1 DEF StartFlush, StartCommit
  <2> QED
    BY <1>0, <2>2, RequestStep
<1> QED
  BY <1>1, <1>2, <1>3, <1>4, <1>5, <1>7, <1>8

\* A step keeps the invariant, and is one of the effects.
LEMMA MemoryStep ==
    ASSUME MemoryInv, [Next]_vars
    PROVE  MemoryInv' /\ (Effect \/ UNCHANGED vars)
<1>1. CASE execute_instruction
  BY <1>1, ExecuteStep
<1>2. CASE StartEviction
  <2>1. /\ instr = Idle /\ UNCHANGED <<policy, tables>> /\ clock_pointer' = clock_pointer
        /\ files' = files /\ instr' \in Flushes
    BY <1>2, FlushAll DEF StartEviction
  <2>2. Protected \in FileTags
    BY MemoryAssumption
  <2> QED
    BY <2>1, <2>2, RequestStep
<1>3. CASE mm_allocate_frame
  BY <1>3, AllocateStep
<1>4. CASE mm_handle_page_fault
  BY <1>4, FaultStep
<1>5. CASE CopyBytes
  BY <1>5, CopyStep
<1>6. CASE FlushPage
  BY <1>6, FlushStep
<1>7. CASE FlushDone
  BY <1>7, FlushDoneStep
<1>8. CASE UNCHANGED vars
  <2>1. /\ UNCHANGED <<policy, tables>> /\ clock_pointer' = clock_pointer
        /\ files' = files /\ instr' = instr
    BY <1>8 DEF vars
  <2>2. StoreTypes'
    BY <2>1 DEF MemoryInv, StoreTypes
  <2> QED
    BY <1>8, <2>1, <2>2, MemoryKept
<1> QED
  BY <1>1, <1>2, <1>3, <1>4, <1>5, <1>6, <1>7, <1>8 DEF Next, Continue

\* What mm_create leaves.
LEMMA MemoryStart ==
    ASSUME Init
    PROVE  MemoryInv
<1>1. page_table = [t \in FileTags |-> <<>>]
  BY DEF Init
<1>2. PresentPages = {}
  <2>1. \A t \in FileTags : PageCount(t) = 0
    BY <1>1 DEF PageCount
  <2>2. \A t \in FileTags : \A i : ~Present(t, i)
    BY <2>1 DEF Present
  <2> QED
    BY <2>2 DEF PresentPages
<1>3. entries = <<>> /\ recency = <<>> /\ ToSet(entries) = {} /\ ToSet(recency) = {}
      /\ IsInjective(entries) /\ IsInjective(recency)
  <2>1. entries = <<>> /\ recency = <<>>
    BY DEF Init
  <2> QED
    BY <2>1 DEF ToSet, IsInjective
<1>4. FramesExclusive
  BY <1>2, <1>3 DEF FramesExclusive
<1>5. EntriesExact
  BY <1>1, <1>3 DEF EntriesExact, mm_has_page_table
<1>6. Bounded
  <2>1. \A t \in FileTags : PageCount(t) = 0
    BY <1>1 DEF PageCount
  <2> QED
    BY <2>1 DEF Bounded
<1>7. AccessInTable
  BY DEF Init, AccessInTable, Accessing
<1>8. TypeOK
  <2>1. Zeros \in Contents
    BY MemoryAssumption DEF Zeros, Contents
  <2>2. 0 \in Frames
    BY Sizes DEF Frames
  <2> QED
    BY <1>1, <1>3, <2>1, <2>2 DEF Init, TypeOK
<1>9. StoreTypes
  <2>1. Zeros \in Contents
    BY MemoryAssumption DEF Zeros, Contents
  <2>2. <<Zeros>> \in Seq(Contents) /\ Len(<<Zeros>>) <= MaxBlocks
    BY <2>1, Sizes
  <2>3. Disk!Stored(<<Zeros>>, TRUE) \in StoredFiles
    BY <2>2, StoredIsFile
  <2> QED
    BY <2>3 DEF Init, Disk!Init, StoreTypes
<1> QED
  BY <1>4, <1>5, <1>6, <1>7, <1>8, <1>9 DEF MemoryInv

\* The invariant holds of every behaviour.
LEMMA MemoryAlways == Spec => []MemoryInv
<1>1. MemoryInv /\ [Next]_vars => MemoryInv'
  BY MemoryStep
<1> QED
  BY MemoryStart, <1>1, PTL DEF Spec

\* Tables, frames and the instruction of a Worker are always what the code's
\* types let them be: an index into the frames is an index of a frame, and no
\* page that cannot be is present.
THEOREM MemoryTypeCorrect == Spec => []TypeOK
<1>1. MemoryInv => TypeOK
  BY DEF MemoryInv
<1> QED
  BY MemoryAlways, <1>1, PTL

\* Whatever is evicted, cut off or deleted, two pages are never in the same
\* frame, the frame of a page is in use, and LRU knows exactly the present
\* pages.
THEOREM FramesExclusiveCorrect == Spec => []FramesExclusive
<1>1. MemoryInv => FramesExclusive
  BY DEF MemoryInv
<1> QED
  BY MemoryAlways, <1>1, PTL

-----------------------------------------------------------------------------
(* Pages and blocks, as long as queries keep to the contract.              *)

\* A present page has a block.  A clean one holds what its block holds, and
\* one that is dirty may still be written back.
PageGood(p) ==
    /\ Disk!Exists(p[1])
    /\ p[2] \in DOMAIN files[p[1]].data
    /\ IF PageAt(p).dirty THEN ~files[p[1]].committed
       ELSE physical_memory[PageAt(p).frame] = files[p[1]].data[p[2]]

PagesGood == \A p \in PresentPages : PageGood(p)

\* What a WRITE writes to is not committed meanwhile.
WriteOpen == Accessing /\ instr.op = "WRITE" => ~Closed(instr.t)

CarefulInv == PagesGood /\ WriteOpen /\ Closed(Protected)

\* The block of p is there and as it was.
BlockKept(p) ==
    /\ files'[p[1]] # NoFile
    /\ p[2] \in DOMAIN files'[p[1]].data
    /\ files'[p[1]].data[p[2]] = files[p[1]].data[p[2]]
    /\ PageAt(p).dirty => ~files'[p[1]].committed

\* A page that stays in its frame with its block is good as before.
LEMMA GoodKept ==
    ASSUME NEW p, PageGood(p), BlockKept(p),
           PageAt(p)'.frame = PageAt(p).frame, PageAt(p)'.dirty = PageAt(p).dirty,
           physical_memory'[PageAt(p).frame] = physical_memory[PageAt(p).frame]
    PROVE  PageGood(p)'
  BY DEF PageGood, BlockKept, Disk!Exists

\* The blocks of a File:Tag that does not change are kept.
LEMMA SameBlocks ==
    ASSUME NEW p, PageGood(p), files'[p[1]] = files[p[1]]
    PROVE  BlockKept(p)
  BY DEF PageGood, BlockKept, Disk!Exists

\* A request changes one File:Tag.
LEMMA OneChanged ==
    ASSUME StoreTypes, NEW t \in FileTags, NEW file, Disk!Changed(t, file)
    PROVE  files'[t] = file /\ \A u \in FileTags \ {t} : files'[u] = files[u]
  BY DEF StoreTypes, Disk!Changed

\* Writing a page back: its block is what the frame holds, and all others are
\* kept.
LEMMA BlockWrittenBack ==
    ASSUME MemoryInv, PagesGood, NEW p \in PresentPages, BlockWritten(p)
    PROVE  /\ Disk!Open(p[1])
           /\ files'[p[1]] # NoFile /\ ~files'[p[1]].committed
           /\ p[2] \in DOMAIN files'[p[1]].data
           /\ files'[p[1]].data[p[2]] = physical_memory[PageAt(p).frame]
           /\ files'[p[1]].data \in Seq(Contents)
           /\ Len(files'[p[1]].data) = Len(files[p[1]].data)
           /\ \A i \in DOMAIN files[p[1]].data \ {p[2]} :
                 files'[p[1]].data[i] = files[p[1]].data[i]
           /\ \A u \in FileTags \ {p[1]} : files'[u] = files[u]
           /\ \A q \in PresentPages \ {p} : BlockKept(q)
<1> PICK t, i, c, d : /\ t = p[1] /\ i = p[2] /\ c = physical_memory[PageAt(p).frame]
                      /\ d = [files[t].data EXCEPT ![i] = c]
  OBVIOUS
<1>0. /\ StoreTypes /\ page_table \in Tables
      /\ physical_memory \in [Frames -> Contents]
  BY MemoryTypes DEF MemoryInv
<1>1. t \in FileTags /\ c \in Contents /\ p = <<t, i>>
  BY <1>0, PresentPage
<1>2. /\ Disk!Open(t) /\ i \in DOMAIN files[t].data
      /\ Disk!Changed(t, Disk!Stored(d, FALSE))
  BY DEF BlockWritten, Disk!Write
<1>3. /\ files[t].data \in Seq(Contents) /\ DOMAIN files[t].data = 1..Len(files[t].data)
      /\ Len(files[t].data) \in Nat
  BY <1>0, <1>1, <1>2, StoredFile DEF Disk!Open
<1>4. /\ d \in Seq(Contents) /\ Len(d) = Len(files[t].data) /\ d[i] = c
      /\ DOMAIN d = DOMAIN files[t].data
      /\ \A j \in DOMAIN files[t].data \ {i} : d[j] = files[t].data[j]
  BY <1>1, <1>2, <1>3
<1>5. files'[t] = Disk!Stored(d, FALSE) /\ \A u \in FileTags \ {t} : files'[u] = files[u]
  BY <1>0, <1>1, <1>2, OneChanged
<1>6. files'[t] # NoFile /\ files'[t].data = d /\ files'[t].committed = FALSE
  BY <1>4, <1>5, StoredIsFile
<1>7. ASSUME NEW q \in PresentPages, q # p PROVE BlockKept(q)
  <2>1. q[1] \in FileTags /\ q = <<q[1], q[2]>> /\ PageGood(q)
    BY <1>0, PresentPage DEF PagesGood
  <2>2. CASE q[1] = t
    <3>1. q[2] \in DOMAIN files[t].data /\ q[2] # i
      BY <1>1, <1>7, <2>1, <2>2 DEF PageGood
    <3> QED
      BY <1>4, <1>6, <2>2, <3>1 DEF BlockKept
  <2>3. CASE q[1] # t
    BY <1>5, <2>1, <2>3, SameBlocks
  <2> QED
    BY <2>2, <2>3
<1> QED
  BY <1>2, <1>4, <1>5, <1>6, <1>7

\* Pages that go leave the others good, if those keep their blocks.
LEMMA GoodDropped ==
    ASSUME PagesGood, NEW gone, Dropped(gone), physical_memory' = physical_memory,
           \A p \in PresentPages \ gone : BlockKept(p)
    PROVE  PagesGood'
<1>1. ASSUME NEW p \in PresentPages \ gone PROVE PageGood(p)'
  <2>1. PageGood(p) /\ BlockKept(p)
    BY DEF PagesGood
  <2>2. PageAt(p)'.frame = PageAt(p).frame /\ PageAt(p)'.dirty = PageAt(p).dirty
    BY DEF Dropped
  <2> QED
    BY <2>1, <2>2, GoodKept
<1>2. PresentPages' = PresentPages \ gone
  BY DEF Dropped
<1> QED
  BY <1>1, <1>2 DEF PagesGood

\* Nothing happens to blocks.
LEMMA BlocksKept ==
    ASSUME PagesGood, files' = files
    PROVE  \A p \in PresentPages : BlockKept(p)
  BY SameBlocks DEF PagesGood

\* Loading a page.
LEMMA LoadedGood ==
    ASSUME MemoryInv, PagesGood, NEW t \in FileTags, NEW i \in Pages, NEW f \in Frames,
           Loaded(t, i, f)
    PROVE  PagesGood'
<1> PICK x : x = <<t, i>>
  OBVIOUS
<1>0. page_table \in Tables /\ FramesExclusive /\ physical_memory \in [Frames -> Contents]
  BY MemoryTypes DEF MemoryInv
<1>1. x[1] = t /\ x[2] = i
  OBVIOUS
<1>2. /\ Disk!Exists(t) /\ i \in DOMAIN files[t].data /\ f \notin used
      /\ PresentPages' = PresentPages \cup {x}
      /\ \A p \in PresentPages : /\ PageAt(p)'.frame = PageAt(p).frame
                                 /\ PageAt(p)'.dirty = PageAt(p).dirty
      /\ PageAt(x)'.frame = f /\ PageAt(x)'.dirty = FALSE
      /\ physical_memory' = [physical_memory EXCEPT ![f] = files[t].data[i]]
      /\ files' = files
  BY DEF Loaded
<1>3. PageGood(x)'
  <2>1. physical_memory'[f] = files'[t].data[i]
    BY <1>0, <1>2
  <2>2. files'[t] # NoFile /\ i \in DOMAIN files'[t].data
    BY <1>2 DEF Disk!Exists
  <2> QED
    BY <1>1, <1>2, <2>1, <2>2 DEF PageGood, Disk!Exists
<1>4. ASSUME NEW p \in PresentPages PROVE PageGood(p)'
  <2>1. PageAt(p).frame \in Frames /\ PageAt(p).frame # f
    BY <1>0, <1>2, PresentPage DEF FramesExclusive
  <2>2. physical_memory'[PageAt(p).frame] = physical_memory[PageAt(p).frame]
    BY <1>0, <1>2, <2>1
  <2>3. PageGood(p) /\ BlockKept(p)
    BY <1>2, BlocksKept DEF PagesGood
  <2> QED
    BY <1>2, <2>2, <2>3, GoodKept
<1> QED
  BY <1>2, <1>3, <1>4 DEF PagesGood

\* What copying does to the frames.
LEMMA CopiedFrames ==
    ASSUME MemoryInv, NEW x \in PresentPages, Copied(x)
    PROVE  /\ \A p \in PresentPages \ {x} :
                 physical_memory'[PageAt(p).frame] = physical_memory[PageAt(p).frame]
           /\ \A o \in Offsets :
                 physical_memory'[PageAt(x).frame][o] =
                     IF instr.op = "WRITE"
                        /\ o \in instr.offset..instr.offset + bytes_to_copy - 1
                     THEN instr.byte ELSE physical_memory[PageAt(x).frame][o]
           /\ instr.op # "WRITE" => physical_memory' = physical_memory
<1> PICK f, w : /\ f = PageAt(x).frame
                /\ w = [o \in Offsets |->
                          IF instr.op = "WRITE"
                             /\ o \in instr.offset..instr.offset + bytes_to_copy - 1
                          THEN instr.byte ELSE physical_memory[f][o]]
  OBVIOUS
<1>0. page_table \in Tables /\ FramesExclusive /\ physical_memory \in [Frames -> Contents]
  BY MemoryTypes DEF MemoryInv
<1>1. f \in Frames
  BY <1>0, PresentPage
<1>2. physical_memory' = [physical_memory EXCEPT ![f] = w]
  BY DEF Copied
<1>3. physical_memory'[f] = w
  BY <1>0, <1>1, <1>2
<1>4. ASSUME NEW p \in PresentPages \ {x}
      PROVE  physical_memory'[PageAt(p).frame] = physical_memory[PageAt(p).frame]
  <2>1. PageAt(p).frame \in Frames /\ PageAt(p).frame # f
    BY <1>0, PresentPage DEF FramesExclusive
  <2> QED
    BY <1>0, <1>1, <1>2, <2>1
<1>5. ASSUME instr.op # "WRITE" PROVE physical_memory' = physical_memory
  <2>1. physical_memory[f] \in [Offsets -> Bytes]
    BY <1>0, <1>1 DEF Contents
  <2>2. w = physical_memory[f]
    BY <1>5, <2>1
  <2> QED
    BY <1>0, <1>1, <1>2, <2>2
<1> QED
  BY <1>3, <1>4, <1>5

\* Copying bytes.
LEMMA CopiedGood ==
    ASSUME MemoryInv, CarefulInv, NEW x \in PresentPages, Copied(x)
    PROVE  PagesGood'
<1>0. PagesGood /\ WriteOpen /\ page_table \in Tables
  BY MemoryTypes DEF MemoryInv, CarefulInv
<1>1. /\ instr \in Accesses /\ x = <<instr.t, instr.page>>
      /\ PresentPages' = PresentPages
      /\ \A p \in PresentPages : PageAt(p)'.frame = PageAt(p).frame
      /\ \A p \in PresentPages \ {x} : PageAt(p)'.dirty = PageAt(p).dirty
      /\ PageAt(x)'.dirty = (PageAt(x).dirty \/ instr.op = "WRITE")
      /\ files' = files
  BY DEF Copied, Marked
<1>2. ASSUME NEW p \in PresentPages PROVE PageGood(p) /\ BlockKept(p)
  BY <1>0, <1>1, BlocksKept DEF PagesGood
<1>3. ASSUME NEW p \in PresentPages \ {x} PROVE PageGood(p)'
  BY <1>1, <1>2, CopiedFrames, GoodKept
<1>4. CASE instr.op # "WRITE"
  <2>1. physical_memory' = physical_memory
    BY <1>4, CopiedFrames
  <2>2. PageAt(x)'.dirty = PageAt(x).dirty
    <3>1. PageAt(x).dirty \in BOOLEAN
      BY <1>0, PresentPage
    <3> QED
      BY <1>1, <1>4, <3>1
  <2>3. PageGood(x)'
    BY <1>1, <1>2, <2>1, <2>2, GoodKept
  <2> QED
    BY <1>1, <1>3, <2>3 DEF PagesGood
<1>5. CASE instr.op = "WRITE"
  <2>1. x[1] = instr.t /\ Disk!Exists(x[1]) /\ x[2] \in DOMAIN files[x[1]].data
    BY <1>1, <1>2 DEF PageGood
  <2>2. Accessing
    BY DEF Copied
  <2>3. ~files[x[1]].committed
    BY <1>0, <1>5, <2>1, <2>2 DEF WriteOpen, Closed
  <2>4. PageAt(x)'.dirty = TRUE
    BY <1>1, <1>5
  <2>5. PageGood(x)'
    BY <1>1, <2>1, <2>3, <2>4 DEF PageGood, Disk!Exists
  <2> QED
    BY <1>1, <1>3, <2>5 DEF PagesGood
<1> QED
  BY <1>4, <1>5

\* Writing a page back, and keeping or dropping it.
LEMMA WrittenGood ==
    ASSUME MemoryInv, PagesGood, NEW p \in PresentPages, BlockWritten(p),
           physical_memory' = physical_memory, Dropped({p}) \/ Marked(p, FALSE)
    PROVE  PagesGood'
<1>1. \A q \in PresentPages \ {p} : BlockKept(q)
  BY BlockWrittenBack
<1>2. CASE Dropped({p})
  BY <1>1, <1>2, GoodDropped
<1>3. CASE Marked(p, FALSE)
  <2>1. /\ PresentPages' = PresentPages
        /\ \A q \in PresentPages : PageAt(q)'.frame = PageAt(q).frame
        /\ \A q \in PresentPages \ {p} : PageAt(q)'.dirty = PageAt(q).dirty
        /\ PageAt(p)'.dirty = FALSE
    BY <1>3 DEF Marked
  <2>2. ASSUME NEW q \in PresentPages \ {p} PROVE PageGood(q)'
    <3>1. PageGood(q) /\ BlockKept(q)
      BY <1>1 DEF PagesGood
    <3> QED
      BY <2>1, <3>1, GoodKept
  <2>3. PageGood(p)'
    <3>1. /\ files'[p[1]] # NoFile /\ p[2] \in DOMAIN files'[p[1]].data
          /\ files'[p[1]].data[p[2]] = physical_memory[PageAt(p).frame]
      BY BlockWrittenBack
    <3> QED
      BY <2>1, <3>1 DEF PageGood, Disk!Exists
  <2> QED
    BY <2>1, <2>2, <2>3 DEF PagesGood
<1> QED
  BY <1>2, <1>3

\* Committing a File:Tag none of whose pages is dirty.
LEMMA CommittedGood ==
    ASSUME MemoryInv, PagesGood, Committed
    PROVE  PagesGood'
<1>0. StoreTypes /\ page_table \in Tables
  BY MemoryTypes DEF MemoryInv
<1> PICK t : t = instr.t
  OBVIOUS
<1>1. /\ Disk!Commit(t) /\ ~Unflushed(t) /\ Dropped({})
      /\ physical_memory' = physical_memory
  BY DEF Committed
<1>2. t \in FileTags
  BY MemoryTypes DEF MemoryInv, Committed
<1>3. /\ files'[t] = Disk!Stored(files[t].data, TRUE)
      /\ \A u \in FileTags \ {t} : files'[u] = files[u]
  BY <1>0, <1>1, <1>2, OneChanged DEF Disk!Commit
<1>4. files'[t] # NoFile /\ files'[t].data = files[t].data
  BY <1>0, <1>1, <1>2, <1>3, StoredFile, StoredIsFile DEF Disk!Commit, Disk!Open
<1>5. ASSUME NEW p \in PresentPages PROVE BlockKept(p)
  <2>1. p[1] \in FileTags /\ p[2] \in Pages /\ p = <<p[1], p[2]>> /\ PageGood(p)
    BY <1>0, PresentPage DEF PagesGood
  <2>2. CASE p[1] = t
    <3>1. ~PageAt(p).dirty
      BY <1>1, <2>1, <2>2 DEF Unflushed, Dirty
    <3> QED
      BY <1>4, <2>1, <2>2, <3>1 DEF BlockKept, PageGood
  <2>3. CASE p[1] # t
    BY <1>3, <2>1, <2>3, SameBlocks
  <2> QED
    BY <2>2, <2>3
<1> QED
  BY <1>1, <1>5, GoodDropped

\* The Storage carries out an instruction.
LEMMA ExecutedGood ==
    ASSUME MemoryInv, PagesGood, Careless = {}, Executed
    PROVE  PagesGood'
<1>0. StoreTypes /\ page_table \in Tables
  BY MemoryTypes DEF MemoryInv
<1>1. physical_memory' = physical_memory
  BY DEF Executed
<1>2. ASSUME NEW p \in PresentPages
      PROVE  /\ p[1] \in FileTags /\ PageGood(p) /\ Disk!Exists(p[1])
             /\ p[2] \in DOMAIN files[p[1]].data
  BY <1>0, PresentPage DEF PagesGood, PageGood
<1>3. ASSUME NEW t \in FileTags, NEW file, ~Disk!Exists(t), Disk!Changed(t, file),
             Dropped({})
      PROVE  PagesGood'
  <2>1. ASSUME NEW p \in PresentPages PROVE BlockKept(p)
    <3>1. p[1] # t
      BY <1>2, <1>3
    <3>2. files'[p[1]] = files[p[1]]
      BY <1>0, <1>2, <1>3, <3>1, OneChanged
    <3> QED
      BY <1>2, <3>2, SameBlocks
  <2> QED
    BY <1>1, <1>3, <2>1, GoodDropped
<1>4. ASSUME NEW t \in FileTags, Deleted(t) PROVE PagesGood'
  <2> PICK gone : gone = {p \in PresentPages : p[1] = t}
    OBVIOUS
  <2>1. Dropped(gone) /\ Disk!Changed(t, NoFile)
    BY <1>4 DEF Deleted, Disk!Delete
  <2>2. ASSUME NEW p \in PresentPages \ gone PROVE BlockKept(p)
    <3>1. files'[p[1]] = files[p[1]]
      BY <1>0, <1>2, <2>1, OneChanged
    <3> QED
      BY <1>2, <3>1, SameBlocks
  <2> QED
    BY <1>1, <2>1, <2>2, GoodDropped
<1>5. ASSUME NEW t \in FileTags, NEW n \in 0..MaxBlocks, Truncated(t, n)
      PROVE  PagesGood'
  <2> PICK gone, d : /\ gone = {p \in PresentPages : p[1] = t /\ p[2] > n}
                     /\ d = [i \in 1..n |-> IF i <= Len(files[t].data)
                                            THEN files[t].data[i] ELSE Zeros]
    OBVIOUS
  <2>1. /\ Dropped(gone) /\ Disk!Open(t) /\ Disk!Changed(t, Disk!Stored(d, FALSE))
        /\ Disk!Exists(t)
    BY <1>5 DEF Truncated, Disk!Truncate, Disk!Open
  <2>2. /\ files[t].data \in Seq(Contents) /\ Len(files[t].data) \in Nat
        /\ DOMAIN files[t].data = 1..Len(files[t].data)
        /\ \A i \in DOMAIN files[t].data : files[t].data[i] \in Contents
    BY <1>0, <2>1, StoredFile
  <2>3. /\ d \in Seq(Contents) /\ DOMAIN d = 1..n /\ n \in Nat
        /\ \A i \in 1..n : i <= Len(files[t].data) => d[i] = files[t].data[i]
    <3>1. Zeros \in Contents
      BY MemoryAssumption DEF Zeros, Contents
    <3>2. n \in Nat
      BY Sizes
    <3> QED
      BY <2>2, <3>1, <3>2
  <2>4. /\ files'[t] = Disk!Stored(d, FALSE)
        /\ \A u \in FileTags \ {t} : files'[u] = files[u]
    BY <1>0, <2>1, OneChanged
  <2>5. files'[t] # NoFile /\ files'[t].data = d /\ ~files'[t].committed
    BY <2>3, <2>4, StoredIsFile
  <2>6. ASSUME NEW p \in PresentPages \ gone PROVE BlockKept(p)
    <3>1. CASE p[1] = t
      <4>1. p[2] \in 1..n /\ p[2] <= Len(files[t].data)
        BY <1>2, <2>2, <2>3, <3>1
      <4> QED
        BY <2>3, <2>5, <3>1, <4>1 DEF BlockKept
    <3>2. CASE p[1] # t
      BY <1>2, <2>4, <3>2, SameBlocks
    <3> QED
      BY <3>1, <3>2
  <2> QED
    BY <1>1, <2>1, <2>6, GoodDropped
<1> QED
  BY <1>3, <1>4, <1>5 DEF Executed, Created, Tagged, Disk!Create, Disk!Tag

\* Every effect leaves the pages good.
LEMMA EffectGood ==
    ASSUME MemoryInv, CarefulInv, Careless = {}, Effect
    PROVE  PagesGood'
<1>0. PagesGood
  BY DEF CarefulInv
<1>1. CASE Quiet
  BY <1>0, <1>1, BlocksKept, GoodDropped DEF Quiet
<1>2. ASSUME NEW p \in PresentPages, Evicted(p) PROVE PagesGood'
  <2>1. Dropped({p}) /\ physical_memory' = physical_memory
    BY <1>2 DEF Evicted
  <2>2. CASE PageAt(p).dirty
    BY <1>0, <1>2, <2>1, <2>2, WrittenGood DEF Evicted
  <2>3. CASE ~PageAt(p).dirty
    <3>1. files' = files
      BY <1>2, <2>3 DEF Evicted
    <3> QED
      BY <1>0, <2>1, <3>1, BlocksKept, GoodDropped
  <2> QED
    BY <2>2, <2>3
<1>3. ASSUME NEW p \in PresentPages, Flushed(p) PROVE PagesGood'
  BY <1>0, <1>3, WrittenGood DEF Flushed
<1>4. ASSUME NEW t \in FileTags, NotDeleted(t) PROVE PagesGood'
  <2> PICK gone : gone = {p \in PresentPages : p[1] = t}
    OBVIOUS
  <2>1. Dropped(gone) /\ files' = files /\ physical_memory' = physical_memory
    BY <1>4 DEF NotDeleted
  <2>2. \A p \in PresentPages : BlockKept(p)
    BY <1>0, <2>1, BlocksKept
  <2> QED
    BY <1>0, <2>1, <2>2, GoodDropped
<1> QED
  BY <1>0, <1>1, <1>2, <1>3, <1>4, CopiedGood, LoadedGood, CommittedGood, ExecutedGood
  DEF Effect

\* Which File:Tags are committed after a request.
LEMMA ClosedAfter ==
    ASSUME StoreTypes, NEW t \in FileTags,
           \/ Disk!Create(t) \/ Disk!Commit(t) \/ Disk!Delete(t)
           \/ \E n \in 0..MaxBlocks : Disk!Truncate(t, n)
           \/ \E i, c : c \in Contents /\ Disk!Write(t, i, c)
    PROVE  /\ t # Protected \/ Closed(t)' \/ ~Closed(t)
           /\ \A u \in FileTags \ {t} : Closed(u)' <=> Closed(u)
           /\ ~Disk!Commit(t) => ~Closed(t)'
<1>1. ASSUME NEW file, Disk!Changed(t, file)
      PROVE  files'[t] = file /\ \A u \in FileTags \ {t} : Closed(u)' <=> Closed(u)
  BY <1>1, OneChanged DEF Closed, Disk!Exists
<1>2. ASSUME NEW d, Disk!Changed(t, Disk!Stored(d, FALSE)) PROVE ~Closed(t)'
  <2>1. files'[t].committed = FALSE
    BY <1>1, <1>2 DEF Disk!Stored
  <2> QED
    BY <2>1 DEF Closed
<1>3. CASE Disk!Create(t)
  BY <1>1, <1>2, <1>3 DEF Disk!Create, Closed
<1>4. CASE Disk!Commit(t)
  BY <1>1, <1>4 DEF Disk!Commit, Disk!Open, Closed
<1>5. CASE Disk!Delete(t)
  <2>1. ~Closed(t)'
    BY <1>1, <1>5 DEF Disk!Delete, Closed, Disk!Exists
  <2> QED
    BY <1>1, <1>5, <2>1 DEF Disk!Delete
<1>6. ASSUME NEW n, Disk!Truncate(t, n)
      PROVE  /\ ~Closed(t) /\ ~Closed(t)'
             /\ \A u \in FileTags \ {t} : Closed(u)' <=> Closed(u)
  BY <1>1, <1>2, <1>6 DEF Disk!Truncate, Disk!Open, Closed
<1>7. ASSUME NEW i, NEW c, Disk!Write(t, i, c)
      PROVE  /\ ~Closed(t) /\ ~Closed(t)'
             /\ \A u \in FileTags \ {t} : Closed(u)' <=> Closed(u)
  BY <1>1, <1>2, <1>7 DEF Disk!Write, Disk!Open, Closed
<1> QED
  BY <1>3, <1>4, <1>5, <1>6, <1>7

\* Between two steps of an access no File:Tag is committed or deleted.
LEMMA ClosedSteady ==
    ASSUME MemoryInv, CarefulInv, Effect
    PROVE  /\ Closed(Protected)'
           /\ instr # Idle /\ ~Committed =>
                 \A t \in FileTags : Closed(t)' => Closed(t)
<1>0. StoreTypes /\ Closed(Protected) /\ page_table \in Tables /\ Protected \in FileTags
      /\ physical_memory \in [Frames -> Contents]
  BY MemoryTypes, MemoryAssumption DEF MemoryInv, CarefulInv
<1>1. ASSUME files' = files PROVE \A t \in FileTags : Closed(t)' <=> Closed(t)
  BY <1>1 DEF Closed, Disk!Exists
<1>2. ASSUME NEW p \in PresentPages, BlockWritten(p)
      PROVE  Closed(Protected)' /\ \A t \in FileTags : Closed(t)' => Closed(t)
  <2>1. p[1] \in FileTags /\ physical_memory[PageAt(p).frame] \in Contents
    BY <1>0, PresentPage
  <2>2. Disk!Write(p[1], p[2], physical_memory[PageAt(p).frame]) /\ Disk!Open(p[1])
    BY <1>2 DEF BlockWritten, Disk!Write
  <2>4. ~Closed(p[1])'
    <3>1. files'[p[1]].committed = FALSE
      BY <1>0, <2>1, <2>2, OneChanged DEF Disk!Write, Disk!Stored
    <3>2. ~Closed(p[1])' <=> ~(files'[p[1]] # NoFile /\ files'[p[1]].committed)
      BY DEF Closed, Disk!Exists
    <3> QED
      BY <3>1, <3>2
  <2>5. \A u \in FileTags \ {p[1]} : Closed(u)' <=> Closed(u)
    BY <1>0, <2>1, <2>2, ClosedAfter
  <2>6. p[1] # Protected
    BY <1>0, <2>2 DEF Closed, Disk!Open
  <2> QED
    BY <1>0, <2>4, <2>5, <2>6
<1>3. CASE Committed
  <2>1. instr.t \in FileTags
    BY <1>3, MemoryTypes DEF MemoryInv, Committed
  <2>2. instr.t # Protected /\ Disk!Commit(instr.t)
    BY <1>0, <1>3 DEF Committed, Disk!Commit, Disk!Open, Closed
  <2>3. Closed(Protected)'
    BY <1>0, <2>1, <2>2, ClosedAfter
  <2> QED
    BY <1>3, <2>3
<1>4. CASE Executed
  <2>1. ASSUME NEW t \in FileTags, NEW file, t # Protected, Disk!Changed(t, file)
        PROVE  Closed(Protected)'
    <3>1. files'[Protected] = files[Protected]
      BY <1>0, <2>1, OneChanged
    <3> QED
      BY <1>0, <3>1 DEF Closed, Disk!Exists
  <2>2. ASSUME NEW t \in FileTags, Disk!Create(t) PROVE Closed(Protected)'
    BY <1>0, <2>1, <2>2 DEF Disk!Create, Closed
  <2>3. ASSUME NEW t \in FileTags, Disk!Delete(t) PROVE Closed(Protected)'
    BY <2>1, <2>3 DEF Disk!Delete
  <2>4. ASSUME NEW t \in FileTags, NEW n, Disk!Truncate(t, n) PROVE Closed(Protected)'
    BY <1>0, <2>1, <2>4 DEF Disk!Truncate, Disk!Open, Closed
  <2>5. ASSUME NEW t, NEW dst \in FileTags, Disk!Tag(t, dst) PROVE Closed(Protected)'
    BY <1>0, <2>1, <2>5 DEF Disk!Tag, Closed
  <2> QED
    BY <1>4, <2>2, <2>3, <2>4, <2>5 DEF Executed, Created, Deleted, Truncated, Tagged
<1>5. CASE Quiet \/ \E t \in FileTags : NotDeleted(t)
  BY <1>0, <1>1, <1>5 DEF Quiet, NotDeleted
<1>6. ASSUME NEW p \in PresentPages, Evicted(p) \/ Flushed(p) \/ Copied(p)
      PROVE  Closed(Protected)' /\ \A t \in FileTags : Closed(t)' => Closed(t)
  <2>1. BlockWritten(p) \/ files' = files
    BY <1>6 DEF Evicted, Flushed, Copied
  <2> QED
    BY <1>0, <1>1, <1>2, <2>1
<1>7. ASSUME NEW t \in FileTags, NEW i \in Pages, NEW f \in Frames, Loaded(t, i, f)
      PROVE  Closed(Protected)' /\ \A u \in FileTags : Closed(u)' => Closed(u)
  BY <1>0, <1>1, <1>7 DEF Loaded
<1> QED
  BY <1>3, <1>4, <1>5, <1>6, <1>7 DEF Effect

\* How an access goes on.
LEMMA AccessGoesOn ==
    ASSUME MemoryInv, Effect, Accessing'
    PROVE  \/ Started
           \/ /\ Accessing /\ ~Committed
              /\ instr'.op = instr.op /\ instr'.t = instr.t /\ instr'.byte = instr.byte
              /\ instr'.base = instr.base /\ instr'.size = instr.size
              /\ \/ instr' = instr /\ \A p \in PresentPages : ~Copied(p)
                 \/ /\ \E p \in PresentPages : Copied(p)
                    /\ instr' = Advanced(bytes_to_copy) /\ bytes_to_copy # instr.left
<1>1. instr' # Idle /\ instr'.op \in {"READ", "WRITE"}
  BY DEF Accessing
<1>2. instr' \notin Flushes
  BY <1>1 DEF Flushes
<1>3. ~Committed /\ ~Executed /\ \A t \in FileTags : ~NotDeleted(t)
  BY <1>1, <1>2 DEF Committed, Executed, NotDeleted
<1>4. ASSUME instr' = instr, \A p \in PresentPages : ~Copied(p)
      PROVE  /\ Accessing /\ ~Committed
             /\ instr'.op = instr.op /\ instr'.t = instr.t /\ instr'.byte = instr.byte
             /\ instr'.base = instr.base /\ instr'.size = instr.size
             /\ instr' = instr /\ \A p \in PresentPages : ~Copied(p)
  BY <1>1, <1>3, <1>4 DEF Accessing
<1>5. ASSUME NEW p \in PresentPages, Copied(p)
      PROVE  /\ Accessing /\ ~Committed
             /\ instr'.op = instr.op /\ instr'.t = instr.t /\ instr'.byte = instr.byte
             /\ instr'.base = instr.base /\ instr'.size = instr.size
             /\ instr' = Advanced(bytes_to_copy) /\ bytes_to_copy # instr.left
  <2>1. Accessing /\ instr \in Accesses
    BY <1>5 DEF Copied
  <2>2. instr' = Advanced(bytes_to_copy) /\ bytes_to_copy # instr.left
    BY <1>1, <1>5 DEF Copied
  <2>3. /\ instr'.op = instr.op /\ instr'.t = instr.t /\ instr'.byte = instr.byte
        /\ instr'.base = instr.base /\ instr'.size = instr.size
    BY <2>1, <2>2 DEF Advanced, Accesses
  <2> QED
    BY <1>3, <2>1, <2>2, <2>3
<1>6. CASE \E p \in PresentPages : Copied(p)
  BY <1>5, <1>6
<1>7. CASE \A p \in PresentPages : ~Copied(p)
  <2>1. Started \/ instr' = instr
    BY <1>1, <1>2, <1>3, <1>7 DEF Effect, Quiet, Evicted, Flushed, Loaded
  <2> QED
    BY <1>4, <1>7, <2>1
<1> QED
  BY <1>6, <1>7

\* Every step keeps pages and blocks together.
LEMMA CarefulStep ==
    ASSUME MemoryInv, CarefulInv, Careless = {}, Effect
    PROVE  CarefulInv'
<1>1. PagesGood' /\ Closed(Protected)'
  BY EffectGood, ClosedSteady
<1>2. WriteOpen'
  <2> SUFFICES ASSUME Accessing', instr'.op = "WRITE" PROVE ~Closed(instr.t)'
    BY DEF WriteOpen
  <2>1. CASE Started
    <3>1. /\ instr' \in Accesses /\ MayAccess(instr'.op, instr'.t) /\ instr = Idle
      BY <2>1 DEF Started
    <3>2. ~Closed(instr'.t) /\ instr'.t \in FileTags
      BY <3>1 DEF MayAccess, Accesses
    <3>3. files' = files
      <4>1. instr' # Idle /\ instr' # instr /\ ~Flushing
        BY <3>1 DEF Accessing, Flushing
      <4>2. instr' \notin Flushes
        BY DEF Accessing, Flushes
      <4> QED
        BY <3>1, <4>1, <4>2
        DEF Effect, Quiet, Evicted, Flushed, Copied, Accessing, Loaded, Committed, Executed,
            NotDeleted
    <3> QED
      BY <3>2, <3>3 DEF Closed, Disk!Exists
  <2>2. CASE Accessing /\ ~Committed /\ instr'.op = instr.op /\ instr'.t = instr.t
    <3>1. instr.t \in FileTags /\ instr # Idle
      BY <2>2, MemoryTypes, AccessFields DEF MemoryInv, Accessing
    <3>2. ~Closed(instr.t)
      BY <2>2 DEF CarefulInv, WriteOpen
    <3>3. ASSUME NEW u \in FileTags, u = instr.t PROVE ~Closed(u)'
      BY <2>2, <3>1, <3>2, <3>3, ClosedSteady
    <3>4. PICK u : u = instr.t
      OBVIOUS
    <3>5. ~Closed(u)' /\ instr'.t = u
      BY <2>2, <3>1, <3>3, <3>4
    <3> QED
      BY <3>5 DEF Closed, Disk!Exists
  <2> QED
    BY <2>1, <2>2, AccessGoesOn
<1> QED
  BY <1>1, <1>2 DEF CarefulInv

\* No page is present at first, and initial_file:BASE is committed.
LEMMA CarefulStart ==
    ASSUME Init
    PROVE  CarefulInv
<1>1. PresentPages = {}
  <2>1. \A t \in FileTags : PageCount(t) = 0
    BY DEF Init, PageCount
  <2>2. \A t \in FileTags : \A i : ~Present(t, i)
    BY <2>1 DEF Present
  <2> QED
    BY <2>2 DEF PresentPages
<1>2. Closed(Protected)
  <2>1. Zeros \in Contents /\ Protected \in FileTags
    BY MemoryAssumption DEF Zeros, Contents
  <2>2. files[Protected] = Disk!Stored(<<Zeros>>, TRUE)
    BY <2>1 DEF Init, Disk!Init
  <2>3. <<Zeros>> \in Seq(Contents)
    BY <2>1
  <2> QED
    BY <2>2, <2>3, StoredIsFile DEF Closed, Disk!Exists
<1>3. WriteOpen
  BY DEF Init, WriteOpen, Accessing
<1> QED
  BY <1>1, <1>2, <1>3 DEF CarefulInv, PagesGood

\* Pages and blocks stay together in every behaviour.
LEMMA CarefulAlways ==
    ASSUME Careless = {}
    PROVE  Spec => [](MemoryInv /\ CarefulInv)
<1>1. MemoryInv /\ CarefulInv /\ [Next]_vars => CarefulInv'
  <2> SUFFICES ASSUME MemoryInv, CarefulInv, [Next]_vars PROVE CarefulInv'
    OBVIOUS
  <2>1. CASE Effect
    BY <2>1, CarefulStep
  <2>2. CASE UNCHANGED vars
    BY <2>2 DEF vars, tables, CarefulInv, PagesGood, PageGood, WriteOpen, Accessing, Closed,
                Disk!Exists, PresentPages, Present, PageCount, PageAt
  <2> QED
    BY <2>1, <2>2, MemoryStep
<1>2. Init => CarefulInv
  BY CarefulStart
<1> QED
  BY <1>1, <1>2, MemoryAlways, PTL DEF Spec

\* A page that is not dirty holds what the Storage has for it, so that it may
\* be dropped without being written back: whatever is evicted, cut off or
\* deleted, and whatever the Storage refuses.
THEOREM CleanMatchesCorrect ==
    ASSUME Careless = {}
    PROVE  Spec => []CleanMatches
<1>1. CarefulInv => CleanMatches
  BY DEF CarefulInv, PagesGood, PageGood, CleanMatches, Dirty
<1> QED
  BY <1>1, CarefulAlways, PTL

\* No page of a committed File:Tag is still to be written back.
THEOREM CommittedFlushedCorrect ==
    ASSUME Careless = {}
    PROVE  Spec => []CommittedFlushed
<1>1. ASSUME CarefulInv PROVE CommittedFlushed
  <2> SUFFICES ASSUME NEW t \in FileTags, Closed(t), NEW i \in Pages, Dirty(<<t, i>>)
               PROVE  FALSE
    BY DEF CommittedFlushed, Unflushed
  <2> PICK p : p = <<t, i>>
    OBVIOUS
  <2>1. p \in PresentPages /\ PageAt(p).dirty /\ p[1] = t
    BY DEF Dirty
  <2> QED
    BY <1>1, <2>1 DEF CarefulInv, PagesGood, PageGood, Closed
<1> QED
  BY <1>1, CarefulAlways, PTL

-----------------------------------------------------------------------------
(* What queries see: the memory implements FileStore.                      *)

\* What a query sees of block i of t.
Value(t, i) == IF <<t, i>> \in PresentPages THEN physical_memory[PageAt(<<t, i>>).frame]
                                            ELSE files[t].data[i]

\* Two lists with the same elements are the same list.
LEMMA SameList ==
    ASSUME NEW S, NEW d \in Seq(S), NEW e \in Seq(S), DOMAIN e = DOMAIN d,
           \A i \in DOMAIN d : e[i] = d[i]
    PROVE  e = d
<1>1. d = [i \in DOMAIN d |-> d[i]] /\ e = [i \in DOMAIN d |-> e[i]]
  OBVIOUS
<1> QED
  BY <1>1

\* What is seen of t: its blocks, each as memory or Storage has it.
SeenAs(t) ==
    /\ Seen(t).data \in Seq(Contents)
    /\ Len(Seen(t).data) = Len(files[t].data)
    /\ DOMAIN Seen(t).data = DOMAIN files[t].data
    /\ \A i \in DOMAIN files[t].data : Seen(t).data[i] = Value(t, i)
    /\ Seen(t).committed = files[t].committed
    /\ Seen(t) = Disk!Stored(Seen(t).data, files[t].committed)
    /\ Seen(t) # NoFile

\* That is what is seen of every File:Tag that exists.
LEMMA SeenNow == MemoryInv => \A t \in FileTags : Disk!Exists(t) => SeenAs(t)
<1> SUFFICES ASSUME MemoryInv, NEW t \in FileTags, Disk!Exists(t) PROVE SeenAs(t)
  OBVIOUS
<1>0. StoreTypes /\ page_table \in Tables /\ physical_memory \in [Frames -> Contents]
  BY MemoryTypes DEF MemoryInv
<1> PICK d, s : /\ d = files[t].data
                /\ s = [i \in DOMAIN d |->
                           IF Present(t, i) THEN physical_memory[FrameOf(t, i)] ELSE d[i]]
  OBVIOUS
<1>1. /\ d \in Seq(Contents) /\ Len(d) \in Nat /\ DOMAIN d = 1..Len(d)
      /\ DOMAIN d \subseteq Pages
      /\ \A i \in DOMAIN d : d[i] \in Contents
      /\ files[t].committed \in BOOLEAN
  BY <1>0, StoredFile
<1>2. ASSUME NEW i \in DOMAIN d PROVE s[i] = Value(t, i) /\ s[i] \in Contents
  <2> PICK p : p = <<t, i>>
    OBVIOUS
  <2>1. p[1] = t /\ p[2] = i /\ p \in FileTags \X Pages
    BY <1>1
  <2>2. p \in PresentPages <=> Present(t, i)
    BY <2>1 DEF PresentPages
  <2>3. PageAt(p).frame = FrameOf(t, i)
    BY <2>1 DEF PageAt, FrameOf
  <2>4. s[i] = IF Present(t, i) THEN physical_memory[FrameOf(t, i)] ELSE d[i]
    OBVIOUS
  <2>5. Value(t, i) = IF p \in PresentPages THEN physical_memory[PageAt(p).frame] ELSE d[i]
    BY DEF Value
  <2>6. p \in PresentPages => PageAt(p).frame \in Frames
    BY <1>0, PresentPage
  <2>7. s[i] = Value(t, i)
    BY <2>2, <2>3, <2>4, <2>5
  <2>8. Value(t, i) \in Contents
    BY <1>0, <1>1, <2>5, <2>6
  <2> QED
    BY <2>7, <2>8
<1>3. s \in Seq(Contents) /\ Len(s) = Len(d) /\ DOMAIN s = DOMAIN d
  <2>1. s \in [1..Len(d) -> Contents]
    <3>1. s = [i \in 1..Len(d) |-> s[i]]
      BY <1>1
    <3>2. \A i \in 1..Len(d) : s[i] \in Contents
      BY <1>1, <1>2
    <3> QED
      BY <3>1, <3>2
  <2>2. ASSUME NEW n \in Nat, NEW e \in [1..n -> Contents]
        PROVE  e \in Seq(Contents) /\ Len(e) = n /\ DOMAIN e = 1..n
    OBVIOUS
  <2> QED
    BY <1>1, <2>1, <2>2
<1>4. Seen(t) = Disk!Stored(s, files[t].committed)
  BY DEF Seen, Disk!Stored
<1>5. Seen(t) # NoFile /\ Seen(t).data = s /\ Seen(t).committed = files[t].committed
  <2>1. ASSUME NEW e \in Seq(Contents), NEW c \in BOOLEAN, Seen(t) = Disk!Stored(e, c)
        PROVE  Seen(t) # NoFile /\ Seen(t).data = e /\ Seen(t).committed = c
    BY <2>1, StoredIsFile
  <2> QED
    BY <1>1, <1>3, <1>4, <2>1
<1> QED
  BY <1>2, <1>3, <1>4, <1>5 DEF SeenAs

\* The same after a step.
LEMMA SeenThen == MemoryInv' => \A t \in FileTags : files'[t] # NoFile => SeenAs(t)'
<1>1. (MemoryInv => \A t \in FileTags : Disk!Exists(t) => SeenAs(t))'
  BY SeenNow, PTL
<1> QED
  BY <1>1 DEF Disk!Exists

\* What is seen of t after a step that leaves it with the blocks d.
LEMMA SeenBecomes ==
    ASSUME MemoryInv', NEW t \in FileTags, files'[t] # NoFile, NEW d \in Seq(Contents),
           DOMAIN d = DOMAIN files'[t].data, \A i \in DOMAIN d : Value(t, i)' = d[i]
    PROVE  Seen(t)' = Disk!Stored(d, files'[t].committed)
<1> PICK s : s = Seen(t)'.data
  OBVIOUS
<1>1. /\ s \in Seq(Contents) /\ DOMAIN s = DOMAIN d /\ \A i \in DOMAIN d : s[i] = d[i]
      /\ Seen(t)' = Disk!Stored(s, files'[t].committed)
  BY SeenThen DEF SeenAs
<1>2. s = d
  BY <1>1, SameList
<1> QED
  BY <1>1, <1>2

\* A step that a query does not see in t.
NotSeen(t) ==
    /\ files'[t] = NoFile <=> files[t] = NoFile
    /\ Disk!Exists(t) =>
          /\ files'[t].committed = files[t].committed
          /\ DOMAIN files'[t].data = DOMAIN files[t].data
          /\ \A i \in DOMAIN files[t].data : Value(t, i)' = Value(t, i)

\* Then it looks as before.
LEMMA SeenKept ==
    ASSUME MemoryInv, MemoryInv', NEW t \in FileTags, NotSeen(t)
    PROVE  Seen(t)' = Seen(t)
<1>1. CASE files[t] = NoFile
  <2>1. files'[t] = NoFile
    BY <1>1 DEF NotSeen
  <2> QED
    BY <1>1, <2>1 DEF Seen, Disk!Exists
<1>2. CASE files[t] # NoFile
  <2>0. Disk!Exists(t)
    BY <1>2 DEF Disk!Exists
  <2> PICK d : d = Seen(t).data
    OBVIOUS
  <2>1. /\ d \in Seq(Contents) /\ DOMAIN d = DOMAIN files[t].data
        /\ \A i \in DOMAIN files[t].data : d[i] = Value(t, i)
        /\ Seen(t) = Disk!Stored(d, files[t].committed)
    BY <2>0, SeenNow DEF SeenAs
  <2>2. /\ files'[t] # NoFile /\ files'[t].committed = files[t].committed
        /\ DOMAIN d = DOMAIN files'[t].data
        /\ \A i \in DOMAIN d : Value(t, i)' = d[i]
    BY <1>2, <2>0, <2>1 DEF NotSeen
  <2>3. Seen(t)' = Disk!Stored(d, files'[t].committed)
    BY <2>1, <2>2, SeenBecomes
  <2> QED
    BY <2>1, <2>2, <2>3
<1> QED
  BY <1>1, <1>2

\* A block looks as before when its page goes, if it holds what the page held.
LEMMA DroppedValue ==
    ASSUME NEW gone, Dropped(gone), physical_memory' = physical_memory, NEW t, NEW i,
           NEW x, x = <<t, i>>,
           x \notin PresentPages => files'[t].data[i] = files[t].data[i],
           x \in PresentPages /\ x \in gone =>
               files'[t].data[i] = physical_memory[PageAt(x).frame]
    PROVE  Value(t, i)' = Value(t, i)
<1>1. /\ PresentPages' = PresentPages \ gone
      /\ x \in PresentPages \ gone => PageAt(x)'.frame = PageAt(x).frame
  BY DEF Dropped
<1>2. Value(t, i) = IF x \in PresentPages THEN physical_memory[PageAt(x).frame]
                                          ELSE files[t].data[i]
  BY DEF Value
<1>3. Value(t, i)' = IF x \in PresentPages' THEN physical_memory'[PageAt(x)'.frame]
                                            ELSE files'[t].data[i]
  BY DEF Value
<1> QED
  BY <1>1, <1>2, <1>3

\* Or when its page stays.
LEMMA MarkedValue ==
    ASSUME PresentPages' = PresentPages,
           \A p \in PresentPages : PageAt(p)'.frame = PageAt(p).frame, NEW t, NEW i,
           NEW x, x = <<t, i>>,
           x \notin PresentPages => files'[t].data[i] = files[t].data[i],
           x \in PresentPages =>
               physical_memory'[PageAt(x).frame] = physical_memory[PageAt(x).frame]
    PROVE  Value(t, i)' = Value(t, i)
<1>2. Value(t, i) = IF x \in PresentPages THEN physical_memory[PageAt(x).frame]
                                          ELSE files[t].data[i]
  BY DEF Value
<1>3. Value(t, i)' = IF x \in PresentPages' THEN physical_memory'[PageAt(x)'.frame]
                                            ELSE files'[t].data[i]
  BY DEF Value
<1> QED
  BY <1>2, <1>3

\* Evictions, page faults, write-backs and refusals are not seen.
LEMMA HiddenEffects ==
    ASSUME MemoryInv, CarefulInv,
           \/ Quiet
           \/ \E p \in PresentPages : Evicted(p) \/ Flushed(p)
           \/ \E t \in FileTags, i \in Pages, f \in Frames : Loaded(t, i, f)
           \/ \E t \in FileTags : NotDeleted(t) /\ (~Disk!Exists(t) \/ t = Protected)
    PROVE  \A t \in FileTags : NotSeen(t)
<1>0. /\ PagesGood /\ page_table \in Tables /\ FramesExclusive /\ StoreTypes
      /\ physical_memory \in [Frames -> Contents]
  BY MemoryTypes DEF MemoryInv, CarefulInv
<1>1. CASE Quiet
  <2>1. Dropped({}) /\ files' = files /\ physical_memory' = physical_memory
    BY <1>1 DEF Quiet
  <2>2. ASSUME NEW t, NEW i PROVE Value(t, i)' = Value(t, i)
    <3> PICK x, gone : x = <<t, i>> /\ gone = {}
      OBVIOUS
    <3>1. Dropped(gone) /\ x \notin gone /\ files'[t].data[i] = files[t].data[i]
      BY <2>1
    <3> QED
      BY <2>1, <3>1, DroppedValue
  <2> QED
    BY <2>1, <2>2 DEF NotSeen
<1>2. ASSUME NEW p \in PresentPages, BlockWritten(p), physical_memory' = physical_memory,
             Dropped({p}) \/ Marked(p, FALSE)
      PROVE  \A t \in FileTags : NotSeen(t)
  <2>1. /\ p[1] \in FileTags /\ p = <<p[1], p[2]>>
        /\ Disk!Open(p[1])
        /\ files'[p[1]] # NoFile /\ ~files'[p[1]].committed
        /\ files'[p[1]].data[p[2]] = physical_memory[PageAt(p).frame]
        /\ files'[p[1]].data \in Seq(Contents)
        /\ Len(files'[p[1]].data) = Len(files[p[1]].data)
        /\ \A i \in DOMAIN files[p[1]].data \ {p[2]} :
              files'[p[1]].data[i] = files[p[1]].data[i]
        /\ \A u \in FileTags \ {p[1]} : files'[u] = files[u]
    BY <1>0, <1>2, BlockWrittenBack, PresentPage
  <2>2. ASSUME NEW t \in FileTags, NEW i, Disk!Exists(t), i \in DOMAIN files[t].data
        PROVE  Value(t, i)' = Value(t, i)
    <3> PICK x, gone : x = <<t, i>> /\ gone = {p}
      OBVIOUS
    <3>1. x # p => files'[t].data[i] = files[t].data[i]
      BY <2>1, <2>2
    <3>2. x = p => files'[t].data[i] = physical_memory[PageAt(x).frame]
      BY <2>1
    <3>3. CASE Dropped({p})
      <4>1. /\ Dropped(gone)
            /\ x \notin PresentPages => files'[t].data[i] = files[t].data[i]
            /\ x \in gone => files'[t].data[i] = physical_memory[PageAt(x).frame]
        BY <3>1, <3>2, <3>3
      <4> QED
        BY <1>2, <4>1, DroppedValue
    <3>4. CASE Marked(p, FALSE)
      <4>1. /\ PresentPages' = PresentPages
            /\ \A q \in PresentPages : PageAt(q)'.frame = PageAt(q).frame
        BY <3>4 DEF Marked
      <4> QED
        BY <1>2, <3>1, <4>1, MarkedValue
    <3> QED
      BY <1>2, <3>3, <3>4
  <2>3. /\ files[p[1]] # NoFile /\ Disk!Exists(p[1])
        /\ DOMAIN files'[p[1]].data = DOMAIN files[p[1]].data
        /\ files'[p[1]].committed = files[p[1]].committed
    <3>1. Disk!Exists(p[1]) /\ ~files[p[1]].committed
      BY <2>1 DEF Disk!Open
    <3>2. /\ files[p[1]].data \in Seq(Contents) /\ files[p[1]].committed \in BOOLEAN
          /\ DOMAIN files[p[1]].data = 1..Len(files[p[1]].data)
      BY <1>0, <2>1, <3>1, StoredFile
    <3>3. files'[p[1]].committed = FALSE
      BY <1>0, <1>2, <2>1, OneChanged DEF BlockWritten, Disk!Write, Disk!Stored
    <3> QED
      <4>1. files'[p[1]].committed = files[p[1]].committed
        BY <3>1, <3>2, <3>3
      <4>2. DOMAIN files'[p[1]].data = DOMAIN files[p[1]].data
        <5>1. ASSUME NEW d \in Seq(Contents) PROVE DOMAIN d = 1..Len(d)
          OBVIOUS
        <5> QED
          BY <2>1, <3>2, <5>1
      <4> QED
        BY <3>1, <4>1, <4>2 DEF Disk!Exists
  <2>4. NotSeen(p[1])
    BY <2>1, <2>2, <2>3 DEF NotSeen
  <2>5. ASSUME NEW t \in FileTags \ {p[1]} PROVE NotSeen(t)
    BY <2>1, <2>2 DEF NotSeen
  <2> QED
    BY <2>4, <2>5
<1>3. ASSUME NEW p \in PresentPages, Evicted(p) PROVE \A t \in FileTags : NotSeen(t)
  <2>1. Dropped({p}) /\ physical_memory' = physical_memory
    BY <1>3 DEF Evicted
  <2>2. CASE PageAt(p).dirty
    BY <1>2, <1>3, <2>1, <2>2 DEF Evicted
  <2>3. CASE ~PageAt(p).dirty
    <3>1. files' = files
      BY <1>3, <2>3 DEF Evicted
    <3>2. p = <<p[1], p[2]>> /\ PageGood(p)
      BY <1>0, PresentPage DEF PagesGood
    <3>3. files[p[1]].data[p[2]] = physical_memory[PageAt(p).frame]
      BY <2>3, <3>2 DEF PageGood
    <3>4. ASSUME NEW t, NEW i PROVE Value(t, i)' = Value(t, i)
      <4> PICK x, gone : x = <<t, i>> /\ gone = {p}
        OBVIOUS
      <4>1. x \in gone => files'[t].data[i] = physical_memory[PageAt(x).frame]
        BY <3>1, <3>2, <3>3
      <4>2. Dropped(gone) /\ files'[t].data[i] = files[t].data[i]
        BY <2>1, <3>1
      <4> QED
        BY <2>1, <4>1, <4>2, DroppedValue
    <3> QED
      BY <3>1, <3>4 DEF NotSeen
  <2> QED
    BY <2>2, <2>3
<1>4. ASSUME NEW p \in PresentPages, Flushed(p) PROVE \A t \in FileTags : NotSeen(t)
  BY <1>2, <1>4 DEF Flushed
<1>5. ASSUME NEW t \in FileTags, NEW i \in Pages, NEW f \in Frames, Loaded(t, i, f)
      PROVE  \A u \in FileTags : NotSeen(u)
  <2> PICK x : x = <<t, i>>
    OBVIOUS
  <2>1. /\ x \notin PresentPages /\ f \notin used
        /\ PresentPages' = PresentPages \cup {x}
        /\ \A p \in PresentPages : PageAt(p)'.frame = PageAt(p).frame
        /\ PageAt(x)'.frame = f
        /\ physical_memory' = [physical_memory EXCEPT ![f] = files[t].data[i]]
        /\ files' = files
    BY <1>5 DEF Loaded
  <2>2. ASSUME NEW p \in PresentPages
        PROVE  physical_memory'[PageAt(p).frame] = physical_memory[PageAt(p).frame]
    <3>1. PageAt(p).frame \in Frames /\ PageAt(p).frame # f
      BY <1>0, <2>1, PresentPage DEF FramesExclusive
    <3> QED
      BY <1>0, <2>1, <3>1
  <2>3. physical_memory'[f] = files[t].data[i]
    BY <1>0, <2>1
  <2>4. ASSUME NEW u, NEW j PROVE Value(u, j)' = Value(u, j)
    <3> PICK y : y = <<u, j>>
      OBVIOUS
    <3>1. Value(u, j) = IF y \in PresentPages THEN physical_memory[PageAt(y).frame]
                                              ELSE files[u].data[j]
      BY DEF Value
    <3>2. Value(u, j)' = IF y \in PresentPages' THEN physical_memory'[PageAt(y)'.frame]
                                                ELSE files'[u].data[j]
      BY DEF Value
    <3>3. CASE y = x
      BY <2>1, <2>3, <3>1, <3>2, <3>3
    <3>4. CASE y # x
      BY <2>1, <2>2, <3>1, <3>2, <3>4
    <3> QED
      BY <3>3, <3>4
  <2> QED
    BY <2>1, <2>4 DEF NotSeen
<1>6. ASSUME NEW t \in FileTags, NotDeleted(t), ~Disk!Exists(t) \/ t = Protected
      PROVE  \A u \in FileTags : NotSeen(u)
  <2> PICK gone : gone = {p \in PresentPages : p[1] = t}
    OBVIOUS
  <2>1. /\ Dropped(gone) /\ files' = files /\ physical_memory' = physical_memory
        /\ ~Disk!Exists(t) \/ t = Protected
    BY <1>6 DEF NotDeleted
  <2>2. ASSUME NEW p \in gone
        PROVE  files[p[1]].data[p[2]] = physical_memory[PageAt(p).frame]
    <3>1. p \in PresentPages /\ PageGood(p) /\ p[1] = t
      BY <1>0 DEF PagesGood
    <3>2. Disk!Exists(t) /\ t = Protected
      BY <2>1, <3>1 DEF PageGood
    <3>3. files[t].committed
      BY <3>2 DEF CarefulInv, Closed
    <3> QED
      BY <3>1, <3>3 DEF PageGood
  <2>3. ASSUME NEW u, NEW i PROVE Value(u, i)' = Value(u, i)
    <3> PICK x : x = <<u, i>>
      OBVIOUS
    <3>1. x \in gone => files'[u].data[i] = physical_memory[PageAt(x).frame]
      BY <2>1, <2>2
    <3>2. files'[u].data[i] = files[u].data[i]
      BY <2>1
    <3> QED
      BY <2>1, <3>1, <3>2, DroppedValue
  <2> QED
    BY <2>1, <2>3 DEF NotSeen
<1> QED
  BY <1>1, <1>3, <1>4, <1>5, <1>6

\* Copying bytes changes what is seen of one block.
LEMMA CopiedSeen ==
    ASSUME MemoryInv, MemoryInv', CarefulInv, NEW x \in PresentPages, Copied(x)
    PROVE  /\ x[1] = instr.t /\ x[2] = instr.page /\ x[1] \in FileTags
           /\ Disk!Exists(x[1]) /\ x[2] \in DOMAIN files[x[1]].data /\ files' = files
           /\ \A u \in FileTags \ {x[1]} : NotSeen(u)
           /\ \A i \in DOMAIN files[x[1]].data \ {x[2]} : Value(x[1], i)' = Value(x[1], i)
           /\ \A o \in Offsets :
                 Value(x[1], x[2])'[o] =
                     IF instr.op = "WRITE"
                        /\ o \in instr.offset..instr.offset + bytes_to_copy - 1
                     THEN instr.byte ELSE Value(x[1], x[2])[o]
           /\ Value(x[1], x[2])' \in Contents
           /\ instr.op # "WRITE" => NotSeen(x[1])
           /\ instr.op = "WRITE" => ~files[x[1]].committed
<1>0. /\ PagesGood /\ WriteOpen /\ page_table \in Tables /\ FramesExclusive
      /\ physical_memory' \in [Frames -> Contents] /\ StoreTypes
  BY MemoryTypes DEF MemoryInv, CarefulInv, TypeOK, Frames, Contents, Offsets
<1>1. /\ Accessing /\ x = <<instr.t, instr.page>> /\ files' = files
      /\ PresentPages' = PresentPages
      /\ \A p \in PresentPages : PageAt(p)'.frame = PageAt(p).frame
  BY DEF Copied, Marked
<1>2. x[1] = instr.t /\ x[2] = instr.page /\ x[1] \in FileTags /\ x = <<x[1], x[2]>>
  BY <1>0, <1>1, PresentPage
<1>3. Disk!Exists(x[1]) /\ x[2] \in DOMAIN files[x[1]].data
  BY <1>0 DEF PagesGood, PageGood
<1>4. ASSUME NEW u, NEW i, <<u, i>> # x PROVE Value(u, i)' = Value(u, i)
  <2> PICK y : y = <<u, i>>
    OBVIOUS
  <2>1. files'[u].data[i] = files[u].data[i]
    BY <1>1
  <2>2. y \in PresentPages =>
           physical_memory'[PageAt(y).frame] = physical_memory[PageAt(y).frame]
    BY <1>4, CopiedFrames
  <2> QED
    BY <1>1, <2>1, <2>2, MarkedValue
<1>5. /\ Value(x[1], x[2]) = physical_memory[PageAt(x).frame]
      /\ Value(x[1], x[2])' = physical_memory'[PageAt(x).frame]
  <2>1. Value(x[1], x[2]) = physical_memory[PageAt(x).frame]
    BY <1>2 DEF Value
  <2>2. Value(x[1], x[2])' = IF <<x[1], x[2]>> \in PresentPages'
                             THEN physical_memory'[PageAt(<<x[1], x[2]>>)'.frame]
                             ELSE files'[x[1]].data[x[2]]
    BY DEF Value
  <2>3. PageAt(x)'.frame = PageAt(x).frame
    BY <1>1
  <2>4. PageAt(<<x[1], x[2]>>)' = PageAt(x)'
    BY <1>2 DEF PageAt
  <2> QED
    BY <1>1, <1>2, <2>1, <2>2, <2>3, <2>4
<1>6. Value(x[1], x[2])' \in Contents
  <2>1. PageAt(x).frame \in Frames
    BY <1>0, PresentPage
  <2> QED
    BY <1>0, <1>5, <2>1
<1>7. ASSUME NEW u \in FileTags \ {x[1]} PROVE NotSeen(u)
  <2>1. \A i : Value(u, i)' = Value(u, i)
    BY <1>2, <1>4
  <2> QED
    BY <1>1, <2>1 DEF NotSeen
<1>8. ASSUME NEW i \in DOMAIN files[x[1]].data \ {x[2]}
      PROVE  Value(x[1], i)' = Value(x[1], i)
  BY <1>2, <1>4
<1>9. ASSUME instr.op # "WRITE" PROVE NotSeen(x[1])
  <2>1. Value(x[1], x[2])' = Value(x[1], x[2])
    BY <1>5, <1>9, CopiedFrames
  <2>2. \A i \in DOMAIN files[x[1]].data : Value(x[1], i)' = Value(x[1], i)
    BY <1>8, <2>1
  <2> QED
    BY <1>1, <2>2 DEF NotSeen
<1>10. instr.op = "WRITE" => ~files[x[1]].committed
  BY <1>0, <1>1, <1>2, <1>3 DEF WriteOpen, Closed
<1>11. \A o \in Offsets :
         Value(x[1], x[2])'[o] =
             IF instr.op = "WRITE" /\ o \in instr.offset..instr.offset + bytes_to_copy - 1
             THEN instr.byte ELSE Value(x[1], x[2])[o]
  BY <1>5, CopiedFrames
<1> QED
  BY <1>1, <1>2, <1>3, <1>6, <1>7, <1>8, <1>9, <1>10, <1>11

\* One File:Tag is seen to change.
LEMMA ViewChanged ==
    ASSUME NEW t \in FileTags, NEW file, Seen(t)' = file,
           \A u \in FileTags \ {t} : Seen(u)' = Seen(u)
    PROVE  View!Changed(t, file)
  BY DEF View!Changed, view

\* A WRITE of bytes of one page is seen as a WRITE of the block.
LEMMA CopiedView ==
    ASSUME MemoryInv, MemoryInv', CarefulInv, NEW x \in PresentPages, Copied(x)
    PROVE  \/ \A t \in FileTags : Seen(t)' = Seen(t)
           \/ \E t \in FileTags, i \in Pages, c \in Contents : View!Write(t, i, c)
<1>1. CASE instr.op # "WRITE"
  <2>1. \A t \in FileTags : NotSeen(t)
    BY <1>1, CopiedSeen
  <2> QED
    BY <2>1, SeenKept
<1>2. CASE instr.op = "WRITE"
  <2> PICK t, i, c : t = x[1] /\ i = x[2] /\ c = Value(x[1], x[2])'
    OBVIOUS
  <2>1. /\ t \in FileTags /\ Disk!Exists(t) /\ i \in DOMAIN files[t].data
        /\ files' = files /\ c \in Contents /\ ~files[t].committed
        /\ \A j \in DOMAIN files[t].data \ {i} : Value(t, j)' = Value(t, j)
        /\ \A u \in FileTags \ {t} : NotSeen(u)
    BY <1>2, CopiedSeen
  <2>2. Value(t, i)' = c
    OBVIOUS
  <2> PICK s, d : s = Seen(t).data /\ d = [s EXCEPT ![i] = c]
    OBVIOUS
  <2>3. /\ s \in Seq(Contents) /\ DOMAIN s = DOMAIN files[t].data
        /\ \A j \in DOMAIN files[t].data : s[j] = Value(t, j)
        /\ Seen(t).committed = files[t].committed /\ Seen(t) # NoFile
    BY <2>1, SeenNow DEF SeenAs
  <2>4. /\ d \in Seq(Contents) /\ DOMAIN d = DOMAIN s /\ d[i] = c
        /\ \A j \in DOMAIN s \ {i} : d[j] = s[j]
    BY <2>1, <2>3
  <2>5. /\ files'[t] # NoFile /\ DOMAIN d = DOMAIN files'[t].data
        /\ \A j \in DOMAIN d : Value(t, j)' = d[j]
    BY <2>1, <2>2, <2>3, <2>4 DEF Disk!Exists
  <2>6. files'[t].committed = FALSE
    <3>1. StoreTypes
      BY DEF MemoryInv
    <3>2. files[t].committed \in BOOLEAN
      BY <2>1, <3>1, StoredFile
    <3> QED
      BY <2>1, <3>2
  <2>7. Seen(t)' = Disk!Stored(d, FALSE)
    <3>1. t \in FileTags /\ d \in Seq(Contents)
      BY <2>1, <2>4
    <3>2. Seen(t)' = Disk!Stored(d, files'[t].committed)
      BY <2>5, <3>1, SeenBecomes
    <3> QED
      BY <2>6, <3>2
  <2>8. View!Changed(t, Disk!Stored(d, FALSE))
    BY <2>1, <2>7, SeenKept, ViewChanged
  <2>9. i \in Pages
    <3>1. page_table \in Tables
      BY MemoryTypes DEF MemoryInv
    <3> QED
      BY <3>1, PresentPage
  <2>10. View!Write(t, i, c)
    <3>1. View!Open(t)
      BY <2>1, <2>3 DEF View!Open, View!Exists, view
    <3> QED
      BY <2>1, <2>3, <2>8, <3>1 DEF View!Write, View!Stored, Disk!Stored, view
  <2> QED
    BY <2>1, <2>9, <2>10
<1> QED
  BY <1>1, <1>2

\* A COMMIT is seen as one.
LEMMA CommittedView ==
    ASSUME MemoryInv, MemoryInv', Committed
    PROVE  \E t \in FileTags : View!Commit(t)
<1>0. StoreTypes
  BY DEF MemoryInv
<1> PICK t, gone : t = instr.t /\ gone = {}
  OBVIOUS
<1>1. /\ Disk!Commit(t) /\ Disk!Open(t) /\ Dropped(gone)
      /\ physical_memory' = physical_memory /\ Disk!Exists(t)
  BY DEF Committed, Disk!Commit, Disk!Open
<1>2. t \in FileTags
  BY MemoryTypes DEF MemoryInv, Committed
<1>3. /\ files'[t] = Disk!Stored(files[t].data, TRUE)
      /\ \A u \in FileTags \ {t} : files'[u] = files[u]
  BY <1>0, <1>1, <1>2, OneChanged DEF Disk!Commit
<1>4. /\ files'[t] # NoFile /\ files'[t].data = files[t].data
      /\ files'[t].committed = TRUE
  BY <1>0, <1>1, <1>2, <1>3, StoredFile, StoredIsFile
<1>5. ASSUME NEW u \in FileTags, NEW i PROVE Value(u, i)' = Value(u, i)
  <2> PICK x : x = <<u, i>>
    OBVIOUS
  <2>1. files'[u].data[i] = files[u].data[i] /\ x \notin gone
    BY <1>3, <1>4
  <2> QED
    BY <1>1, <2>1, DroppedValue
<1>6. \A u \in FileTags \ {t} : Seen(u)' = Seen(u)
  <2>1. \A u \in FileTags \ {t} : NotSeen(u)
    BY <1>3, <1>5 DEF NotSeen
  <2> QED
    BY <2>1, SeenKept
<1> PICK s : s = Seen(t).data
  OBVIOUS
<1>7. /\ s \in Seq(Contents) /\ DOMAIN s = DOMAIN files[t].data
      /\ \A j \in DOMAIN files[t].data : s[j] = Value(t, j)
      /\ Seen(t).committed = files[t].committed /\ Seen(t) # NoFile
  BY <1>1, <1>2, SeenNow DEF SeenAs
<1>8. Seen(t)' = Disk!Stored(s, TRUE)
  <2>1. DOMAIN s = DOMAIN files'[t].data /\ \A j \in DOMAIN s : Value(t, j)' = s[j]
    BY <1>2, <1>4, <1>5, <1>7
  <2> QED
    BY <1>2, <1>4, <1>7, <2>1, SeenBecomes
<1>9. View!Changed(t, Disk!Stored(s, TRUE))
  BY <1>2, <1>6, <1>8, ViewChanged
<1>10. View!Open(t)
  BY <1>1, <1>2, <1>7 DEF View!Open, View!Exists, Disk!Open, view
<1>11. View!Commit(t)
  BY <1>2, <1>9, <1>10 DEF View!Commit, View!Stored, Disk!Stored, view
<1> QED
  BY <1>2, <1>11

\* A request leaves what is seen of every other File:Tag alone.
LEMMA OthersSeen ==
    ASSUME MemoryInv, MemoryInv', NEW t \in FileTags, NEW gone, Dropped(gone),
           \A p \in PresentPages \cap gone : p[1] = t, physical_memory' = physical_memory,
           \A u \in FileTags \ {t} : files'[u] = files[u]
    PROVE  \A u \in FileTags \ {t} : Seen(u)' = Seen(u)
<1>1. ASSUME NEW u \in FileTags \ {t} PROVE NotSeen(u)
  <2>1. ASSUME NEW i PROVE Value(u, i)' = Value(u, i)
    <3> PICK x : x = <<u, i>>
      OBVIOUS
    <3>1. x[1] = u /\ files'[u].data[i] = files[u].data[i]
      OBVIOUS
    <3>2. ~(x \in PresentPages /\ x \in gone)
      BY <3>1
    <3> QED
      BY <3>1, <3>2, DroppedValue
  <2> QED
    BY <2>1 DEF NotSeen
<1> QED
  BY <1>1, SeenKept

\* A File:Tag that does not exist has no pages.
LEMMA NoPages ==
    ASSUME CarefulInv, NEW t, ~Disk!Exists(t), NEW i
    PROVE  <<t, i>> \notin PresentPages
<1> PICK x : x = <<t, i>>
  OBVIOUS
<1>1. x[1] = t
  OBVIOUS
<1> QED
  BY <1>1 DEF CarefulInv, PagesGood, PageGood

\* CREATE and TAG are seen as what they are: a TAG has the blocks that are
\* seen of its source.
LEMMA NewFileView ==
    ASSUME MemoryInv, MemoryInv', CarefulInv, Careless = {}, physical_memory' = physical_memory
    PROVE  /\ \A t \in FileTags : Created(t) => View!Create(t)
           /\ \A t, dst \in FileTags : Tagged(t, dst) => View!Tag(t, dst)
<1>0. StoreTypes
  BY DEF MemoryInv
<1>1. ASSUME NEW t \in FileTags, NEW d \in Seq(Contents), NEW s \in Seq(Contents),
             DOMAIN s = DOMAIN d, \A i \in DOMAIN d : s[i] = d[i],
             ~Disk!Exists(t), Disk!Changed(t, Disk!Stored(d, FALSE)), Dropped({})
      PROVE  View!Changed(t, Disk!Stored(s, FALSE)) /\ ~View!Exists(t)
  <2> PICK gone : gone = {}
    OBVIOUS
  <2>1. Dropped(gone) /\ \A p \in PresentPages \cap gone : p[1] = t
    BY <1>1
  <2>2. /\ files'[t] = Disk!Stored(d, FALSE)
        /\ \A u \in FileTags \ {t} : files'[u] = files[u]
    BY <1>0, <1>1, OneChanged
  <2>3. files'[t] # NoFile /\ files'[t].data = d /\ files'[t].committed = FALSE
    BY <2>2, StoredIsFile
  <2>4. ASSUME NEW i \in DOMAIN s PROVE Value(t, i)' = s[i]
    <3> PICK x : x = <<t, i>>
      OBVIOUS
    <3>1. x \notin PresentPages
      BY <1>1, NoPages
    <3>2. x \notin PresentPages'
      BY <2>1, <3>1 DEF Dropped
    <3>3. Value(t, i)' = files'[t].data[i]
      BY <3>2 DEF Value
    <3> QED
      BY <1>1, <2>3, <3>3
  <2>5. Seen(t)' = Disk!Stored(s, FALSE)
    <3>1. Seen(t)' = Disk!Stored(s, files'[t].committed)
      BY <1>1, <2>3, <2>4, SeenBecomes
    <3> QED
      BY <2>3, <3>1
  <2>6. \A u \in FileTags \ {t} : Seen(u)' = Seen(u)
    BY <2>1, <2>2, OthersSeen
  <2>7. ~View!Exists(t)
    BY <1>1 DEF View!Exists, Seen, view
  <2> QED
    BY <2>5, <2>6, <2>7, ViewChanged
<1>2. ASSUME NEW t \in FileTags, Created(t) PROVE View!Create(t)
  <2> PICK d : d = <<>>
    OBVIOUS
  <2>1. d \in Seq(Contents)
    OBVIOUS
  <2>2. ~Disk!Exists(t) /\ Disk!Changed(t, Disk!Stored(d, FALSE)) /\ Dropped({})
    BY <1>2 DEF Created, Disk!Create
  <2>3. View!Changed(t, Disk!Stored(d, FALSE)) /\ ~View!Exists(t)
    BY <1>1, <2>1, <2>2
  <2> QED
    BY <2>3 DEF View!Create, View!Stored, Disk!Stored
<1>3. ASSUME NEW t \in FileTags, NEW dst \in FileTags, Tagged(t, dst) PROVE View!Tag(t, dst)
  <2> PICK d, s : d = files[t].data /\ s = Seen(t).data
    OBVIOUS
  <2>1. /\ Disk!Exists(t) /\ ~Disk!Exists(dst) /\ Dropped({}) /\ ~Unflushed(t)
        /\ Disk!Changed(dst, Disk!Stored(d, FALSE))
    BY <1>3 DEF Tagged, Disk!Tag
  <2>2. d \in Seq(Contents) /\ DOMAIN d \subseteq Pages
    BY <1>0, <2>1, StoredFile
  <2>3. /\ s \in Seq(Contents) /\ DOMAIN s = DOMAIN d /\ Seen(t) # NoFile
        /\ \A i \in DOMAIN d : s[i] = Value(t, i)
    BY <2>1, SeenNow DEF SeenAs
  <2>4. ASSUME NEW i \in DOMAIN d PROVE s[i] = d[i]
    <3> PICK x : x = <<t, i>>
      OBVIOUS
    <3>1. x[1] = t /\ x[2] = i /\ i \in Pages
      BY <2>2
    <3>2. x \in PresentPages => physical_memory[PageAt(x).frame] = d[i]
      <4>1. ASSUME x \in PresentPages PROVE PageGood(x) /\ ~PageAt(x).dirty
        BY <2>1, <3>1, <4>1 DEF CarefulInv, PagesGood, Unflushed, Dirty
      <4> QED
        BY <3>1, <4>1 DEF PageGood
    <3>3. Value(t, i) = d[i]
      BY <3>2 DEF Value
    <3> QED
      BY <2>3, <3>3
  <2>5. View!Changed(dst, Disk!Stored(s, FALSE)) /\ ~View!Exists(dst)
    BY <1>1, <2>1, <2>2, <2>3, <2>4
  <2>6. View!Exists(t)
    BY <2>3 DEF View!Exists, view
  <2> QED
    BY <2>5, <2>6 DEF View!Tag, View!Stored, Disk!Stored, view
<1> QED
  BY <1>2, <1>3

\* DELETE is seen as one.
LEMMA DeletedView ==
    ASSUME MemoryInv, MemoryInv', physical_memory' = physical_memory, NEW t \in FileTags,
           Deleted(t)
    PROVE  View!Delete(t)
<1> PICK gone : gone = {p \in PresentPages : p[1] = t}
  OBVIOUS
<1>0. StoreTypes
  BY DEF MemoryInv
<1>1. /\ Dropped(gone) /\ Disk!Exists(t) /\ t # Protected /\ Disk!Changed(t, NoFile)
      /\ \A p \in PresentPages \cap gone : p[1] = t
  BY DEF Deleted, Disk!Delete
<1>2. files'[t] = NoFile /\ \A u \in FileTags \ {t} : files'[u] = files[u]
  BY <1>0, <1>1, OneChanged
<1>3. Seen(t)' = NoFile
  BY <1>2 DEF Seen, Disk!Exists
<1>4. View!Changed(t, NoFile)
  BY <1>1, <1>2, <1>3, OthersSeen, ViewChanged
<1>5. View!Exists(t)
  BY <1>1, SeenNow DEF View!Exists, SeenAs, view
<1> QED
  BY <1>1, <1>4, <1>5 DEF View!Delete

\* TRUNCATE is seen as one: what is cut off is gone, what is added is zero.
LEMMA TruncatedView ==
    ASSUME MemoryInv, MemoryInv', CarefulInv, Careless = {},
           physical_memory' = physical_memory, NEW t \in FileTags, NEW n \in 0..MaxBlocks,
           Truncated(t, n)
    PROVE  View!Truncate(t, n)
<1>0. StoreTypes /\ n \in Nat /\ Zeros \in Contents
  BY MemoryAssumption, Sizes DEF MemoryInv, Zeros, Contents
<1> PICK gone, old, s : /\ gone = {p \in PresentPages : p[1] = t /\ p[2] > n}
                        /\ old = files[t].data /\ s = Seen(t).data
  OBVIOUS
<1> PICK d, e : /\ d = [i \in 1..n |-> IF i <= Len(old) THEN old[i] ELSE Zeros]
                /\ e = [i \in 1..n |-> IF i <= Len(s) THEN s[i] ELSE Zeros]
  OBVIOUS
<1>1. /\ Dropped(gone) /\ Disk!Open(t) /\ Disk!Changed(t, Disk!Stored(d, FALSE))
      /\ Disk!Exists(t) /\ \A p \in PresentPages \cap gone : p[1] = t
  BY DEF Truncated, Disk!Truncate, Disk!Open
<1>2. /\ old \in Seq(Contents) /\ Len(old) \in Nat /\ DOMAIN old = 1..Len(old)
      /\ \A i \in DOMAIN old : old[i] \in Contents
  BY <1>0, <1>1, StoredFile
<1>3. /\ s \in Seq(Contents) /\ Len(s) = Len(old) /\ DOMAIN s = DOMAIN old
      /\ Seen(t) # NoFile /\ Seen(t).committed = files[t].committed
      /\ \A i \in DOMAIN old : s[i] = Value(t, i)
  BY <1>1, SeenNow DEF SeenAs
<1>4. ASSUME NEW l \in Seq(Contents), NEW w,
             w = [i \in 1..n |-> IF i <= Len(l) THEN l[i] ELSE Zeros]
      PROVE  /\ w \in Seq(Contents) /\ DOMAIN w = 1..n
             /\ \A i \in 1..n : w[i] = IF i <= Len(l) THEN l[i] ELSE Zeros
  BY <1>0, <1>4
<1>5. /\ d \in Seq(Contents) /\ DOMAIN d = 1..n
      /\ \A i \in 1..n : d[i] = IF i <= Len(old) THEN old[i] ELSE Zeros
  BY <1>2, <1>4
<1>6. /\ e \in Seq(Contents) /\ DOMAIN e = 1..n
      /\ \A i \in 1..n : e[i] = IF i <= Len(old) THEN s[i] ELSE Zeros
  BY <1>3, <1>4
<1>7. files'[t] = Disk!Stored(d, FALSE) /\ \A u \in FileTags \ {t} : files'[u] = files[u]
  BY <1>0, <1>1, OneChanged
<1>8. files'[t] # NoFile /\ files'[t].data = d /\ files'[t].committed = FALSE
  BY <1>5, <1>7, StoredIsFile
<1>9. ASSUME NEW i \in 1..n PROVE Value(t, i)' = e[i]
  <2> PICK x : x = <<t, i>>
    OBVIOUS
  <2>1. x[1] = t /\ x[2] = i /\ x \notin gone
    BY <1>0
  <2>2. CASE i <= Len(old)
    <3>1. files'[t].data[i] = files[t].data[i]
      BY <1>5, <1>8, <2>2
    <3>2. Value(t, i)' = Value(t, i)
      BY <1>1, <2>1, <3>1, DroppedValue
    <3>3. i \in DOMAIN old
      BY <1>0, <1>2, <2>2
    <3> QED
      BY <1>3, <1>6, <2>2, <3>2, <3>3
  <2>3. CASE ~(i <= Len(old))
    <3>1. x \notin PresentPages
      <4>1. i \notin DOMAIN old
        BY <1>0, <1>2, <2>3
      <4> QED
        BY <2>1, <4>1 DEF CarefulInv, PagesGood, PageGood
    <3>2. x \notin PresentPages'
      BY <1>1, <3>1 DEF Dropped
    <3>3. Value(t, i)' = files'[t].data[i]
      BY <3>2 DEF Value
    <3> QED
      BY <1>5, <1>6, <1>8, <2>3, <3>3
  <2> QED
    BY <2>2, <2>3
<1>10. Seen(t)' = Disk!Stored(e, FALSE)
  <2>1. Seen(t)' = Disk!Stored(e, files'[t].committed)
    BY <1>5, <1>6, <1>8, <1>9, SeenBecomes
  <2> QED
    BY <1>8, <2>1
<1>11. View!Changed(t, Disk!Stored(e, FALSE))
  BY <1>1, <1>7, <1>10, OthersSeen, ViewChanged
<1>12. View!Open(t)
  BY <1>1, <1>3 DEF View!Open, View!Exists, Disk!Open, view
<1> QED
  BY <1>11, <1>12 DEF View!Truncate, View!Stored, Disk!Stored, view

\* A DELETE that fails leaves what the Storage has.
LEMMA NotDeletedView ==
    ASSUME MemoryInv, MemoryInv', NEW t \in FileTags, NotDeleted(t), Disk!Exists(t),
           StorageFull
    PROVE  Undone
<1> PICK gone, d : gone = {p \in PresentPages : p[1] = t} /\ d = files[t].data
  OBVIOUS
<1>1. /\ Dropped(gone) /\ files' = files /\ physical_memory' = physical_memory
      /\ instr = Idle /\ Fails
      /\ \A p \in PresentPages \cap gone : p[1] = t
  BY DEF NotDeleted
<1>2. StoreTypes /\ files[t] # NoFile
  BY DEF MemoryInv, Disk!Exists
<1>3. d \in Seq(Contents) /\ files[t].committed \in BOOLEAN
  BY <1>2, StoredFile
<1>4. ASSUME NEW i \in DOMAIN d PROVE Value(t, i)' = d[i]
  <2> PICK x : x = <<t, i>>
    OBVIOUS
  <2>1. x[1] = t /\ x \notin PresentPages'
    BY <1>1 DEF Dropped
  <2> QED
    BY <1>1, <2>1 DEF Value
<1>5. Seen(t)' = Disk!Stored(d, files[t].committed)
  BY <1>1, <1>2, <1>3, <1>4, SeenBecomes
<1>6. files[t] = Disk!Stored(d, files[t].committed)
  BY <1>2 DEF StoreTypes, StoredFiles, Disk!Stored
<1>7. \A u \in FileTags \ {t} : Seen(u)' = Seen(u)
  BY <1>1, OthersSeen
<1>8. view' = [view EXCEPT ![t] = files[t]]
  BY <1>5, <1>6, <1>7 DEF view
<1> QED
  BY <1>1, <1>8 DEF Undone, Fails

\* Every step is seen as a step of FileStore, or not at all, unless it is a
\* DELETE that fails.
LEMMA ViewStep ==
    ASSUME MemoryInv, MemoryInv', CarefulInv, Careless = {}, Effect
    PROVE  View!Next \/ Undone
<1>1. ASSUME \A t \in FileTags : Seen(t)' = Seen(t) PROVE View!Next
  BY <1>1 DEF View!Next, View!Refuse, view
<1>2. ASSUME \/ Quiet
             \/ \E p \in PresentPages : Evicted(p) \/ Flushed(p)
             \/ \E t \in FileTags, i \in Pages, f \in Frames : Loaded(t, i, f)
             \/ \E t \in FileTags : NotDeleted(t) /\ (~Disk!Exists(t) \/ t = Protected)
      PROVE  View!Next
  BY <1>1, <1>2, HiddenEffects, SeenKept
<1>3. ASSUME NEW p \in PresentPages, Copied(p) PROVE View!Next
  <2>1. ASSUME NEW t \in FileTags, NEW i \in Pages, NEW c \in Contents, View!Write(t, i, c)
        PROVE  View!Next
    BY <2>1 DEF View!Next, Pages
  <2> QED
    BY <1>1, <1>3, <2>1, CopiedView
<1>4. CASE Committed
  BY <1>4, CommittedView DEF View!Next
<1>5. CASE Executed
  <2>1. physical_memory' = physical_memory
    BY <1>5 DEF Executed
  <2>2. ASSUME NEW t \in FileTags, Created(t) \/ Deleted(t) PROVE View!Next
    BY <2>1, <2>2, NewFileView, DeletedView DEF View!Next
  <2>3. ASSUME NEW t \in FileTags, NEW n \in 0..MaxBlocks, Truncated(t, n) PROVE View!Next
    BY <2>1, <2>3, TruncatedView DEF View!Next
  <2>4. ASSUME NEW t \in FileTags, NEW dst \in FileTags, Tagged(t, dst) PROVE View!Next
    BY <2>1, <2>4, NewFileView DEF View!Next
  <2> QED
    BY <1>5, <2>2, <2>3, <2>4 DEF Executed
<1>6. ASSUME NEW t \in FileTags, NotDeleted(t) PROVE View!Next \/ Undone
  <2>1. CASE ~Disk!Exists(t) \/ t = Protected
    BY <1>2, <1>6, <2>1
  <2>2. CASE Disk!Exists(t) /\ t # Protected
    BY <1>6, <2>2, NotDeletedView DEF NotDeleted
  <2> QED
    BY <2>1, <2>2
<1> QED
  BY <1>2, <1>3, <1>4, <1>5, <1>6 DEF Effect

\* At first the queries see what the Storage has.
LEMMA ViewStart ==
    ASSUME Init
    PROVE  View!Init
<1>1. PresentPages = {} /\ \A t \in FileTags : \A i : ~Present(t, i)
  <2>1. \A t \in FileTags : PageCount(t) = 0
    BY DEF Init, PageCount
  <2>2. \A t \in FileTags : \A i : ~Present(t, i)
    BY <2>1 DEF Present
  <2> QED
    BY <2>2 DEF PresentPages
<1>2. Zeros \in Contents /\ Protected \in FileTags
  BY MemoryAssumption DEF Zeros, Contents
<1>3. /\ files[Protected] = Disk!Stored(<<Zeros>>, TRUE)
      /\ \A t \in FileTags \ {Protected} : files[t] = NoFile
  BY <1>2 DEF Init, Disk!Init
<1>4. \A t \in FileTags \ {Protected} : Seen(t) = NoFile
  BY <1>3 DEF Seen, Disk!Exists
<1> PICK d : d = <<Zeros>>
  OBVIOUS
<1>5. d \in Seq(Contents) /\ DOMAIN d = {1} /\ d[1] = Zeros
  BY <1>2
<1>6. /\ files[Protected].data = d /\ files[Protected].committed = TRUE
      /\ Disk!Exists(Protected)
  BY <1>3, <1>5, StoredIsFile DEF Disk!Exists
<1>7. Seen(Protected) = Disk!Stored(d, TRUE)
  <2>1. MemoryInv
    BY MemoryStart
  <2> PICK s : s = Seen(Protected).data
    OBVIOUS
  <2>2. /\ s \in Seq(Contents) /\ DOMAIN s = DOMAIN d
        /\ \A i \in DOMAIN d : s[i] = Value(Protected, i)
        /\ Seen(Protected) = Disk!Stored(s, TRUE)
    BY <1>2, <1>6, <2>1, SeenNow DEF SeenAs
  <2>3. \A i \in DOMAIN d : s[i] = d[i]
    BY <1>1, <1>6, <2>2 DEF Value
  <2>4. s = d
    BY <1>5, <2>2, <2>3, SameList
  <2> QED
    BY <2>2, <2>4
<1> QED
  BY <1>2, <1>4, <1>7 DEF View!Init, View!Stored, Disk!Stored, view

\* Nothing changes, nothing is seen.
LEMMA ViewStutters == UNCHANGED vars => view' = view
  BY DEF view, vars, tables, Seen, Disk!Exists, Present, PageCount, FrameOf

\* The memory is invisible: whichever pages are present, evicted, cut off or
\* deleted, and whatever the Storage refuses, a query sees the File:Tags change
\* as FileStore says.  Only a DELETE that the Storage refuses for a link that its
\* lack of space cost loses what was not written back.
THEOREM MemoryImplementsFileStore ==
    ASSUME Careless = {}
    PROVE  Spec => ImplementsFileStore
<1>1. ASSUME MemoryInv, MemoryInv', CarefulInv, [Next]_vars
      PROVE  [View!Next \/ Undone]_view
  <2>1. CASE Effect
    BY <1>1, <2>1, ViewStep
  <2>2. CASE UNCHANGED vars
    BY <2>2, ViewStutters
  <2> QED
    BY <1>1, <2>1, <2>2, MemoryStep
<1> QED
  BY <1>1, CarefulAlways, ViewStart, PTL DEF Spec, ImplementsFileStore

-----------------------------------------------------------------------------
(* What a WRITE does to the bytes.                                         *)

\* Pages do not overlap, and have no gaps between them.
LEMMA Addresses ==
    ASSUME NEW p \in Nat \ {0}, NEW q \in Offsets
    PROVE  /\ Addr(p, q) \in Nat
           /\ Addr(p + 1, 0) = Addr(p, q) + (PageSize - q)
           /\ \A o \in Offsets : Addr(p, o) = Addr(p, q) + (o - q)
           /\ \A k \in Nat \ {0}, o \in Offsets :
                 /\ k >= p + 1 => Addr(k, o) >= Addr(p, q) + (PageSize - q)
                 /\ k + 1 <= p => Addr(k, o) < Addr(p, q)
<1>1. /\ PageSize \in Nat /\ PageSize > 0 /\ Offsets = 0..PageSize - 1
      /\ p - 1 \in Nat /\ p >= 1 /\ p \in Nat
  BY Sizes DEF Offsets
<1>2. \A j \in Nat : j * PageSize \in Nat
  BY <1>1, Product
<1>3. \A j \in Nat : (j + 1) * PageSize = j * PageSize + PageSize
  BY <1>1
<1>4. ASSUME NEW i \in Nat, NEW j \in Nat, i <= j PROVE i * PageSize <= j * PageSize
  BY <1>1, <1>4
<1> DEFINE Start(k) == k * PageSize
<1>5. \A k \in Nat \ {0} : \A o : Addr(k, o) = Start(k - 1) + o
  BY DEF Addr
<1>6. \A j \in Nat : Start(j) \in Nat /\ Start(j + 1) = Start(j) + PageSize
  BY <1>2, <1>3
<1>7. \A i, j \in Nat : i <= j => Start(i) <= Start(j)
  BY <1>4
<1> HIDE DEF Start
<1>8. Addr(p, q) = Start(p - 1) + q /\ Start(p - 1) \in Nat /\ q \in 0..PageSize - 1
      /\ Start(p) = Start(p - 1) + PageSize
  <2>1. (p - 1) + 1 = p
    BY <1>1
  <2> QED
    BY <1>1, <1>5, <1>6, <2>1
<1>9. Addr(p + 1, 0) = Start(p) + 0
  <2>1. p + 1 \in Nat \ {0} /\ (p + 1) - 1 = p
    BY <1>1
  <2> QED
    BY <1>5, <2>1
<1>10. ASSUME NEW k \in Nat \ {0}, NEW o \in Offsets, k >= p + 1
       PROVE  Addr(k, o) >= Addr(p, q) + (PageSize - q)
  <2>1. k - 1 \in Nat /\ p <= k - 1 /\ o \in 0..PageSize - 1
    BY <1>1, <1>10
  <2>2. Start(p) <= Start(k - 1) /\ Start(k - 1) \in Nat /\ Start(p) \in Nat
    BY <1>1, <1>6, <1>7, <2>1
  <2>3. Addr(k, o) = Start(k - 1) + o
    BY <1>5
  <2> QED
    BY <1>1, <1>8, <2>1, <2>2, <2>3
<1>11. ASSUME NEW k \in Nat \ {0}, NEW o \in Offsets, k + 1 <= p
       PROVE  Addr(k, o) < Addr(p, q)
  <2>1. /\ k - 1 \in Nat /\ k \in Nat /\ k <= p - 1 /\ o \in 0..PageSize - 1
        /\ (k - 1) + 1 = k
    BY <1>1, <1>11
  <2>2. /\ Start(k) <= Start(p - 1) /\ Start(k) = Start(k - 1) + PageSize
        /\ Start(k - 1) \in Nat /\ Start(k) \in Nat
    BY <1>1, <1>6, <1>7, <2>1
  <2>3. Addr(k, o) = Start(k - 1) + o
    BY <1>5
  <2> QED
    BY <1>1, <1>8, <2>1, <2>2, <2>3
<1>12. ASSUME NEW o \in Offsets PROVE Addr(p, o) = Addr(p, q) + (o - q)
  <2>1. Addr(p, o) = Start(p - 1) + o
    BY <1>5
  <2> QED
    BY <1>1, <1>8, <2>1
<1>13. Addr(p, q) \in Nat /\ Addr(p + 1, 0) = Addr(p, q) + (PageSize - q)
  BY <1>1, <1>8, <1>9
<1> QED
  BY <1>10, <1>11, <1>12, <1>13

\* The addresses of n bytes of a page.
LEMMA AddressesIn ==
    ASSUME NEW p \in Nat \ {0}, NEW q \in Offsets, NEW n \in Nat, q + n <= PageSize,
           NEW k \in Nat \ {0}, NEW o \in Offsets
    PROVE  /\ Addr(k, o) \in Nat
           /\ Addr(p, q) <= Addr(k, o) /\ Addr(k, o) < Addr(p, q) + n
              <=> k = p /\ o \in q..q + n - 1
<1>1. /\ PageSize \in Nat /\ q \in 0..PageSize - 1 /\ o \in 0..PageSize - 1
      /\ k \in Nat /\ p \in Nat
  BY Sizes DEF Offsets
<1>2. /\ Addr(p, q) \in Nat /\ Addr(k, o) \in Nat
      /\ Addr(p, o) = Addr(p, q) + (o - q)
      /\ k >= p + 1 => Addr(k, o) >= Addr(p, q) + (PageSize - q)
      /\ k + 1 <= p => Addr(k, o) < Addr(p, q)
  BY Addresses
<1>3. CASE k = p
  BY <1>1, <1>2, <1>3
<1>4. CASE k >= p + 1
  BY <1>1, <1>2, <1>4
<1>5. CASE k + 1 <= p
  BY <1>1, <1>2, <1>5
<1> QED
  BY <1>1, <1>2, <1>3, <1>4, <1>5

\* The addresses of bytes of one page.
LEMMA BytesOfPage ==
    ASSUME NEW p \in Nat \ {0}, NEW q \in Offsets, NEW n \in Nat, q + n <= PageSize,
           NEW o \in Offsets, o \in q..q + n - 1
    PROVE  /\ Addr(p, q) \in Nat
           /\ Addr(p, q) <= Addr(p, o) /\ Addr(p, o) < Addr(p, q) + n
  BY Addresses, AddressesIn

\* The bytes from `base` up to n are seen to be `byte`.
AllAre(t, base, n, byte) ==
    \A k \in Nat \ {0}, o \in Offsets :
        base <= Addr(k, o) /\ Addr(k, o) < n =>
            Disk!Exists(t) /\ k \in DOMAIN files[t].data /\ Value(t, k)[o] = byte

\* How far an access is.
Position == instr.base + (instr.size - instr.left)

\* What a WRITE has passed over is written.
WriteSoFar ==
    Accessing /\ instr.op = "WRITE" =>
        /\ instr.left <= instr.size
        /\ Position = Addr(instr.page, instr.offset)
        /\ AllAre(instr.t, instr.base, Position, instr.byte)

\* The numbers of an access.
LEMMA AccessNumbers ==
    ASSUME NEW r \in Accesses
    PROVE  /\ r.t \in FileTags /\ r.base \in Nat /\ r.size \in Nat /\ r.left \in Nat
           /\ r.page \in Nat /\ r.offset \in Offsets
  BY AccessFields, BaseIsNumber

\* A copy of bytes is the next part of the WRITE.
LEMMA CopiedWrites ==
    ASSUME MemoryInv, MemoryInv', CarefulInv, WriteSoFar, NEW x \in PresentPages, Copied(x),
           instr.op = "WRITE", NEW t, NEW base, NEW n, NEW byte,
           t = instr.t, base = instr.base, byte = instr.byte,
           n = Position + bytes_to_copy
    PROVE  /\ AllAre(t, base, n, byte)'
           /\ bytes_to_copy <= instr.left /\ instr.left <= instr.size
           /\ n = Addr(instr.page, instr.offset) + bytes_to_copy
           /\ Addr(instr.page, instr.offset) >= base
<1> PICK i, q, m : i = instr.page /\ q = instr.offset /\ m = bytes_to_copy
  OBVIOUS
<1>1. /\ Accessing /\ instr \in Accesses /\ instr.left > 0
  BY DEF Copied
<1>2. /\ t \in FileTags /\ base \in Nat /\ instr.size \in Nat /\ instr.left \in Nat
      /\ q \in Offsets
  BY <1>1, AccessNumbers
<1>3. m \in Nat /\ m <= instr.left /\ q + m <= PageSize
  BY <1>1, BytesToCopy
<1>4. /\ instr.left <= instr.size /\ Position = Addr(i, q)
      /\ AllAre(t, base, Position, byte)
  BY <1>1 DEF WriteSoFar
<1>5. /\ x[1] = t /\ x[2] = i
      /\ Disk!Exists(t) /\ i \in DOMAIN files[t].data /\ files' = files
      /\ \A k \in DOMAIN files[t].data \ {i} : Value(t, k)' = Value(t, k)
      /\ \A o \in Offsets : Value(t, i)'[o] = IF o \in q..q + m - 1 THEN byte
                                              ELSE Value(t, i)[o]
  BY CopiedSeen
<1>6. i \in Nat \ {0}
  <2>1. StoreTypes
    BY DEF MemoryInv
  <2>2. DOMAIN files[t].data = 1..Len(files[t].data) /\ Len(files[t].data) \in Nat
    BY <1>2, <1>5, <2>1, StoredFile
  <2> QED
    BY <1>5, <2>2
<1>7. ASSUME NEW k \in Nat \ {0}, NEW o \in Offsets, base <= Addr(k, o), Addr(k, o) < n
      PROVE  files'[t] # NoFile /\ k \in DOMAIN files'[t].data /\ Value(t, k)'[o] = byte
  <2>1. /\ Addr(k, o) \in Nat /\ Addr(i, q) \in Nat
        /\ Addr(i, q) <= Addr(k, o) /\ Addr(k, o) < Addr(i, q) + m
           <=> k = i /\ o \in q..q + m - 1
    BY <1>2, <1>3, <1>6, Addresses, AddressesIn
  <2>2. CASE Addr(k, o) < Addr(i, q)
    <3>1. k \in DOMAIN files[t].data /\ Value(t, k)[o] = byte
      BY <1>4, <1>7, <2>2 DEF AllAre
    <3>2. Value(t, k)'[o] = byte
      BY <1>5, <3>1
    <3> QED
      BY <1>5, <3>1, <3>2 DEF Disk!Exists
  <2>3. CASE Addr(i, q) <= Addr(k, o)
    <3>1. k = i /\ o \in q..q + m - 1
      BY <1>4, <1>7, <2>1, <2>3
    <3> QED
      BY <1>5, <3>1 DEF Disk!Exists
  <2> QED
    BY <2>1, <2>2, <2>3
<1>8. AllAre(t, base, n, byte)'
  BY <1>7 DEF AllAre, Disk!Exists
<1>9. Position >= base
  BY <1>2, <1>4 DEF Position
<1> QED
  BY <1>3, <1>4, <1>8, <1>9

\* The write goes on where it was.
LEMMA WriteSoFarStep ==
    ASSUME MemoryInv, MemoryInv', CarefulInv, WriteSoFar, Effect
    PROVE  WriteSoFar'
<1> SUFFICES ASSUME Accessing', instr'.op = "WRITE"
             PROVE  /\ instr'.left <= instr'.size
                    /\ Position' = Addr(instr'.page, instr'.offset)
                    /\ AllAre(instr.t, instr.base, Position, instr.byte)'
  BY DEF WriteSoFar, Addr
<1>0. TypeOK'
  BY DEF MemoryInv
<1>1. CASE Started
  <2>1. /\ instr' \in Accesses /\ instr'.left = instr'.size
        /\ instr'.base = Addr(instr'.page, instr'.offset)
    BY <1>1 DEF Started, Address, Addr
  <2>2. instr'.base \in Nat /\ instr'.size \in Nat
    BY <2>1, AccessNumbers
  <2>3. Position' = instr'.base /\ instr'.left <= instr'.size
    BY <2>1, <2>2 DEF Position
  <2> PICK t, base, n, byte : t = instr'.t /\ base = instr'.base /\ n = Position'
                              /\ byte = instr'.byte
    OBVIOUS
  <2>4. \A k \in Nat \ {0}, o \in Offsets : ~(base <= Addr(k, o) /\ Addr(k, o) < n)
    <3>1. ASSUME NEW k \in Nat \ {0}, NEW o \in Offsets
          PROVE  ~(base <= Addr(k, o) /\ Addr(k, o) < n)
      <4>1. Addr(k, o) \in Nat /\ n \in Nat /\ base = n
        BY <2>2, <2>3, Addresses
      <4> QED
        BY <4>1
    <3> QED
      BY <3>1
  <2>5. AllAre(t, base, n, byte)'
    BY <2>4 DEF AllAre
  <2>6. AllAre(instr.t, instr.base, Position, instr.byte)'
    BY <2>5 DEF AllAre
  <2> QED
    BY <2>1, <2>3, <2>6
<1>2. CASE Accessing /\ ~Committed /\ instr' = instr /\ \A p \in PresentPages : ~Copied(p)
  <2>1. /\ instr.left <= instr.size /\ Position = Addr(instr.page, instr.offset)
        /\ AllAre(instr.t, instr.base, Position, instr.byte)
    BY <1>2 DEF WriteSoFar
  <2>2. Position' = Position
    BY <1>2 DEF Position
  <2>3. instr.t \in FileTags
    BY <1>2, MemoryTypes, AccessFields DEF MemoryInv
  <2>4. \A t \in FileTags : NotSeen(t)
    <3>1. ~Executed /\ \A t \in FileTags : ~NotDeleted(t)
      BY <1>2 DEF Executed, NotDeleted, Accessing
    <3> QED
      BY <1>2, <3>1, HiddenEffects DEF Effect
  <2> PICK t, base, n, byte : t = instr.t /\ base = instr.base /\ n = Position
                              /\ byte = instr.byte
    OBVIOUS
  <2>5. AllAre(t, base, n, byte)'
    <3>1. ASSUME NEW k \in Nat \ {0}, NEW o \in Offsets, base <= Addr(k, o), Addr(k, o) < n
          PROVE  files'[t] # NoFile /\ k \in DOMAIN files'[t].data /\ Value(t, k)'[o] = byte
      <4>1. Disk!Exists(t) /\ k \in DOMAIN files[t].data /\ Value(t, k)[o] = byte
        BY <2>1, <3>1 DEF AllAre
      <4>2. NotSeen(t)
        BY <2>3, <2>4
      <4> QED
        BY <4>1, <4>2 DEF NotSeen, Disk!Exists
    <3> QED
      BY <3>1 DEF AllAre, Disk!Exists
  <2>6. AllAre(instr.t, instr.base, Position, instr.byte)'
    BY <1>2, <2>2, <2>5 DEF AllAre
  <2> QED
    BY <1>2, <2>1, <2>2, <2>6
<1>3. CASE /\ instr'.op = instr.op /\ instr'.t = instr.t /\ instr'.byte = instr.byte
           /\ instr'.base = instr.base /\ instr'.size = instr.size
           /\ \E p \in PresentPages : Copied(p)
           /\ instr' = Advanced(bytes_to_copy) /\ bytes_to_copy # instr.left
  <2> PICK x \in PresentPages : Copied(x)
    BY <1>3
  <2> PICK t, base, n, byte : t = instr.t /\ base = instr.base /\ byte = instr.byte
                              /\ n = Position + bytes_to_copy
    OBVIOUS
  <2>1. instr \in Accesses /\ instr.left > 0
    BY DEF Copied
  <2>2. /\ AllAre(t, base, n, byte)'
        /\ bytes_to_copy <= instr.left /\ instr.left <= instr.size
        /\ n = Addr(instr.page, instr.offset) + bytes_to_copy
    BY <1>3, CopiedWrites
  <2>3. /\ instr.base \in Nat /\ instr.size \in Nat /\ instr.left \in Nat
        /\ instr.offset \in Offsets
    BY <2>1, AccessNumbers
  <2>4. bytes_to_copy \in Nat /\ instr.offset + bytes_to_copy = PageSize
    BY <1>3, <2>1, BytesToCopy
  <2>5. /\ instr'.left = instr.left - bytes_to_copy
        /\ instr'.page = instr.page + 1 /\ instr'.offset = 0
    BY <1>3, <2>1 DEF Advanced, Accesses
  <2>6. Position' = n
    <3>1. Position' = instr.base + (instr.size - (instr.left - bytes_to_copy))
      BY <1>3, <2>5 DEF Position
    <3>2. n = (instr.base + (instr.size - instr.left)) + bytes_to_copy
      BY DEF Position
    <3> QED
      BY <2>3, <2>4, <3>1, <3>2
  <2>7. instr'.left <= instr'.size
    BY <1>3, <2>2, <2>3, <2>4, <2>5
  <2>8. Addr(instr'.page, instr'.offset) = n
    <3>1. instr.page \in Nat \ {0}
      <4>1. AccessInTable /\ Accessing /\ page_table \in Tables /\ instr.t \in FileTags
        BY <2>1, MemoryTypes, AccessFields DEF MemoryInv, Copied
      <4>2. instr.page \in 1..PageCount(instr.t) /\ PageCount(instr.t) \in Nat
        BY <4>1 DEF AccessInTable, PageCount, Tables
      <4> QED
        BY <4>2
    <3>2. /\ Addr(instr.page + 1, 0)
             = Addr(instr.page, instr.offset) + (PageSize - instr.offset)
      BY <2>3, <3>1, Addresses
    <3>3. PageSize - instr.offset = bytes_to_copy
      <4>1. instr.offset \in 0..PageSize - 1
        BY <2>3 DEF Offsets
      <4> QED
        BY <2>4, <4>1, Sizes
    <3> QED
      BY <2>2, <2>5, <3>2, <3>3
  <2>9. AllAre(instr.t, instr.base, Position, instr.byte)'
    BY <1>3, <2>2, <2>6 DEF AllAre
  <2> QED
    BY <2>6, <2>7, <2>8, <2>9
<1> QED
  BY <1>1, <1>2, <1>3, AccessGoesOn

\* An address of a File:Tag is in one of its blocks.
LEMMA InFile ==
    ASSUME NEW l \in Nat, NEW a \in 0..l * PageSize - 1
    PROVE  a \in Nat /\ a \div PageSize + 1 \in 1..l
<1> PICK q, m, z : q = a \div PageSize /\ m = a % PageSize /\ z = l * PageSize
  OBVIOUS
<1>1. z \in Nat
  BY Sizes, Product
<1>2. a \in Nat /\ a < z
  BY <1>1
<1>3. q \in Nat /\ m \in 0..PageSize - 1 /\ a = PageSize * q + m
  BY <1>2, Sizes
<1>4. q < l
  <2>1. SUFFICES ASSUME q >= l PROVE FALSE
    BY <1>3
  <2>2. PageSize * q >= PageSize * l
    BY <1>3, <2>1, Sizes
  <2>3. PageSize * l = z
    BY Sizes
  <2>4. PageSize * q \in Nat
    BY <1>3, Sizes, Product
  <2> QED
    BY <1>2, <1>3, <2>2, <2>3, <2>4, Sizes
<1> QED
  BY <1>2, <1>3, <1>4

\* What WritesExact says of a step: of the other bytes, and of the end of a
\* WRITE.
OnlyWritten ==
    \A t \in FileTags : Disk!Exists(t) =>
        \A a \in 0..Len(files[t].data) * PageSize - 1 :
            \/ ByteAt(t, a)' = ByteAt(t, a)
            \/ /\ instr.op = "WRITE" /\ t = instr.t /\ a \in Written
               /\ ByteAt(t, a)' = instr.byte
AllWritten ==
    (instr.op = "WRITE" /\ instr' = Idle) =>
        \A t \in {instr.t}, a \in Written : ByteAt(t, a)' = instr.byte

\* While an instruction is executed no other byte is seen to change.
LEMMA OnlyWrittenStep ==
    ASSUME MemoryInv, MemoryInv', CarefulInv, WriteSoFar, Effect, instr # Idle
    PROVE  OnlyWritten
<1>0. StoreTypes
  BY DEF MemoryInv
<1> SUFFICES ASSUME NEW t \in FileTags, Disk!Exists(t),
                    NEW a \in 0..Len(files[t].data) * PageSize - 1
             PROVE  \/ ByteAt(t, a)' = ByteAt(t, a)
                    \/ /\ instr.op = "WRITE" /\ t = instr.t /\ a \in Written
                       /\ ByteAt(t, a)' = instr.byte
  BY DEF OnlyWritten
<1> PICK k, o : k = a \div PageSize + 1 /\ o = a % PageSize
  OBVIOUS
<1>1. ByteAt(t, a) = Seen(t).data[k][o] /\ ByteAt(t, a)' = Seen(t)'.data[k][o]
  BY DEF ByteAt
<1>2. /\ DOMAIN files[t].data = 1..Len(files[t].data) /\ Len(files[t].data) \in Nat
  BY <1>0, StoredFile
<1>3. a \in Nat /\ k \in DOMAIN files[t].data
  BY <1>2, InFile
<1>4. k \in Nat \ {0} /\ o \in Offsets /\ a = Addr(k, o)
  BY <1>3, Divided DEF Address
<1>5. ASSUME Seen(t)'.data = Seen(t).data PROVE ByteAt(t, a)' = ByteAt(t, a)
  BY <1>1, <1>5
<1>6. CASE Committed
  <2>1. PICK u \in FileTags : View!Commit(u)
    BY <1>6, CommittedView
  <2>2. /\ Seen(u)' = [data |-> Seen(u).data, committed |-> TRUE]
        /\ \A v \in FileTags \ {u} : Seen(v)' = Seen(v)
    BY <2>1 DEF View!Commit, View!Changed, View!Stored, view
  <2>3. Seen(t)'.data = Seen(t).data
    BY <2>2
  <2> QED
    BY <1>5, <2>3
<1>7. ASSUME NEW x \in PresentPages, Copied(x)
      PROVE  \/ ByteAt(t, a)' = ByteAt(t, a)
             \/ /\ instr.op = "WRITE" /\ t = instr.t /\ a \in Written
                /\ ByteAt(t, a)' = instr.byte
  <2>1. /\ x[1] = instr.t /\ x[2] = instr.page /\ files' = files
        /\ \A u \in FileTags \ {x[1]} : NotSeen(u)
        /\ \A i \in DOMAIN files[x[1]].data \ {x[2]} : Value(x[1], i)' = Value(x[1], i)
        /\ \A off \in Offsets :
              Value(x[1], x[2])'[off] =
                  IF instr.op = "WRITE"
                     /\ off \in instr.offset..instr.offset + bytes_to_copy - 1
                  THEN instr.byte ELSE Value(x[1], x[2])[off]
        /\ instr.op # "WRITE" => NotSeen(x[1])
    BY <1>7, CopiedSeen
  <2>2. CASE t # x[1] \/ instr.op # "WRITE"
    <3>1. NotSeen(t)
      BY <2>1, <2>2
    <3> QED
      BY <1>5, <3>1, SeenKept
  <2>3. CASE t = x[1] /\ instr.op = "WRITE"
    <3>1. Seen(t).data[k] = Value(t, k)
      BY <1>3, SeenNow DEF SeenAs
    <3>2. Seen(t)'.data[k] = Value(t, k)'
      <4>1. files'[t] # NoFile /\ k \in DOMAIN files'[t].data
        BY <1>3, <2>1 DEF Disk!Exists
      <4> QED
        BY <4>1, SeenThen DEF SeenAs
    <3>3. CASE k # x[2] \/ ~(o \in instr.offset..instr.offset + bytes_to_copy - 1)
      <4>1. Value(t, k)'[o] = Value(t, k)[o]
        BY <1>3, <1>4, <2>1, <2>3, <3>3
      <4> QED
        BY <1>1, <3>1, <3>2, <4>1
    <3>4. CASE k = x[2] /\ o \in instr.offset..instr.offset + bytes_to_copy - 1
      <4>1. Value(t, k)'[o] = instr.byte
        BY <1>4, <2>1, <2>3, <3>4
      <4>2. ByteAt(t, a)' = instr.byte
        BY <1>1, <3>2, <4>1
      <4> PICK b, n, q, m : /\ b = instr.base /\ n = Position + bytes_to_copy
                            /\ q = instr.offset /\ m = bytes_to_copy
        OBVIOUS
      <4>3. /\ bytes_to_copy <= instr.left /\ instr.left <= instr.size
            /\ n = Addr(k, q) + m /\ Addr(k, q) >= b
        BY <1>7, <2>1, <2>3, <3>4, CopiedWrites
      <4>4. /\ instr \in Accesses /\ instr.left > 0
        BY <1>7 DEF Copied
      <4>5. /\ b \in Nat /\ instr.size \in Nat /\ instr.left \in Nat /\ q \in Offsets
            /\ m \in Nat /\ q + m <= PageSize
        BY <4>4, AccessNumbers, BytesToCopy
      <4>6. Addr(k, q) <= a /\ a < Addr(k, q) + m /\ Addr(k, q) \in Nat
        <5>1. o \in q..q + m - 1
          BY <3>4
        <5>2. /\ Addr(k, q) \in Nat
              /\ Addr(k, q) <= Addr(k, o) /\ Addr(k, o) < Addr(k, q) + m
          BY <1>4, <4>5, <5>1, BytesOfPage
        <5> QED
          BY <1>4, <5>2
      <4>7. n <= b + instr.size
        BY <4>3, <4>5 DEF Position
      <4>8. a \in b..b + instr.size - 1
        BY <1>3, <4>3, <4>5, <4>6, <4>7
      <4>9. a \in Written
        BY <4>8 DEF Written
      <4> QED
        BY <2>1, <2>3, <4>2, <4>9
    <3> QED
      BY <3>3, <3>4
  <2> QED
    BY <2>2, <2>3
<1>8. CASE \/ Quiet
           \/ \E p \in PresentPages : Evicted(p) \/ Flushed(p)
           \/ \E u \in FileTags, i \in Pages, f \in Frames : Loaded(u, i, f)
  <2>1. NotSeen(t)
    BY <1>8, HiddenEffects
  <2> QED
    BY <1>5, <2>1, SeenKept
<1>9. ~Executed /\ \A u \in FileTags : ~NotDeleted(u)
  BY DEF Executed, NotDeleted
<1> QED
  BY <1>6, <1>7, <1>8, <1>9 DEF Effect

\* When a WRITE ends well, every byte of it is written.
LEMMA AllWrittenStep ==
    ASSUME MemoryInv, MemoryInv', CarefulInv, WriteSoFar, Effect, instr # Idle
    PROVE  AllWritten
<1> SUFFICES ASSUME instr.op = "WRITE", instr' = Idle, NEW a \in Written
             PROVE  \A t \in {instr.t} : ByteAt(t, a)' = instr.byte
  BY DEF AllWritten
<1>0. TypeOK /\ Accessing
  BY DEF MemoryInv, Accessing
<1>1. instr \in Accesses
  BY <1>0, MemoryTypes
<1>2. PICK x \in PresentPages : Copied(x)
  <2>1. instr' \notin Flushes /\ instr' # instr /\ ~Flushing
    BY IdleAssumption DEF Flushing
  <2> QED
    BY <2>1 DEF Effect, Quiet, Started, Evicted, Flushed, Loaded, Committed, Executed,
                NotDeleted
<1>3. instr.left > 0
  BY <1>2 DEF Copied
<1>4. /\ bytes_to_copy \in Nat /\ bytes_to_copy <= instr.left
      /\ instr.base \in Nat /\ instr.size \in Nat /\ instr.left \in Nat
      /\ instr.page \in Nat /\ instr.t \in FileTags
  BY <1>1, <1>3, AccessNumbers, BytesToCopy
<1>5. bytes_to_copy = instr.left
  <2>1. SUFFICES ASSUME bytes_to_copy # instr.left PROVE FALSE
    OBVIOUS
  <2>2. instr' = Advanced(bytes_to_copy)
    BY <1>2, <2>1 DEF Copied
  <2>3. instr.page + 1 \in Nat /\ 0 \in Offsets /\ instr.left - bytes_to_copy \in Nat
    BY <1>4, Sizes DEF Offsets
  <2>4. Advanced(bytes_to_copy) \in Accesses
    BY <1>1, <2>3 DEF Advanced, Accesses
  <2> QED
    BY <2>2, <2>4, IdleAssumption
<1> PICK t, base, n, byte : /\ t = instr.t /\ base = instr.base /\ byte = instr.byte
                            /\ n = Position + bytes_to_copy
  OBVIOUS
<1>6. AllAre(t, base, n, byte)' /\ instr.left <= instr.size
  BY <1>2, CopiedWrites
<1>7. n = base + instr.size
  BY <1>4, <1>5 DEF Position
<1> PICK k, o : k = a \div PageSize + 1 /\ o = a % PageSize
  OBVIOUS
<1>8. a \in Nat /\ base <= a /\ a < n
  <2>1. a \in base..base + instr.size - 1
    BY DEF Written
  <2> QED
    BY <1>4, <1>7, <2>1
<1>9. k \in Nat \ {0} /\ o \in Offsets /\ a = Addr(k, o)
  BY <1>8, Divided DEF Address
<1>10. files'[t] # NoFile /\ k \in DOMAIN files'[t].data /\ Value(t, k)'[o] = byte
  BY <1>6, <1>8, <1>9 DEF AllAre, Disk!Exists
<1>11. ByteAt(t, a)' = byte
  <2>1. ByteAt(t, a)' = Seen(t)'.data[k][o]
    BY DEF ByteAt
  <2>2. Seen(t)'.data[k] = Value(t, k)'
    BY <1>4, <1>10, SeenThen DEF SeenAs
  <2> QED
    BY <1>10, <2>1, <2>2
<1> QED
  BY <1>11

\* A WRITE changes the bytes it names, all of them if it succeeds, and no
\* others, however many pages they are in and however often these are evicted
\* meanwhile; no page fault, eviction, READ, write-back, COMMIT or refusal of
\* the Storage changes a byte that a query can see.
THEOREM WritesExactCorrect ==
    ASSUME Careless = {}
    PROVE  Spec => WritesExact
<1>1. MemoryInv /\ MemoryInv' /\ CarefulInv /\ WriteSoFar /\ [Next]_vars => WriteSoFar'
  <2> SUFFICES ASSUME MemoryInv, MemoryInv', CarefulInv, WriteSoFar, [Next]_vars
               PROVE  WriteSoFar'
    OBVIOUS
  <2>1. CASE Effect
    BY <2>1, WriteSoFarStep
  <2>2. CASE UNCHANGED vars
    BY <2>2 DEF vars, tables, WriteSoFar, Position, AllAre, Value, Accessing, Disk!Exists,
                PresentPages, Present, PageCount, PageAt, Addr
  <2> QED
    BY <2>1, <2>2, MemoryStep
<1>2. Init => WriteSoFar
  BY DEF Init, WriteSoFar, Accessing
<1>3. MemoryInv /\ MemoryInv' /\ CarefulInv /\ WriteSoFar /\ [Next]_vars
      => [instr # Idle => OnlyWritten /\ AllWritten]_vars
  <2> SUFFICES ASSUME MemoryInv, MemoryInv', CarefulInv, WriteSoFar, [Next]_vars,
                      vars' # vars, instr # Idle
               PROVE  OnlyWritten /\ AllWritten
    OBVIOUS
  <2>1. Effect
    BY MemoryStep
  <2> QED
    BY <2>1, OnlyWrittenStep, AllWrittenStep
<1>4. Spec => [][instr # Idle => OnlyWritten /\ AllWritten]_vars
  BY <1>1, <1>2, <1>3, CarefulAlways, PTL DEF Spec
<1> QED
  BY <1>4, PTL DEF WritesExact, OnlyWritten, AllWritten
=============================================================================
