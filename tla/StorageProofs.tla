---------------------------- MODULE StorageProofs ----------------------------
(***************************************************************************)
(* Proofs about the storage of an execution, for every page size, number   *)
(* of slots, page limit and depth of sandboxes: reads and writes by pages  *)
(* are reads and writes of bytes, every page is paid once, the paged       *)
(* storage implements FlatStorage, and the delta sent to the host is what  *)
(* the contract saw.                                                       *)
(***************************************************************************)
EXTENDS Storage, Sums

\* The constants as numbers.
LEMMA Sizes ==
  /\ PageSize \in Nat /\ PageSize > 0 /\ MaxIndex \in Nat /\ MaxIndex > 0 /\ NSlots \in Nat /\ NSlots > 0
  /\ HeaderSize \in Nat /\ HeaderSize > 0 /\ CodeSize \in Nat /\ CodeSize > 0 /\ HeaderSize + CodeSize <= MaxIndex
  /\ PageLimit \in Nat /\ MaxWrites \in Nat /\ MaxDepth \in Nat /\ MaxDepth > 0
  /\ Slots \subseteq Nat /\ CodeSlot \in Slots /\ Indexes \subseteq Nat
  BY StorageAssumption DEF Slots, CodeSlot, Indexes

-----------------------------------------------------------------------------
\* Pages of bytes.

\* An index is its page's start and the offset in the page.
LEMMA PageOf ==
  ASSUME NEW i \in Nat
  PROVE  /\ i \div PageSize \in Nat /\ i % PageSize \in 0 .. PageSize - 1
         /\ i = (i \div PageSize) * PageSize + (i % PageSize)
         /\ (i \div PageSize) * PageSize \in Nat
         /\ (i \div PageSize) * PageSize <= i /\ i < (i \div PageSize) * PageSize + PageSize
  BY Sizes

\* A page ends before the next one starts.
LEMMA NextPage ==
  ASSUME NEW p \in Nat, NEW q \in Nat, p < q
  PROVE  p * PageSize + PageSize <= q * PageSize
<1>1. PICK k \in Nat : q = p + 1 + k
  <2>1. q - p - 1 \in Nat /\ q = p + 1 + (q - p - 1)
    OBVIOUS
  <2> QED
    BY <2>1
<1>2. q * PageSize = p * PageSize + PageSize + k * PageSize
  BY <1>1, Sizes
<1>3. k * PageSize \in Nat /\ p * PageSize \in Nat
  BY Sizes
<1> QED
  BY <1>2, <1>3, Sizes

\* A byte is on one page only.
LEMMA PageUnique ==
  ASSUME NEW i \in Nat, NEW p \in Nat, p * PageSize <= i, i < p * PageSize + PageSize
  PROVE  i \div PageSize = p /\ i % PageSize = i - p * PageSize
<1>1. PICK q \in Nat : q = i \div PageSize
  BY PageOf
<1>2. q * PageSize <= i /\ i < q * PageSize + PageSize /\ q * PageSize \in Nat /\ p * PageSize \in Nat
  BY <1>1, PageOf, Sizes
<1>3. ~ (p < q)
  BY <1>2, NextPage, Sizes
<1>4. ~ (q < p)
  BY <1>2, NextPage, Sizes
<1>5. p = q
  BY <1>3, <1>4
<1> QED
  BY <1>1, <1>5, PageOf

\* The pages a write of n bytes touches.
LEMMA Span ==
  ASSUME NEW idx \in Nat, NEW n \in Nat \ {0}
  PROVE  LET first == FirstPage(idx)
             last == LastPage(idx, n)
         IN  /\ first \in Nat /\ last \in Nat /\ first <= last
             /\ first * PageSize \in Nat /\ first * PageSize <= idx /\ idx < first * PageSize + PageSize
             /\ last * PageSize \in Nat /\ last * PageSize < idx + n /\ idx + n <= last * PageSize + PageSize
             /\ idx % PageSize = idx - first * PageSize
<1> DEFINE first == FirstPage(idx)
           last == LastPage(idx, n)
<1>1. /\ first \in Nat /\ first * PageSize \in Nat /\ first * PageSize <= idx /\ idx < first * PageSize + PageSize
      /\ idx % PageSize = idx - first * PageSize
  BY PageOf, PageUnique DEF FirstPage
<1>2. idx + n - 1 \in Nat
  OBVIOUS
<1>3. /\ last \in Nat /\ last * PageSize \in Nat /\ last * PageSize <= idx + n - 1
      /\ idx + n - 1 < last * PageSize + PageSize
  BY <1>2, PageOf DEF LastPage
<1> HIDE DEF first, last
<1>4. ~ (last < first)
  BY <1>1, <1>3, NextPage, Sizes
<1>5. first <= last /\ last * PageSize < idx + n /\ idx + n <= last * PageSize + PageSize
  BY <1>1, <1>3, <1>4, Sizes
<1> QED
  BY <1>1, <1>3, <1>5 DEF first, last

\* Where a page of the span begins.
LEMMA InSpan ==
  ASSUME NEW idx \in Nat, NEW n \in Nat \ {0}, NEW p \in FirstPage(idx) .. LastPage(idx, n)
  PROVE  /\ p \in Nat /\ p * PageSize \in Nat
         /\ p # FirstPage(idx) => FirstPage(idx) * PageSize + PageSize <= p * PageSize
         /\ p # LastPage(idx, n) => p * PageSize + PageSize <= LastPage(idx, n) * PageSize
<1>1. FirstPage(idx) \in Nat /\ LastPage(idx, n) \in Nat
  BY Span
<1>2. p \in Nat /\ p * PageSize \in Nat
  BY <1>1, Sizes
<1>3. p # FirstPage(idx) => FirstPage(idx) < p
  BY <1>1
<1>4. p # LastPage(idx, n) => p < LastPage(idx, n)
  BY <1>1
<1> QED
  BY <1>1, <1>2, <1>3, <1>4, NextPage

-----------------------------------------------------------------------------
\* One page of a write.

IsPages(pg) == DOMAIN pg \subseteq PageIDs /\ pg \in [DOMAIN pg -> PageBytes]

\* The page a write starts from, overridden or the host's, has a page's bytes.
LEMMA ExistingIs ==
  ASSUME NEW pg, IsPages(pg), NEW slot \in Nat, NEW p \in Nat
  PROVE  Existing(pg, <<slot, p>>) \in PageBytes
<1>1. CASE <<slot, p>> \in DOMAIN pg
  BY <1>1 DEF IsPages, Existing
<1>2. CASE <<slot, p>> \notin DOMAIN pg
  <2>1. p * PageSize \in Nat
    BY Sizes
  <2>2. \A i \in 1 .. PageSize : p * PageSize + i - 1 \in Nat
    BY <2>1, Sizes
  <2>3. \A i \in 1 .. PageSize : Host(slot, p * PageSize + i - 1) \in Bytes
    BY <2>2 DEF Host, Bytes
  <2> QED
    BY <1>2, <2>3 DEF Existing, PageBytes
<1> QED
  BY <1>1, <1>2

\* Part of a buffer.
LEMMA PartOf ==
  ASSUME NEW buf \in Seq(Bytes), NEW a \in Nat, NEW b \in Nat, 1 <= a, a <= b + 1, b <= Len(buf)
  PROVE  LET s == SubSeq(buf, a, b) IN
         s \in Seq(Bytes) /\ Len(s) = b - a + 1 /\ \A j \in 1 .. b - a + 1 : s[j] = buf[a + j - 1]
  OBVIOUS

\* Copying bytes into a page changes these and no other (copy_from_slice).
LEMMA SpliceIs ==
  ASSUME NEW page \in PageBytes, NEW at \in Nat, NEW src \in Seq(Bytes), at + Len(src) <= PageSize
  PROVE  /\ Splice(page, at, src) \in PageBytes
         /\ \A r \in 0 .. PageSize - 1 :
              Splice(page, at, src)[r + 1] = IF at <= r /\ r < at + Len(src) THEN src[r - at + 1] ELSE page[r + 1]
<1> DEFINE s == Splice(page, at, src)
<1>0. Len(src) \in Nat /\ \A j \in 1 .. Len(src) : src[j] \in Bytes
  OBVIOUS
<1>1. \A i \in 1 .. PageSize : (IF at < i /\ i <= at + Len(src) THEN src[i - at] ELSE page[i]) \in Bytes
  <2> SUFFICES ASSUME NEW i \in 1 .. PageSize
               PROVE  (IF at < i /\ i <= at + Len(src) THEN src[i - at] ELSE page[i]) \in Bytes
    OBVIOUS
  <2>1. CASE at < i /\ i <= at + Len(src)
    <3>1. i - at \in 1 .. Len(src)
      BY <1>0, <2>1
    <3> QED
      BY <1>0, <2>1, <3>1
  <2>2. CASE ~ (at < i /\ i <= at + Len(src))
    BY <2>2 DEF PageBytes
  <2> QED
    BY <2>1, <2>2
<1>2. s \in PageBytes
  BY <1>1 DEF Splice, PageBytes
<1>3. ASSUME NEW r \in 0 .. PageSize - 1
      PROVE  s[r + 1] = IF at <= r /\ r < at + Len(src) THEN src[r - at + 1] ELSE page[r + 1]
  <2>1. r + 1 \in 1 .. PageSize /\ r + 1 - at = r - at + 1
    BY Sizes
  <2>2. s[r + 1] = IF at < r + 1 /\ r + 1 <= at + Len(src) THEN src[r + 1 - at] ELSE page[r + 1]
    BY <2>1 DEF Splice
  <2>3. (at < r + 1 /\ r + 1 <= at + Len(src)) <=> (at <= r /\ r < at + Len(src))
    BY <1>0, Sizes
  <2> QED
    BY <2>1, <2>2, <2>3
<1> QED
  BY <1>2, <1>3

\* The byte at i once buf is written at idx.
ByteAt(buf, idx, i, old) == IF idx <= i /\ i < idx + Len(buf) THEN buf[i - idx + 1] ELSE old

\* A page that is written has the bytes of the buffer where the write reaches
\* and its old ones elsewhere, whichever way write goes about it.
LEMMA PageWritten ==
  ASSUME NEW pg, IsPages(pg), NEW slot \in Nat, NEW idx \in Nat, NEW buf \in Seq(Bytes), Len(buf) > 0,
         NEW p \in FirstPage(idx) .. LastPage(idx, Len(buf)), NEW d, d = write_page_data(pg, slot, p, idx, buf)
  PROVE  /\ d \in PageBytes
         /\ \A r \in 0 .. PageSize - 1 :
              d[r + 1] = ByteAt(buf, idx, p * PageSize + r, Existing(pg, <<slot, p>>)[r + 1])
<1> DEFINE n == Len(buf)
           old == Existing(pg, <<slot, p>>)
<1>n. n \in Nat \ {0}
  OBVIOUS
<1>1. PICK first \in Nat, last \in Nat : first = FirstPage(idx) /\ last = LastPage(idx, n)
  BY <1>n, Span
<1>2. PICK a \in Nat, z \in Nat, c \in Nat : a = first * PageSize /\ z = last * PageSize /\ c = p * PageSize
  BY <1>n, <1>1, Span, InSpan
<1>3. /\ first <= last /\ a <= idx /\ idx < a + PageSize /\ z < idx + n /\ idx + n <= z + PageSize
      /\ idx % PageSize = idx - a
  BY <1>n, <1>1, <1>2, Span
<1>4. /\ p \in Nat /\ (p # first => a + PageSize <= c) /\ (p # last => c + PageSize <= z)
      /\ (p = first => c = a) /\ (p = last => c = z)
  BY <1>n, <1>1, <1>2, InSpan
<1>5. old \in PageBytes
  BY <1>4, ExistingIs
<1>6. /\ IsPartialFirst(idx) <=> idx > a
      /\ IsPartialLast(idx, n) <=> idx + n < z + PageSize
  BY <1>1, <1>2 DEF IsPartialFirst, IsPartialLast
<1> HIDE DEF old
<1> SUFFICES /\ d \in PageBytes
             /\ \A r \in 0 .. PageSize - 1 :
                  d[r + 1] = IF idx <= c + r /\ c + r < idx + n THEN buf[c + r - idx + 1] ELSE old[r + 1]
  <2>1. \A r \in 0 .. PageSize - 1 : d[r + 1] = ByteAt(buf, idx, c + r, old[r + 1])
    BY DEF ByteAt
  <2> QED
    BY <1>2, <2>1, Zenon DEF old
<1>7. CASE first = last
  <2>1. d = Splice(old, idx - a, buf)
    BY <1>1, <1>3, <1>7, Zenon DEF write_page_data, old
  <2>0. p = first /\ c = a /\ a = z
    <3>1. p \in first .. last
      BY <1>1
    <3>2. p = first /\ p = last
      BY <1>7, <3>1
    <3> QED
      BY <1>4, <3>2
  <2>2. idx - a \in Nat /\ idx - a + Len(buf) <= PageSize
    BY <1>n, <1>3, <2>0, Sizes
  <2>3. /\ d \in PageBytes
        /\ \A r \in 0 .. PageSize - 1 :
             d[r + 1] = IF idx - a <= r /\ r < idx - a + Len(buf) THEN buf[r - (idx - a) + 1] ELSE old[r + 1]
    BY <1>5, <2>1, <2>2, SpliceIs
  <2>4. \A r \in 0 .. PageSize - 1 : /\ (idx - a <= r /\ r < idx - a + n) <=> (idx <= c + r /\ c + r < idx + n)
                                     /\ r - (idx - a) + 1 = c + r - idx + 1
    BY <1>n, <2>0, <2>2, Sizes
  <2> QED
    BY <2>3, <2>4
<1>8. CASE first # last /\ p = first /\ idx > a
  <2> DEFINE src == SubSeq(buf, 1, PageSize - (idx - a))
  <2>1. d = Splice(old, idx - a, src)
    BY <1>1, <1>3, <1>6, <1>8, Zenon DEF write_page_data, old
  <2>2. idx - a \in Nat /\ PageSize - (idx - a) \in Nat /\ PageSize - (idx - a) <= n /\ c = a /\ c + PageSize <= z
    BY <1>n, <1>3, <1>4, <1>8, Sizes
  <2>3. /\ src \in Seq(Bytes) /\ Len(src) = PageSize - (idx - a)
        /\ \A j \in 1 .. PageSize - (idx - a) : src[j] = buf[j]
    <3>1. PICK b \in Nat : b = PageSize - (idx - a)
      BY <2>2
    <3>2. SubSeq(buf, 1, b) \in Seq(Bytes) /\ Len(SubSeq(buf, 1, b)) = b /\ \A j \in 1 .. b : SubSeq(buf, 1, b)[j] = buf[j]
      BY <2>2, <3>1
    <3> QED
      BY <3>1, <3>2
  <2> HIDE DEF src
  <2>4. idx - a + Len(src) = PageSize
    BY <1>3, <2>3, Sizes
  <2>5. /\ d \in PageBytes
        /\ \A r \in 0 .. PageSize - 1 :
             d[r + 1] = IF idx - a <= r /\ r < idx - a + Len(src) THEN src[r - (idx - a) + 1] ELSE old[r + 1]
    <3>1. PICK at \in Nat : at = idx - a
      BY <2>2
    <3>2. d = Splice(old, at, src) /\ at + Len(src) <= PageSize
      BY <2>1, <2>4, <3>1, Sizes
    <3>a. old \in PageBytes /\ src \in Seq(Bytes)
      BY <1>5, <2>3
    <3>3. /\ d \in PageBytes
          /\ \A r \in 0 .. PageSize - 1 :
               d[r + 1] = IF at <= r /\ r < at + Len(src) THEN src[r - at + 1] ELSE old[r + 1]
      BY <3>a, <3>2, SpliceIs
    <3> QED
      BY <3>1, <3>3
  <2>6. ASSUME NEW r \in 0 .. PageSize - 1
        PROVE  /\ (idx - a <= r /\ r < idx - a + Len(src)) <=> (idx <= c + r /\ c + r < idx + n)
               /\ idx - a <= r => r - (idx - a) + 1 \in 1 .. PageSize - (idx - a) /\ r - (idx - a) + 1 = c + r - idx + 1
    BY <1>n, <1>3, <2>2, <2>4, Sizes
  <2>7. ASSUME NEW r \in 0 .. PageSize - 1
        PROVE  d[r + 1] = IF idx <= c + r /\ c + r < idx + n THEN buf[c + r - idx + 1] ELSE old[r + 1]
    <3>1. CASE idx <= c + r /\ c + r < idx + n
      <4>1. d[r + 1] = src[r - (idx - a) + 1] /\ idx - a <= r
        BY <2>5, <2>6, <3>1
      <4>2. src[r - (idx - a) + 1] = buf[r - (idx - a) + 1]
        BY <2>3, <2>6, <4>1
      <4> QED
        BY <2>6, <3>1, <4>1, <4>2
    <3>2. CASE ~ (idx <= c + r /\ c + r < idx + n)
      BY <2>5, <2>6, <3>2
    <3> QED
      BY <3>1, <3>2
  <2> QED
    BY <2>5, <2>7
<1>9. CASE first # last /\ ~ (p = first /\ idx > a) /\ p = last /\ idx + n < z + PageSize
  <2>1. (idx + n) % PageSize = idx + n - z
    <3>1. PICK x \in Nat : x = idx + n
      BY <1>n
    <3>2. last * PageSize <= x /\ x < last * PageSize + PageSize
      BY <1>n, <1>2, <1>3, <1>9, <3>1, Sizes
    <3>3. x % PageSize = x - last * PageSize
      BY <3>2, PageUnique
    <3> QED
      BY <1>2, <3>1, <3>3
  <2> DEFINE src == SubSeq(buf, n - (idx + n - z) + 1, n)
  <2>2. d = Splice(old, 0, src)
    BY <1>1, <1>6, <1>9, <2>1, Zenon DEF write_page_data, old
  <2>3. c = z /\ a + PageSize <= z /\ idx < z
    BY <1>3, <1>4, <1>9, Sizes
  <2>4. src \in Seq(Bytes) /\ Len(src) = idx + n - z /\ \A j \in 1 .. idx + n - z : src[j] = buf[z - idx + j]
    <3>1. PICK b \in Nat : b = z - idx + 1
      BY <2>3
    <3>2. n - (idx + n - z) + 1 = b /\ n - b + 1 = idx + n - z /\ 1 <= b /\ b <= n + 1
      BY <1>n, <1>3, <2>3, <3>1
    <3>3. SubSeq(buf, b, n) \in Seq(Bytes) /\ Len(SubSeq(buf, b, n)) = n - b + 1 /\ \A j \in 1 .. n - b + 1 : SubSeq(buf, b, n)[j] = buf[b + j - 1]
      BY <1>n, <3>2, PartOf
    <3>4. \A j \in 1 .. idx + n - z : b + j - 1 = z - idx + j
      BY <1>n, <3>1
    <3> QED
      BY <3>2, <3>3, <3>4
  <2> HIDE DEF src
  <2>5. /\ d \in PageBytes
        /\ \A r \in 0 .. PageSize - 1 :
             d[r + 1] = IF 0 <= r /\ r < 0 + Len(src) THEN src[r - 0 + 1] ELSE old[r + 1]
    <3>1. PICK at \in Nat : at = 0
      OBVIOUS
    <3>2. d = Splice(old, at, src) /\ at + Len(src) <= PageSize
      BY <1>n, <1>3, <1>9, <2>2, <2>4, <3>1, Sizes
    <3>a. old \in PageBytes /\ src \in Seq(Bytes)
      BY <1>5, <2>4
    <3>3. /\ d \in PageBytes
          /\ \A r \in 0 .. PageSize - 1 :
               d[r + 1] = IF at <= r /\ r < at + Len(src) THEN src[r - at + 1] ELSE old[r + 1]
      BY <3>a, <3>2, SpliceIs
    <3> QED
      BY <3>1, <3>3
  <2>6. ASSUME NEW r \in 0 .. PageSize - 1
        PROVE  /\ (0 <= r /\ r < 0 + Len(src)) <=> (idx <= c + r /\ c + r < idx + n)
               /\ r < 0 + Len(src) => r - 0 + 1 \in 1 .. idx + n - z /\ z - idx + (r - 0 + 1) = c + r - idx + 1
    BY <1>n, <2>3, <2>4, Sizes
  <2>7. ASSUME NEW r \in 0 .. PageSize - 1
        PROVE  d[r + 1] = IF idx <= c + r /\ c + r < idx + n THEN buf[c + r - idx + 1] ELSE old[r + 1]
    <3>1. CASE idx <= c + r /\ c + r < idx + n
      <4>1. d[r + 1] = src[r - 0 + 1] /\ r < 0 + Len(src)
        BY <2>5, <2>6, <3>1
      <4>2. src[r - 0 + 1] = buf[z - idx + (r - 0 + 1)]
        BY <2>4, <2>6, <4>1
      <4> QED
        BY <2>6, <3>1, <4>1, <4>2
    <3>2. CASE ~ (idx <= c + r /\ c + r < idx + n)
      BY <2>5, <2>6, <3>2
    <3> QED
      BY <3>1, <3>2
  <2> QED
    BY <2>5, <2>7
<1>10. CASE first # last /\ ~ (p = first /\ idx > a) /\ ~ (p = last /\ idx + n < z + PageSize)
  <2> DEFINE src == SubSeq(buf, c - idx + 1, c - idx + PageSize)
  <2>1. d = src
    BY <1>1, <1>2, <1>6, <1>10, Zenon DEF write_page_data
  <2>2. idx <= c /\ c + PageSize <= idx + n
    BY <1>n, <1>3, <1>4, <1>10, Sizes
  <2>3. src \in Seq(Bytes) /\ Len(src) = PageSize /\ \A j \in 1 .. PageSize : src[j] = buf[c - idx + j]
    <3>1. PICK k \in Nat : k = c - idx
      BY <2>2
    <3>2. k + 1 \in Nat /\ k + PageSize \in Nat /\ 1 <= k + 1 /\ k + 1 <= k + PageSize + 1 /\ k + PageSize <= n
          /\ k + PageSize - (k + 1) + 1 = PageSize
      BY <1>n, <2>2, <3>1, Sizes
    <3>s. PICK lo \in Nat, hi \in Nat : lo = k + 1 /\ hi = k + PageSize
      BY <3>2
    <3>t. 1 <= lo /\ lo <= hi + 1 /\ hi <= Len(buf) /\ hi - lo + 1 = PageSize
      BY <3>2, <3>s, Sizes
    <3>u. LET s == SubSeq(buf, lo, hi) IN
          s \in Seq(Bytes) /\ Len(s) = hi - lo + 1 /\ \A j \in 1 .. hi - lo + 1 : s[j] = buf[lo + j - 1]
      BY <3>t, PartOf
    <3>3. LET s == SubSeq(buf, k + 1, k + PageSize) IN
          s \in Seq(Bytes) /\ Len(s) = PageSize /\ \A j \in 1 .. PageSize : s[j] = buf[(k + 1) + j - 1]
      BY <3>s, <3>t, <3>u
    <3>4. \A j \in 1 .. PageSize : (k + 1) + j - 1 = c - idx + j
      BY <3>1, Sizes
    <3> QED
      BY <3>1, <3>3, <3>4
  <2> HIDE DEF src
  <2>4. d \in PageBytes
    BY <2>1, <2>3, Sizes DEF PageBytes
  <2>5. ASSUME NEW r \in 0 .. PageSize - 1
        PROVE  r + 1 \in 1 .. PageSize /\ idx <= c + r /\ c + r < idx + n /\ c - idx + (r + 1) = c + r - idx + 1
    BY <1>n, <2>2, Sizes
  <2> QED
    BY <2>1, <2>3, <2>4, <2>5
<1> QED
  BY <1>7, <1>8, <1>9, <1>10

-----------------------------------------------------------------------------
\* The order of the pages: each page of the span once.

\* The items of a concatenation.
LEMMA ConcatIs ==
  ASSUME NEW a \in Seq(Nat), NEW b \in Seq(Nat)
  PROVE  /\ a \o b \in Seq(Nat) /\ Len(a \o b) = Len(a) + Len(b)
         /\ \A i \in 1 .. Len(a \o b) : (a \o b)[i] = IF i <= Len(a) THEN a[i] ELSE b[i - Len(a)]
  OBVIOUS

\* The items of three sequences joined.
Joined(o, head, tail, whole) ==
  /\ o \in Seq(Nat) /\ Len(o) = Len(head) + Len(tail) + Len(whole)
  /\ \A i \in 1 .. Len(o) :
       o[i] = IF i <= Len(head) THEN head[i]
              ELSE IF i <= Len(head) + Len(tail) THEN tail[i - Len(head)] ELSE whole[i - Len(head) - Len(tail)]

\* They are the items of the concatenation.
LEMMA JoinIs ==
  ASSUME NEW head \in Seq(Nat), NEW tail \in Seq(Nat), NEW whole \in Seq(Nat)
  PROVE  Joined(head \o tail \o whole, head, tail, whole)
<1> DEFINE m == head \o tail
<1>1. /\ m \in Seq(Nat) /\ Len(m) = Len(head) + Len(tail)
      /\ \A i \in 1 .. Len(m) : m[i] = IF i <= Len(head) THEN head[i] ELSE tail[i - Len(head)]
  BY ConcatIs
<1> HIDE DEF m
<1>2. /\ m \o whole \in Seq(Nat) /\ Len(m \o whole) = Len(m) + Len(whole)
      /\ \A i \in 1 .. Len(m \o whole) : (m \o whole)[i] = IF i <= Len(m) THEN m[i] ELSE whole[i - Len(m)]
  BY <1>1, ConcatIs
<1>3. PICK o : o = m \o whole
  OBVIOUS
<1>4. ASSUME NEW i \in 1 .. Len(o)
      PROVE  o[i] = IF i <= Len(head) THEN head[i]
                    ELSE IF i <= Len(head) + Len(tail) THEN tail[i - Len(head)] ELSE whole[i - Len(head) - Len(tail)]
  <2>1. o[i] = IF i <= Len(m) THEN m[i] ELSE whole[i - Len(m)]
    BY <1>2, <1>3
  <2>2. Len(head) \in Nat /\ Len(tail) \in Nat /\ i \in Nat /\ 1 <= i /\ i - Len(m) = i - Len(head) - Len(tail)
    BY <1>1, <1>2, <1>3
  <2>3. CASE i <= Len(m)
    <3>1. i \in 1 .. Len(m)
      BY <1>1, <2>2, <2>3
    <3> QED
      BY <1>1, <2>1, <2>2, <2>3, <3>1
  <2>4. CASE ~ (i <= Len(m))
    <3>1. ~ (i <= Len(head)) /\ ~ (i <= Len(head) + Len(tail))
      BY <1>1, <2>2, <2>4
    <3> QED
      BY <2>1, <2>2, <2>4, <3>1
  <2> QED
    BY <2>3, <2>4
<1>5. Joined(o, head, tail, whole)
  <2>1. o \in Seq(Nat) /\ Len(o) = Len(head) + Len(tail) + Len(whole)
    BY <1>1, <1>2, <1>3
  <2> QED
    BY <1>4, <2>1 DEF Joined
<1> QED
  BY <1>3, <1>5, Zenon DEF m

\* The pages in the order of a write: those of its range, each once.
LEMMA OrderIs ==
  ASSUME NEW idx \in Nat, NEW n \in Nat \ {0}
  PROVE  LET o == WriteOrder(idx, n)
             S == FirstPage(idx) .. LastPage(idx, n)
         IN  /\ Len(o) \in Nat \ {0}
             /\ \A i \in 1 .. Len(o) : o[i] \in S
             /\ \A i, j \in 1 .. Len(o) : o[i] = o[j] => i = j
             /\ \A p \in S : \E i \in 1 .. Len(o) : o[i] = p
<1>1. PICK first \in Nat, last \in Nat : first = FirstPage(idx) /\ last = LastPage(idx, n) /\ first <= last
  BY Span
<1> DEFINE o == WriteOrder(idx, n)
<1> SUFFICES /\ Len(o) \in Nat \ {0}
             /\ \A i \in 1 .. Len(o) : o[i] \in first .. last
             /\ \A i, j \in 1 .. Len(o) : o[i] = o[j] => i = j
             /\ \A p \in first .. last : \E i \in 1 .. Len(o) : o[i] = p
  BY <1>1
<1>2. CASE first = last
  <2>1. o = <<first>>
    BY <1>1, <1>2 DEF WriteOrder
  <2> QED
    BY <1>2, <2>1
<1>3. CASE first # last
  <2> DEFINE head == IF IsPartialFirst(idx) THEN <<first>> ELSE <<>>
             tail == IF IsPartialLast(idx, n) THEN <<last>> ELSE <<>>
             whole == [i \in 1 .. last - first + 1 - Len(head) - Len(tail) |-> first + Len(head) + i - 1]
  <2>1. o = head \o tail \o whole
    BY <1>1, <1>3 DEF WriteOrder
  <2>2. PICK h \in 0 .. 1 : h = Len(head) /\ head \in Seq(Nat) /\ (h = 1 => head[1] = first)
    <3>1. CASE IsPartialFirst(idx)
      BY <3>1
    <3>2. CASE ~ IsPartialFirst(idx)
      BY <3>2
    <3> QED
      BY <3>1, <3>2
  <2>3. PICK t \in 0 .. 1 : t = Len(tail) /\ tail \in Seq(Nat) /\ (t = 1 => tail[1] = last)
    <3>1. CASE IsPartialLast(idx, n)
      BY <3>1
    <3>2. CASE ~ IsPartialLast(idx, n)
      BY <3>2
    <3> QED
      BY <3>1, <3>2
  <2> HIDE DEF head, tail
  <2>4. PICK w \in Nat : w = last - first + 1 - h - t
    <3>1. first < last
      BY <1>1, <1>3
    <3> QED
      BY <3>1
  <2>5. whole = [i \in 1 .. w |-> first + h + i - 1]
    BY <2>2, <2>3, <2>4
  <2> HIDE DEF whole
  <2>6. whole \in Seq(Nat) /\ Len(whole) = w /\ \A i \in 1 .. w : whole[i] = first + h + i - 1
    <3>1. \A i \in 1 .. w : first + h + i - 1 \in Nat
      OBVIOUS
    <3> QED
      BY <2>5, <3>1
  <2> HIDE DEF o
  <2>7. /\ o \in Seq(Nat) /\ Len(o) = h + t + w
        /\ \A i \in 1 .. Len(o) : o[i] = IF i <= h THEN head[i] ELSE IF i <= h + t THEN tail[i - h] ELSE whole[i - h - t]
    <3>1. Joined(o, head, tail, whole)
      BY <2>1, <2>2, <2>3, <2>6, JoinIs
    <3> QED
      BY <2>2, <2>3, <2>6, <3>1 DEF Joined
  <2>8. Len(o) = last - first + 1 /\ Len(o) \in Nat \ {0}
    <3>1. Len(o) = h + t + w
      BY <2>7
    <3>2. first < last
      BY <1>1, <1>3
    <3> QED
      BY <2>4, <3>1, <3>2
  <2>9. ASSUME NEW i \in 1 .. Len(o)
        PROVE  o[i] = IF i <= h THEN first ELSE IF i <= h + t THEN last ELSE first + i - t - 1
    <3>1. CASE i <= h
      <4>1. i = 1 /\ h = 1
        BY <2>8, <3>1
      <4> QED
        BY <2>2, <2>7, <3>1, <4>1
    <3>2. CASE ~ (i <= h) /\ i <= h + t
      <4>1. i - h = 1 /\ t = 1
        BY <2>8, <3>2
      <4> QED
        BY <2>3, <2>7, <3>2, <4>1
    <3>3. CASE ~ (i <= h) /\ ~ (i <= h + t)
      <4>1. i - h - t \in 1 .. w /\ first + h + (i - h - t) - 1 = first + i - t - 1
        BY <2>4, <2>7, <2>8, <3>3
      <4> QED
        BY <2>6, <2>7, <3>3, <4>1
    <3> QED
      BY <3>1, <3>2, <3>3
  <2>10. \A i \in 1 .. Len(o) : o[i] \in first .. last
    <3> SUFFICES ASSUME NEW i \in 1 .. Len(o) PROVE o[i] \in first .. last
      OBVIOUS
    <3>1. o[i] = IF i <= h THEN first ELSE IF i <= h + t THEN last ELSE first + i - t - 1
      BY <2>9
    <3>2. PICK N \in Nat : N = last - first + 1 /\ i \in 1 .. N
      BY <2>8
    <3>3. ~ (i <= h + t) => first + i - t - 1 \in first .. last
      BY ONLY <3>2, first \in Nat, last \in Nat, h \in 0 .. 1, t \in 0 .. 1
    <3>4. first \in first .. last /\ last \in first .. last
      BY <1>1
    <3> QED
      BY <3>1, <3>3, <3>4
  <2>11. ASSUME NEW i \in 1 .. Len(o), NEW j \in 1 .. Len(o), o[i] = o[j] PROVE i = j
    <3>1. o[i] = IF i <= h THEN first ELSE IF i <= h + t THEN last ELSE first + i - t - 1
      BY <2>9
    <3>2. o[j] = IF j <= h THEN first ELSE IF j <= h + t THEN last ELSE first + j - t - 1
      BY <2>9
    <3>3. PICK N \in Nat : N = Len(o) /\ N = last - first + 1 /\ i \in 1 .. N /\ j \in 1 .. N
      BY <2>8
    <3>4. PICK x : x = o[i] /\ x = o[j]
      BY <2>11
    <3> QED
      BY <1>1, <1>3, <3>1, <3>2, <3>3, <3>4
  <2>12. ASSUME NEW p \in first .. last PROVE \E i \in 1 .. Len(o) : o[i] = p
    <3>1. CASE h = 1 /\ p = first
      <4>1. 1 \in 1 .. Len(o) /\ 1 <= h
        BY <2>8, <3>1
      <4>2. o[1] = p
        BY <2>9, <3>1, <4>1
      <4> QED
        BY <4>1, <4>2
    <3>2. CASE t = 1 /\ p = last /\ ~ (h = 1 /\ p = first)
      <4>1. h + 1 \in 1 .. Len(o) /\ ~ (h + 1 <= h) /\ h + 1 <= h + t
        BY <1>3, <2>8, <3>2
      <4>2. o[h + 1] = p
        BY <2>9, <3>2, <4>1
      <4> QED
        BY <4>1, <4>2
    <3>3. CASE ~ (h = 1 /\ p = first) /\ ~ (t = 1 /\ p = last)
      <4>1. p - first + t + 1 \in 1 .. Len(o) /\ ~ (p - first + t + 1 <= h) /\ ~ (p - first + t + 1 <= h + t)
            /\ first + (p - first + t + 1) - t - 1 = p
        BY <2>8, <3>3
      <4>2. o[p - first + t + 1] = p
        BY <2>9, <4>1
      <4> QED
        BY <4>1, <4>2
    <3> QED
      BY <3>1, <3>2, <3>3
  <2> QED
    BY <2>8, <2>10, <2>11, <2>12
<1> QED
  BY <1>2, <1>3

-----------------------------------------------------------------------------
\* A write of some of its pages.

\* A later index is in the same page or in a later one.
LEMMA LaterPage == ASSUME NEW a \in Nat, NEW b \in Nat, a <= b PROVE a \div PageSize <= b \div PageSize
<1>1. PICK p \in Nat, q \in Nat : p = a \div PageSize /\ q = b \div PageSize
  BY PageOf
<1>2. p * PageSize \in Nat /\ p * PageSize <= a /\ q * PageSize \in Nat /\ b < q * PageSize + PageSize
  BY <1>1, PageOf
<1>3. ~ (q < p)
  BY <1>2, NextPage, Sizes
<1> QED
  BY <1>1, <1>3

\* The pages of a write within the slot are page ids.
LEMMA SpanIsPages ==
  ASSUME NEW slot \in Slots, NEW idx \in Nat, NEW n \in Nat \ {0}, idx + n <= MaxIndex,
         NEW p \in FirstPage(idx) .. LastPage(idx, n)
  PROVE  <<slot, p>> \in PageIDs
<1>1. FirstPage(idx) \in Nat /\ LastPage(idx, n) \in Nat
  BY Span
<1>2. LastPage(idx, n) <= (MaxIndex - 1) \div PageSize
  BY LaterPage, Sizes DEF LastPage
<1>3. (MaxIndex - 1) \div PageSize \in Nat
  BY PageOf, Sizes
<1>4. p \in 0 .. (MaxIndex - 1) \div PageSize
  BY <1>1, <1>2, <1>3
<1> QED
  BY <1>4 DEF PageIDs

PagesIn(slot, Q) == {<<slot, p>> : p \in Q}

\* A write that StorageWrite or WriteCode makes.
IsWrite(pg, slot, idx, buf) ==
  /\ IsPages(pg) /\ slot \in Slots /\ idx \in Nat
  /\ buf \in Seq(Bytes) /\ Len(buf) > 0 /\ idx + Len(buf) <= MaxIndex

\* The overrides q show what pg shows, with buf at idx of slot in the pages Q.
HasWritten(q, pg, slot, idx, buf, Q) ==
  \A s \in Slots, i \in Indexes :
    View(q, s, i) = IF s = slot /\ i \div PageSize \in Q THEN ByteAt(buf, idx, i, View(pg, s, i)) ELSE View(pg, s, i)

\* What a VM sees once the pages Q of a write are in its overrides.
LEMMA OverriddenIs ==
  ASSUME NEW pg, NEW slot, NEW idx, NEW buf, IsWrite(pg, slot, idx, buf),
         NEW Q \in SUBSET (FirstPage(idx) .. LastPage(idx, Len(buf))),
         NEW done, done = PagesIn(slot, Q), NEW q, q = Overridden(pg, slot, idx, buf, done)
  PROVE  /\ IsPages(q) /\ DOMAIN q = DOMAIN pg \cup done
         /\ HasWritten(q, pg, slot, idx, buf, Q)
<1>a. /\ IsPages(pg) /\ slot \in Slots /\ idx \in Nat
      /\ buf \in Seq(Bytes) /\ Len(buf) > 0 /\ idx + Len(buf) <= MaxIndex
  BY DEF IsWrite
<1> USE <1>a
<1>n. Len(buf) \in Nat \ {0} /\ slot \in Nat
  BY Sizes
<1>1. ASSUME NEW p \in Q PROVE <<slot, p>> \in PageIDs
  BY <1>n, SpanIsPages
<1>2. DOMAIN q = DOMAIN pg \cup done
  BY DEF Overridden
<1>3. ASSUME NEW p \in Q
      PROVE  /\ <<slot, p>> \in done /\ q[<<slot, p>>] = write_page_data(pg, slot, p, idx, buf)
             /\ q[<<slot, p>>] \in PageBytes
  <2>1. <<slot, p>> \in done /\ <<slot, p>>[2] = p
    BY DEF PagesIn
  <2>2. q[<<slot, p>>] = write_page_data(pg, slot, p, idx, buf)
    BY <2>1 DEF Overridden
  <2>3. write_page_data(pg, slot, p, idx, buf) \in PageBytes
    BY <1>n, PageWritten
  <2> QED
    BY <2>1, <2>2, <2>3
<1>4. ASSUME NEW id \in DOMAIN pg, id \notin done PROVE q[id] = pg[id]
  BY <1>4 DEF Overridden
<1>5. IsPages(q)
  <2>1. DOMAIN q \subseteq PageIDs
    BY <1>1, <1>2 DEF IsPages, PagesIn
  <2>2. \A id \in DOMAIN q : q[id] \in PageBytes
    BY <1>2, <1>3, <1>4 DEF IsPages, PagesIn
  <2>3. q = [id \in DOMAIN q |-> q[id]]
    BY DEF Overridden
  <2> QED
    BY <2>1, <2>2, <2>3 DEF IsPages
<1>6. ASSUME NEW s \in Slots, NEW i \in Indexes
      PROVE  View(q, s, i) = IF s = slot /\ i \div PageSize \in Q THEN ByteAt(buf, idx, i, View(pg, s, i)) ELSE View(pg, s, i)
  <2>1. PICK p \in Nat, r \in 0 .. PageSize - 1 :
          p = i \div PageSize /\ r = i % PageSize /\ i = p * PageSize + r /\ i \in Nat
    BY PageOf, Sizes
  <2>2. View(q, s, i) = Existing(q, <<s, p>>)[r + 1] /\ View(pg, s, i) = Existing(pg, <<s, p>>)[r + 1]
    BY <2>1 DEF View
  <2>3. CASE s = slot /\ p \in Q
    <3>1. Existing(q, <<s, p>>) = write_page_data(pg, slot, p, idx, buf)
      BY <1>2, <1>3, <2>3 DEF Existing
    <3>2. p \in FirstPage(idx) .. LastPage(idx, Len(buf))
      BY <2>3
    <3>3. PICK d : d = write_page_data(pg, slot, p, idx, buf)
      OBVIOUS
    <3>4. d[r + 1] = ByteAt(buf, idx, p * PageSize + r, Existing(pg, <<slot, p>>)[r + 1])
      BY <1>n, <3>2, <3>3, PageWritten
    <3>5. d[r + 1] = ByteAt(buf, idx, i, View(pg, s, i))
      BY <2>1, <2>2, <2>3, <3>4, Zenon
    <3> QED
      BY <2>1, <2>2, <2>3, <3>1, <3>3, <3>5, Zenon
  <2>4. CASE ~ (s = slot /\ p \in Q)
    <3>1. <<s, p>> \notin done
      BY <2>4 DEF PagesIn
    <3>2. Existing(q, <<s, p>>) = Existing(pg, <<s, p>>)
      BY <1>2, <1>4, <3>1 DEF Existing
    <3> QED
      BY <2>1, <2>2, <2>4, <3>2
  <2> QED
    BY <2>3, <2>4
<1> QED
  BY <1>2, <1>5, <1>6 DEF HasWritten

\* There are finitely many pages.
LEMMA FinitePages == IsFiniteSet(PageIDs)
<1>1. (MaxIndex - 1) \div PageSize \in Nat
  BY PageOf, Sizes
<1>2. IsFiniteSet(Slots) /\ IsFiniteSet(0 .. (MaxIndex - 1) \div PageSize)
  BY <1>1, FS_Interval, Sizes DEF Slots
<1> QED
  BY <1>2, FS_Product DEF PageIDs

\* How a write ends: the pages Q are written and paid for, all of them unless
\* there was an error.
LEMMA WriteEnds ==
  ASSUME NEW pg, NEW slot, NEW idx, NEW buf, IsWrite(pg, slot, idx, buf), NEW b \in Nat,
         NEW o \in Outcomes(pg, b, slot, idx, buf)
  PROVE  /\ IsPages(o.pages) /\ DOMAIN pg \subseteq DOMAIN o.pages
         /\ o.budget \in Nat /\ o.budget + Cardinality(DOMAIN o.pages) = b + Cardinality(DOMAIN pg)
         /\ Cardinality(DOMAIN o.pages) \in Nat /\ Cardinality(DOMAIN pg) \in Nat
         /\ o.error \in {"no", "vm", "internal"}
         /\ \E Q \in SUBSET (FirstPage(idx) .. LastPage(idx, Len(buf))) :
              /\ o.error = "no" <=> Q = FirstPage(idx) .. LastPage(idx, Len(buf))
              /\ HasWritten(o.pages, pg, slot, idx, buf, Q)
<1> DEFINE S == FirstPage(idx) .. LastPage(idx, Len(buf))
           order == WriteOrder(idx, Len(buf))
           Cost(k) == Cardinality(Charged(pg, slot, order, k))
<1>n. Len(buf) \in Nat \ {0} /\ idx \in Nat
  BY DEF IsWrite
<1>1. PICK k \in 0 .. Len(order) :
        /\ Cost(k) <= b /\ o.budget = b - Cost(k)
        /\ o.pages = Overridden(pg, slot, idx, buf, Done(slot, order, k))
        /\ o.error \in {"no", "vm", "internal"} /\ (o.error = "no" <=> k = Len(order))
  <2> DEFINE Fresh(k) == <<slot, order[k]>> \notin DOMAIN pg
             NeedsHost(p) == p * PageSize < idx \/ idx + Len(buf) < (p + 1) * PageSize
             Error(k) == IF k = Len(order) THEN {"no"}
                         ELSE {e \in {"vm", "internal"} :
                                 Fresh(k + 1) /\ (NeedsHost(order[k + 1]) \/ (e = "vm" /\ Cost(k) = b))}
             Result(k, e) == [pages |-> Overridden(pg, slot, idx, buf, Done(slot, order, k)),
                              budget |-> b - Cost(k), error |-> e]
  <2>1. o \in UNION {{Result(k, e) : e \in Error(k)} : k \in {k \in 0 .. Len(order) : Cost(k) <= b}}
    BY Zenon DEF Outcomes
  <2> HIDE DEF order, Cost
  <2>2. PICK k \in 0 .. Len(order) : Cost(k) <= b /\ o \in {Result(k, e) : e \in Error(k)}
    BY <2>1
  <2>3. PICK e \in Error(k) : o = Result(k, e)
    BY <2>2
  <2>4. e \in {"no", "vm", "internal"} /\ (e = "no" <=> k = Len(order))
    OBVIOUS
  <2>5. /\ o.budget = b - Cost(k) /\ o.error = e
        /\ o.pages = Overridden(pg, slot, idx, buf, Done(slot, order, k))
    BY <2>3
  <2> QED
    BY <2>2, <2>4, <2>5
<1>2. /\ Len(order) \in Nat \ {0}
      /\ \A i \in 1 .. Len(order) : order[i] \in S
      /\ \A i, j \in 1 .. Len(order) : order[i] = order[j] => i = j
      /\ \A p \in S : \E i \in 1 .. Len(order) : order[i] = p
  BY <1>n, OrderIs
<1> HIDE DEF S, order
<1> DEFINE Q == {order[i] : i \in 1 .. k}
           done == Done(slot, order, k)
<1>3. k \in Nat /\ k <= Len(order) /\ Q \subseteq S
  BY <1>2
<1>4. done = PagesIn(slot, Q)
  BY DEF Done, PagesIn
<1>5. k = Len(order) <=> Q = S
  <2>1. CASE k = Len(order)
    BY <1>2, <1>3, <2>1
  <2>2. CASE k # Len(order)
    <3>1. k + 1 \in 1 .. Len(order)
      BY <1>2, <1>3, <2>2
    <3>2. \A i \in 1 .. k : i \in 1 .. Len(order) /\ i # k + 1
      BY <1>2, <1>3
    <3>3. order[k + 1] \in S /\ order[k + 1] \notin Q
      BY <1>2, <3>1, <3>2
    <3> QED
      BY <2>2, <3>3
  <2> QED
    BY <2>1, <2>2
<1>6. /\ IsPages(o.pages) /\ DOMAIN o.pages = DOMAIN pg \cup done
      /\ HasWritten(o.pages, pg, slot, idx, buf, Q)
  <2> HIDE DEF Q, done
  <2>1. Q \subseteq FirstPage(idx) .. LastPage(idx, Len(buf))
    BY <1>3 DEF S
  <2>2. o.pages = Overridden(pg, slot, idx, buf, done)
    BY <1>1 DEF done
  <2>3. PICK q, dn, R : q = o.pages /\ dn = done /\ R = Q
    OBVIOUS
  <2>4. R \in SUBSET (FirstPage(idx) .. LastPage(idx, Len(buf))) /\ dn = PagesIn(slot, R)
        /\ q = Overridden(pg, slot, idx, buf, dn)
    BY <1>4, <2>1, <2>2, <2>3
  <2>5. /\ IsPages(q) /\ DOMAIN q = DOMAIN pg \cup dn
        /\ HasWritten(q, pg, slot, idx, buf, R)
    <3>1. HasWritten(q, pg, slot, idx, buf, R)
      BY <2>4, OverriddenIs
    <3>2. IsPages(q)
      BY <2>4, OverriddenIs
    <3>3. DOMAIN q = DOMAIN pg \cup dn
      BY <2>4 DEF Overridden
    <3> QED
      BY <3>1, <3>2, <3>3
  <2> QED
    BY <2>3, <2>5, Zenon
<1>7. /\ Cardinality(DOMAIN o.pages) = Cardinality(DOMAIN pg) + Cost(k)
      /\ Cardinality(DOMAIN o.pages) \in Nat /\ Cardinality(DOMAIN pg) \in Nat /\ Cost(k) \in Nat
  <2> DEFINE new == Charged(pg, slot, order, k)
  <2>1. new = done \ DOMAIN pg /\ Cost(k) = Cardinality(new)
    BY DEF Charged
  <2> HIDE DEF new, done, Cost
  <2>2. DOMAIN o.pages \subseteq PageIDs
    BY <1>6 DEF IsPages
  <2>3. DOMAIN o.pages = DOMAIN pg \cup new /\ DOMAIN pg \cap new = {}
    BY <1>6, <2>1
  <2>4. IsFiniteSet(DOMAIN pg) /\ IsFiniteSet(new) /\ IsFiniteSet(DOMAIN o.pages)
    BY <2>2, <2>3, FinitePages, FS_Subset
  <2>5. /\ Cardinality(DOMAIN pg \cup new) = Cardinality(DOMAIN pg) + Cardinality(new) - Cardinality(DOMAIN pg \cap new)
        /\ Cardinality(DOMAIN pg) \in Nat /\ Cardinality(new) \in Nat /\ Cardinality({}) = 0
    BY <2>4, FS_Union, FS_CardinalityType, FS_EmptySet
  <2>6. PICK x \in Nat, y \in Nat : x = Cardinality(DOMAIN pg) /\ y = Cardinality(new)
    BY <2>5
  <2>7. Cardinality(DOMAIN o.pages) = x + y - 0
    BY <2>3, <2>5, <2>6, Zenon
  <2>8. Cardinality(DOMAIN o.pages) = x + y /\ x + y \in Nat
    BY <2>7
  <2> QED
    BY <2>1, <2>6, <2>8
<1>8. o.budget \in Nat /\ o.budget + Cardinality(DOMAIN o.pages) = b + Cardinality(DOMAIN pg)
  BY <1>1, <1>7
<1>9. \E R \in SUBSET S :
        /\ o.error = "no" <=> R = S
        /\ HasWritten(o.pages, pg, slot, idx, buf, R)
  <2>1. Q \in SUBSET S
    BY <1>3
  <2> HIDE DEF Q
  <2> QED
    BY <1>1, <1>5, <1>6, <2>1
<1> QED
  BY <1>1, <1>6, <1>7, <1>8, <1>9 DEF S

-----------------------------------------------------------------------------
\* The VMs of an execution.

Frame == [pages : UNION {[D -> PageBytes] : D \in SUBSET PageIDs}, events : Nat, canWrite : BOOLEAN]

\* The parts of a frame.
LEMMA FrameParts ==
  ASSUME NEW x \in Frame
  PROVE  /\ IsPages(x.pages) /\ x.events \in Nat /\ x.canWrite \in BOOLEAN
         /\ x = [pages |-> x.pages, events |-> x.events, canWrite |-> x.canWrite]
<1>1. x.pages \in UNION {[D -> PageBytes] : D \in SUBSET PageIDs}
  BY DEF Frame
<1>2. PICK D \in SUBSET PageIDs : x.pages \in [D -> PageBytes]
  BY <1>1
<1>3. IsPages(x.pages)
  BY <1>2 DEF IsPages
<1> QED
  BY <1>3 DEF Frame

\* A frame made from its parts.
LEMMA MakeFrame ==
  ASSUME NEW pg, IsPages(pg), NEW e \in Nat, NEW w \in BOOLEAN
  PROVE  [pages |-> pg, events |-> e, canWrite |-> w] \in Frame
<1>1. pg \in UNION {[D -> PageBytes] : D \in SUBSET PageIDs}
  BY DEF IsPages
<1> QED
  BY <1>1 DEF Frame

\* IsFrame and Frame say the same.
LEMMA FrameIs == ASSUME NEW x PROVE IsFrame(x) <=> x \in Frame
<1>1. ASSUME IsFrame(x) PROVE x \in Frame
  <2>1. IsPages(x.pages) /\ x.events \in Nat /\ x.canWrite \in BOOLEAN
    BY <1>1 DEF IsFrame, IsPages
  <2>2. [pages |-> x.pages, events |-> x.events, canWrite |-> x.canWrite] \in Frame
    BY <2>1, MakeFrame
  <2> QED
    BY <1>1, <2>2 DEF IsFrame
<1>2. ASSUME x \in Frame PROVE IsFrame(x)
  BY <1>2, FrameParts DEF IsFrame, IsPages
<1> QED
  BY <1>1, <1>2

IsFrames(fs) == fs \in Seq(Frame) /\ Len(fs) \in Nat /\ 1 <= Len(fs) /\ Len(fs) <= MaxDepth

\* A stack of frames, frame by frame.
LEMMA FramesAre ==
  ASSUME NEW fs
  PROVE  IsFrames(fs) <=> /\ Len(fs) \in 1 .. MaxDepth /\ fs = [f \in 1 .. Len(fs) |-> fs[f]]
                          /\ \A f \in 1 .. Len(fs) : IsFrame(fs[f])
<1>1. ASSUME IsFrames(fs)
      PROVE  /\ Len(fs) \in 1 .. MaxDepth /\ fs = [f \in 1 .. Len(fs) |-> fs[f]]
             /\ \A f \in 1 .. Len(fs) : IsFrame(fs[f])
  <2>1. fs \in Seq(Frame) /\ Len(fs) \in 1 .. MaxDepth
    BY <1>1, Sizes DEF IsFrames
  <2>2. \A f \in 1 .. Len(fs) : fs[f] \in Frame
    BY <2>1
  <2> QED
    BY <2>1, <2>2, FrameIs
<1>2. ASSUME Len(fs) \in 1 .. MaxDepth, fs = [f \in 1 .. Len(fs) |-> fs[f]], \A f \in 1 .. Len(fs) : IsFrame(fs[f])
      PROVE  IsFrames(fs)
  <2>1. PICK n \in Nat : n = Len(fs) /\ 1 <= n /\ n <= MaxDepth
    BY <1>2, Sizes
  <2>2. \A f \in 1 .. n : fs[f] \in Frame
    BY <1>2, <2>1, FrameIs
  <2>3. fs = [f \in 1 .. n |-> fs[f]]
    BY <1>2, <2>1
  <2>4. fs \in Seq(Frame)
    BY <2>2, <2>3
  <2> QED
    BY <2>1, <2>4 DEF IsFrames
<1> QED
  BY <1>1, <1>2

\* Each frame of a stack has its type.
LEMMA FrameAt ==
  ASSUME NEW fs, IsFrames(fs), NEW f \in 1 .. Len(fs)
  PROVE  fs[f] \in Frame /\ IsPages(fs[f].pages) /\ fs[f].events \in Nat
  BY FrameParts DEF IsFrames

-----------------------------------------------------------------------------
\* What is paid for.

\* EventsOf is a sum over the frames.
LEMMA EventsAreSum == ASSUME NEW fs PROVE EventsOf(fs) = SumOver([f \in 1 .. Len(fs) |-> fs[f].events], 1 .. Len(fs))
  BY Zenon DEF EventsOf, SumOver

IsNested(fs) == \A f \in 1 .. Len(fs) - 1 : DOMAIN fs[f].pages \subseteq DOMAIN fs[f + 1].pages

Paid(fs, b, gone) == PageLimit - b = Cardinality(DOMAIN fs[Len(fs)].pages) + gone + EventsOf(fs)

Sound(fs, b, gone) == IsFrames(fs) /\ IsNested(fs) /\ b \in Nat /\ gone \in Nat /\ Paid(fs, b, gone)

\* The number of events is a natural number.
LEMMA EventsType == ASSUME NEW fs, IsFrames(fs) PROVE EventsOf(fs) \in Nat
<1> DEFINE ev == [f \in 1 .. Len(fs) |-> fs[f].events]
<1>0. PICK n \in Nat : n = Len(fs)
  BY DEF IsFrames
<1>1. IsFiniteSet(1 .. Len(fs)) /\ \A f \in 1 .. Len(fs) : ev[f] \in Nat
  <2>1. IsFiniteSet(1 .. n)
    BY FS_Interval
  <2>2. \A f \in 1 .. Len(fs) : ev[f] \in Nat
    BY FrameAt
  <2> QED
    BY <1>0, <2>1, <2>2
<1> HIDE DEF ev
<1>2. SumOver(ev, 1 .. Len(fs)) \in Nat
  BY <1>1, SumNat
<1> QED
  BY <1>2, EventsAreSum DEF ev

\* A VM overrides finitely many pages.
LEMMA PagesCounted == ASSUME NEW pg, IsPages(pg) PROVE IsFiniteSet(DOMAIN pg) /\ Cardinality(DOMAIN pg) \in Nat
  BY FinitePages, FS_Subset, FS_CardinalityType DEF IsPages

\* How far the events of two sequences of VMs differ in VM n only.
EventsShift(fs, g, n) == EventsOf(g) = EventsOf(fs) - fs[n].events + g[n].events

\* The innermost VM of fs becomes x in g, and keeps its pages.
TopBecomes(fs, g, n, x) ==
  n = Len(fs) /\ g = [fs EXCEPT ![n] = x] /\ DOMAIN fs[n].pages \subseteq DOMAIN x.pages

TopIsNow(fs, g, n, x) ==
  /\ IsFrames(g) /\ IsNested(g) /\ Len(g) = n /\ g[n] = x
  /\ \A f \in 1 .. n : f # n => g[f] = fs[f]
  /\ EventsShift(fs, g, n)

\* The innermost VM changes.
LEMMA TopChanged ==
  ASSUME NEW fs, IsFrames(fs), IsNested(fs), NEW n, NEW x \in Frame, NEW g, TopBecomes(fs, g, n, x)
  PROVE  TopIsNow(fs, g, n, x)
<1>0. n = Len(fs) /\ g = [fs EXCEPT ![n] = x] /\ DOMAIN fs[n].pages \subseteq DOMAIN x.pages
  BY DEF TopBecomes
<1>1. fs \in Seq(Frame) /\ n \in Nat /\ 1 <= n /\ n <= MaxDepth /\ n \in 1 .. n
  BY <1>0 DEF IsFrames
<1>2. g \in Seq(Frame) /\ Len(g) = n /\ g[n] = x /\ \A f \in 1 .. n : f # n => g[f] = fs[f]
  BY <1>0, <1>1
<1>3. IsFrames(g)
  BY <1>1, <1>2 DEF IsFrames
<1>4. IsNested(g)
  <2> SUFFICES ASSUME NEW f \in 1 .. n - 1 PROVE DOMAIN g[f].pages \subseteq DOMAIN g[f + 1].pages
    BY <1>2 DEF IsNested
  <2>1. f \in 1 .. n /\ f + 1 \in 1 .. n /\ f # n
    BY <1>1
  <2>2. g[f] = fs[f] /\ DOMAIN fs[f].pages \subseteq DOMAIN fs[f + 1].pages
    BY <1>0, <1>2, <2>1 DEF IsNested
  <2>3. CASE f + 1 = n
    BY <1>0, <1>2, <2>2, <2>3
  <2>4. CASE f + 1 # n
    BY <1>2, <2>1, <2>2, <2>4
  <2> QED
    BY <2>3, <2>4
<1>5. EventsShift(fs, g, n)
  <2> DEFINE a == [f \in 1 .. n |-> fs[f].events]
             h == [f \in 1 .. n |-> g[f].events]
  <2>1. IsFiniteSet(1 .. n)
    BY <1>1, FS_Interval
  <2>2. \A f \in 1 .. n : fs[f].events \in Nat
    BY <1>0, FrameAt
  <2>3. \A f \in 1 .. n : g[f].events \in Nat
    BY <1>2, <1>3, FrameAt
  <2>4. \A f \in 1 .. n : a[f] \in Int /\ h[f] \in Int
    BY <2>2, <2>3
  <2>5. \A f \in (1 .. n) \ {n} : a[f] = h[f]
    BY <1>2
  <2>6. a[n] = fs[n].events /\ h[n] = g[n].events
    BY <1>1, <1>2
  <2>7. EventsOf(fs) = SumOver(a, 1 .. n) /\ EventsOf(g) = SumOver(h, 1 .. n)
    BY <1>0, <1>2, EventsAreSum
  <2> HIDE DEF a, h
  <2>8. SumOver(h, 1 .. n) = SumOver(a, 1 .. n) - a[n] + h[n]
    <3>1. PICK T : T = 1 .. n
      OBVIOUS
    <3>2. IsFiniteSet(T) /\ n \in T /\ (\A f \in T : a[f] \in Int /\ h[f] \in Int) /\ \A f \in T \ {n} : a[f] = h[f]
      BY <1>1, <2>1, <2>4, <2>5, <3>1
    <3>3. SumOver(h, T) = SumOver(a, T) - a[n] + h[n]
      BY <3>2, SumChange
    <3> QED
      BY <3>1, <3>3
  <2> QED
    BY <2>6, <2>7, <2>8 DEF EventsShift
<1> QED
  BY <1>2, <1>3, <1>4, <1>5 DEF TopIsNow

WithPages(fs, n, q) == [fs EXCEPT ![n].pages = q]
WithEvent(fs, n, size) == [fs EXCEPT ![n].events = @ + size]

\* What leaves the budget is added to the pages and events.
LEMMA Balance ==
  ASSUME NEW limit \in Nat, NEW b \in Nat, NEW c \in Nat, NEW u \in Nat, NEW v \in Nat, NEW gone \in Nat, NEW e \in Nat,
         NEW d \in Nat, limit - b = u + gone + e, c + v + d = b + u
  PROVE  limit - c = v + gone + (e + d)
  OBVIOUS

\* It writes.
LEMMA PagesPut ==
  ASSUME NEW fs, NEW b, NEW gone, Sound(fs, b, gone), NEW n, n = Len(fs), NEW q, IsPages(q),
         DOMAIN fs[n].pages \subseteq DOMAIN q, NEW c \in Nat,
         c + Cardinality(DOMAIN q) = b + Cardinality(DOMAIN fs[n].pages),
         NEW g, g = WithPages(fs, n, q)
  PROVE  Sound(g, c, gone) /\ Len(g) = n /\ g[n].pages = q /\ \A f \in 1 .. n : f # n => g[f] = fs[f]
<1>1. IsFrames(fs) /\ IsNested(fs) /\ b \in Nat /\ gone \in Nat /\ n \in 1 .. n /\ n \in Nat
  BY DEF Sound, IsFrames
<1>2. /\ fs[n] \in Frame /\ IsPages(fs[n].pages) /\ fs[n].events \in Nat /\ fs[n].canWrite \in BOOLEAN
      /\ fs[n] = [pages |-> fs[n].pages, events |-> fs[n].events, canWrite |-> fs[n].canWrite]
  BY <1>1, FrameAt, FrameParts
<1>3. PICK x : x = [pages |-> q, events |-> fs[n].events, canWrite |-> fs[n].canWrite]
  OBVIOUS
<1>4. x \in Frame
  BY <1>2, <1>3, MakeFrame
<1>5. x.pages = q /\ x.events = fs[n].events
  BY <1>3
<1>6. g = [fs EXCEPT ![n] = x]
  <2>1. [fs[n] EXCEPT !.pages = q] = x
    BY ONLY <1>2, <1>3
  <2> QED
    BY <2>1, Zenon DEF WithPages
<1>7. /\ IsFrames(g) /\ IsNested(g) /\ Len(g) = n /\ g[n] = x
      /\ \A f \in 1 .. n : f # n => g[f] = fs[f]
      /\ EventsShift(fs, g, n)
  <2>1. DOMAIN fs[n].pages \subseteq DOMAIN x.pages
    BY <1>5
  <2>2. TopBecomes(fs, g, n, x)
    BY <1>6, <2>1, Zenon DEF TopBecomes
  <2>3. TopIsNow(fs, g, n, x)
    BY ONLY <1>1, <1>4, <2>2, TopChanged
  <2> QED
    BY <2>3, Zenon DEF TopIsNow
<1>8. PICK u \in Nat, v \in Nat, e \in Nat :
        u = Cardinality(DOMAIN fs[n].pages) /\ v = Cardinality(DOMAIN q) /\ e = EventsOf(fs)
  BY <1>1, <1>2, PagesCounted, EventsType
<1>9. EventsOf(g) = e
  BY <1>2, <1>5, <1>7, <1>8 DEF EventsShift
<1>10. PageLimit - b = u + gone + e
  BY <1>8 DEF Sound, Paid
<1>11. PageLimit - c = v + gone + e
  <2>1. c + v = b + u
    BY <1>8
  <2>2. c + v + 0 = b + u /\ PageLimit \in Nat /\ 0 \in Nat
    BY <1>1, <2>1, Sizes
  <2>3. PageLimit - c = v + gone + (e + 0)
    BY <1>1, <1>10, <2>2, Balance
  <2> QED
    BY <2>3
<1>12. Paid(g, c, gone)
  BY <1>5, <1>7, <1>8, <1>9, <1>11 DEF Paid
<1> QED
  BY <1>1, <1>5, <1>7, <1>12 DEF Sound

\* It emits an event.
LEMMA EventPut ==
  ASSUME NEW fs, NEW b, NEW gone, Sound(fs, b, gone), NEW n, n = Len(fs), NEW size \in Nat, size <= b,
         NEW g, g = WithEvent(fs, n, size)
  PROVE  Sound(g, b - size, gone) /\ Len(g) = n /\ \A f \in 1 .. n : g[f].pages = fs[f].pages
<1>1. IsFrames(fs) /\ IsNested(fs) /\ b \in Nat /\ gone \in Nat /\ n \in 1 .. n /\ n \in Nat
  BY DEF Sound, IsFrames
<1>2. /\ fs[n] \in Frame /\ IsPages(fs[n].pages) /\ fs[n].events \in Nat /\ fs[n].canWrite \in BOOLEAN
      /\ fs[n] = [pages |-> fs[n].pages, events |-> fs[n].events, canWrite |-> fs[n].canWrite]
  BY <1>1, FrameAt, FrameParts
<1>3. PICK x : x = [pages |-> fs[n].pages, events |-> fs[n].events + size, canWrite |-> fs[n].canWrite]
  OBVIOUS
<1>4. x \in Frame
  BY <1>2, <1>3, MakeFrame
<1>5. x.pages = fs[n].pages /\ x.events = fs[n].events + size
  BY <1>3
<1>6. g = [fs EXCEPT ![n] = x]
  <2>1. [fs[n] EXCEPT !.events = @ + size] = x
    BY ONLY <1>2, <1>3
  <2> QED
    BY <2>1, Zenon DEF WithEvent
<1>7. /\ IsFrames(g) /\ IsNested(g) /\ Len(g) = n /\ g[n] = x
      /\ \A f \in 1 .. n : f # n => g[f] = fs[f]
      /\ EventsShift(fs, g, n)
  <2>1. DOMAIN fs[n].pages \subseteq DOMAIN x.pages
    BY <1>5
  <2>2. TopBecomes(fs, g, n, x)
    BY <1>6, <2>1, Zenon DEF TopBecomes
  <2>3. TopIsNow(fs, g, n, x)
    BY ONLY <1>1, <1>4, <2>2, TopChanged
  <2> QED
    BY <2>3, Zenon DEF TopIsNow
<1>8. PICK u \in Nat, e \in Nat : u = Cardinality(DOMAIN fs[n].pages) /\ e = EventsOf(fs)
  BY <1>1, <1>2, PagesCounted, EventsType
<1>9. EventsOf(g) = e + size
  BY <1>2, <1>5, <1>7, <1>8 DEF EventsShift
<1>10. PageLimit - b = u + gone + e
  BY <1>8 DEF Sound, Paid
<1>11. PageLimit - (b - size) = u + gone + (e + size) /\ b - size \in Nat
  <2>1. PICK c \in Nat : c = b - size /\ c + u + size = b + u
    BY <1>1
  <2>2. PageLimit - c = u + gone + (e + size)
    <3>1. PageLimit \in Nat /\ PageLimit - b = u + gone + e
      BY <1>10, Sizes
    <3> QED
      BY <1>1, <2>1, <3>1, Balance
  <2> QED
    BY <2>1, <2>2
<1>12. Paid(g, b - size, gone)
  BY <1>5, <1>7, <1>8, <1>9, <1>11 DEF Paid
<1> QED
  BY <1>1, <1>5, <1>7, <1>11, <1>12 DEF Sound

\* One VM more has its own events in addition.
EventsAdd(fs, g, n) == EventsOf(g) = g[n + 1].events + EventsOf(fs)

\* A sandbox adds its own events to those of its callers.
LEMMA OneMore ==
  ASSUME NEW fs, IsFrames(fs), NEW g, IsFrames(g), NEW n \in Nat, n = Len(fs), Len(g) = n + 1,
         \A f \in 1 .. n : g[f] = fs[f]
  PROVE  EventsAdd(fs, g, n)
<1> DEFINE a == [f \in 1 .. n |-> fs[f].events]
           h == [f \in 1 .. n + 1 |-> g[f].events]
<1>1. PICK m, S, T : m \in Nat /\ m = n + 1 /\ S = 1 .. n /\ T = 1 .. m
  OBVIOUS
<1>2. IsFiniteSet(S) /\ IsFiniteSet(T) /\ T \ {m} = S /\ m \in T
  <2>1. IsFiniteSet(1 .. n) /\ IsFiniteSet(1 .. m)
    BY <1>1, FS_Interval
  <2>2. (1 .. m) \ {m} = 1 .. n /\ m \in 1 .. m
    BY <1>1
  <2> QED
    BY <1>1, <2>1, <2>2
<1>3. \A f \in T : h[f] = g[f].events /\ h[f] \in Int
  <2>1. \A f \in T : g[f].events \in Nat
    BY <1>1, FrameAt
  <2> QED
    BY <1>1, <2>1
<1>4. \A f \in S : h[f] = a[f]
  BY <1>1
<1>5. EventsOf(fs) = SumOver(a, S) /\ EventsOf(g) = SumOver(h, T)
  BY <1>1, EventsAreSum
<1> HIDE DEF a, h
<1>6. SumOver(h, T) = h[m] + SumOver(h, T \ {m})
  <2>1. PICK c : c = h
    OBVIOUS
  <2>2. IsFiniteSet(T) /\ m \in T /\ \A f \in T : c[f] \in Int
    BY <1>2, <1>3, <2>1
  <2>3. SumOver(c, T) = c[m] + SumOver(c, T \ {m})
    BY ONLY <2>2, SumRemove
  <2> QED
    BY <2>1, <2>3
<1>7. SumOver(h, S) = SumOver(a, S)
  BY <1>2, <1>4, SumSame
<1> QED
  BY <1>1, <1>2, <1>3, <1>5, <1>6, <1>7 DEF EventsAdd

\* A sandbox starts: one frame more, with its caller's pages.
Pushes(fs, g, n, w) ==
  n = Len(fs) /\ n < MaxDepth /\ g = Append(fs, [pages |-> fs[n].pages, events |-> 0, canWrite |-> w])

OneAbove(fs, g, n) ==
  /\ Len(g) = n + 1 /\ g[n + 1].pages = fs[n].pages
  /\ \A f \in 1 .. n : g[f] = fs[f]

\* It has its caller's pages and pays nothing for them.
LEMMA Pushed ==
  ASSUME NEW fs, NEW b, NEW gone, Sound(fs, b, gone), NEW n, NEW w \in BOOLEAN, NEW g, Pushes(fs, g, n, w)
  PROVE  Sound(g, b, gone) /\ OneAbove(fs, g, n)
<1>0. n = Len(fs) /\ n < MaxDepth /\ g = Append(fs, [pages |-> fs[n].pages, events |-> 0, canWrite |-> w])
  BY DEF Pushes
<1>1. IsFrames(fs) /\ IsNested(fs) /\ b \in Nat /\ gone \in Nat /\ n \in 1 .. n /\ n \in Nat /\ fs \in Seq(Frame)
  BY <1>0 DEF Sound, IsFrames
<1>2. fs[n] \in Frame /\ IsPages(fs[n].pages)
  BY <1>0, <1>1, FrameAt
<1>3. PICK x : x = [pages |-> fs[n].pages, events |-> 0, canWrite |-> w]
  OBVIOUS
<1>4. x \in Frame /\ x.pages = fs[n].pages /\ x.events = 0
  BY <1>2, <1>3, MakeFrame
<1>5. g = Append(fs, x)
  BY <1>0, <1>3
<1>6. g \in Seq(Frame) /\ Len(g) = n + 1 /\ g[n + 1] = x /\ \A f \in 1 .. n : g[f] = fs[f]
  BY <1>0, <1>1, <1>4, <1>5
<1>7. IsFrames(g)
  BY <1>0, <1>1, <1>6, Sizes DEF IsFrames
<1>8. IsNested(g)
  <2> SUFFICES ASSUME NEW f \in 1 .. n PROVE DOMAIN g[f].pages \subseteq DOMAIN g[f + 1].pages
    BY <1>0, <1>1, <1>6 DEF IsNested
  <2>1. CASE f = n
    BY <1>1, <1>4, <1>6, <2>1
  <2>2. CASE f # n
    <3>1. f \in 1 .. n - 1 /\ f + 1 \in 1 .. n
      BY <1>1, <2>2
    <3> QED
      BY <1>0, <1>1, <1>6, <3>1 DEF IsNested
  <2> QED
    BY <2>1, <2>2
<1>9. EventsAdd(fs, g, n)
  BY <1>0, <1>1, <1>6, <1>7, OneMore
<1>10. EventsOf(g) = EventsOf(fs)
  <2>1. EventsOf(fs) \in Nat
    BY <1>1, EventsType
  <2> QED
    BY <1>4, <1>6, <1>9, <2>1 DEF EventsAdd
<1>11. Paid(g, b, gone)
  BY <1>0, <1>4, <1>6, <1>10 DEF Sound, Paid
<1> QED
  BY <1>1, <1>4, <1>6, <1>7, <1>8, <1>11 DEF Sound, OneAbove

\* A sandbox returns, and what it has paid for is lost.
Lost(fs, n, gone) == gone + fs[n + 1].events + Cardinality(DOMAIN fs[n + 1].pages \ DOMAIN fs[n].pages)

\* A sandbox that returns leaves its pages and events to the discarded ones.
LEMMA Popped ==
  ASSUME NEW fs, NEW b, NEW gone, Sound(fs, b, gone), NEW n \in Nat, n + 1 = Len(fs), 1 <= n,
         NEW g, g = SubSeq(fs, 1, n),
         NEW left, left = Lost(fs, n, gone)
  PROVE  Sound(g, b, left) /\ Len(g) = n /\ \A f \in 1 .. n : g[f] = fs[f]
<1>1. IsFrames(fs) /\ IsNested(fs) /\ b \in Nat /\ gone \in Nat /\ fs \in Seq(Frame) /\ n + 1 <= MaxDepth
  BY DEF Sound, IsFrames
<1>2. n \in 1 .. n /\ n \in 1 .. Len(fs) - 1 /\ n + 1 \in 1 .. Len(fs) /\ n \in 1 .. Len(fs)
  OBVIOUS
<1>3. PICK p, q : p = fs[n].pages /\ q = fs[n + 1].pages
  OBVIOUS
<1>4. IsPages(p) /\ IsPages(q) /\ fs[n + 1].events \in Nat /\ DOMAIN p \subseteq DOMAIN q
  <2>1. DOMAIN p \subseteq DOMAIN q
    BY <1>1, <1>2, <1>3 DEF IsNested
  <2> QED
    BY <1>1, <1>2, <1>3, <2>1, FrameAt
<1>5. g \in Seq(Frame) /\ Len(g) = n /\ \A f \in 1 .. n : g[f] = fs[f]
  BY <1>1
<1>6. IsFrames(g)
  BY <1>1, <1>5, Sizes DEF IsFrames
<1>7. IsNested(g)
  <2> SUFFICES ASSUME NEW f \in 1 .. n - 1 PROVE DOMAIN g[f].pages \subseteq DOMAIN g[f + 1].pages
    BY <1>5 DEF IsNested
  <2>1. f \in 1 .. n /\ f + 1 \in 1 .. n /\ f \in 1 .. Len(fs) - 1
    OBVIOUS
  <2> QED
    BY <1>1, <1>5, <2>1 DEF IsNested
<1>8. PICK u \in Nat, v \in Nat, k \in Nat :
        /\ u = Cardinality(DOMAIN q) /\ v = Cardinality(DOMAIN p) /\ k = Cardinality(DOMAIN q \ DOMAIN p) /\ u = v + k
  <2>1. PICK A, B : A = DOMAIN q /\ B = DOMAIN p
    OBVIOUS
  <2>2. IsFiniteSet(A) /\ IsFiniteSet(B) /\ B \subseteq A /\ Cardinality(A) \in Nat /\ Cardinality(B) \in Nat
    BY <1>4, <2>1, PagesCounted
  <2>3. IsFiniteSet(A \ B) /\ Cardinality(A \ B) \in Nat
    BY <2>2, FS_Subset, FS_CardinalityType
  <2>4. Cardinality(A \ B) = Cardinality(A) - Cardinality(A \cap B) /\ A \cap B = B
    BY <2>2, FS_Difference
  <2>6. PICK x \in Nat, y \in Nat, z \in Nat : x = Cardinality(A) /\ y = Cardinality(B) /\ z = Cardinality(A \ B)
    BY <2>2, <2>3
  <2>7. z = x - y
    BY <2>4, <2>6, Zenon
  <2>8. x = y + z
    BY <2>7
  <2>5. Cardinality(A) = Cardinality(B) + Cardinality(A \ B)
    BY <2>6, <2>8, Zenon
  <2> QED
    BY <2>1, <2>2, <2>3, <2>5
<1>9. EventsAdd(g, fs, n)
  BY <1>1, <1>5, <1>6, OneMore
<1>10. PICK e \in Nat, x \in Nat : e = EventsOf(g) /\ x = fs[n + 1].events
  BY <1>4, <1>6, EventsType
<1>11. EventsOf(fs) = x + e
  BY <1>9, <1>10 DEF EventsAdd
<1>12. PageLimit - b = u + gone + (x + e)
  BY <1>3, <1>8, <1>11 DEF Sound, Paid
<1>13. left = gone + x + k
  BY <1>3, <1>8, <1>10 DEF Lost
<1>14. left \in Nat /\ PageLimit - b = v + left + e
  <2>1. u = v + k /\ gone \in Nat /\ PageLimit \in Nat /\ b \in Nat
    BY <1>1, <1>8, Sizes
  <2>2. PICK w \in Nat : w = gone
    BY <2>1
  <2>3. left = w + x + k /\ PageLimit - b = v + k + w + (x + e)
    BY <1>12, <1>13, <2>1, <2>2
  <2>4. PICK y \in Nat : y = left
    BY <2>3
  <2>5. v + k + w + (x + e) = v + y + e
    BY <2>3, <2>4
  <2> QED
    BY <2>3, <2>4, <2>5
<1>15. Paid(g, b, left)
  BY <1>2, <1>3, <1>5, <1>8, <1>10, <1>14 DEF Paid
<1> QED
  BY <1>1, <1>5, <1>6, <1>7, <1>14, <1>15 DEF Sound

-----------------------------------------------------------------------------
\* The invariant.

Control(w, t, ph) ==
  /\ w \in 0 .. MaxWrites /\ t \in {"no", "vm", "internal"}
  /\ ph \in {"start", "loading", "running", "done", "failed"} /\ (ph = "start" => w = 0)

\* The invariant as a statement about frames and budget, and about control.
LEMMA InvIs == StorageInv <=> Sound(frames, budget, discarded) /\ Control(writes, trapped, phase)
<1>1. Nested <=> IsNested(frames)
  BY DEF Nested, IsNested
<1>2. ASSUME budget \in Nat PROVE PaidExactlyOnce <=> Paid(frames, budget, discarded)
  <2>1. budget >= 0
    BY <1>2
  <2> QED
    BY <2>1, Zenon DEF PaidExactlyOnce, Paid, pages
<1>3. TypeOK <=> /\ IsFrames(frames) /\ budget \in Nat /\ discarded \in Nat
                 /\ writes \in 0 .. MaxWrites /\ trapped \in {"no", "vm", "internal"}
                 /\ phase \in {"start", "loading", "running", "done", "failed"}
  <2>1. IsFrames(frames) <=> /\ Len(frames) \in 1 .. MaxDepth /\ frames = [f \in 1 .. Len(frames) |-> frames[f]]
                             /\ \A f \in 1 .. Len(frames) : IsFrame(frames[f])
    BY FramesAre
  <2> QED
    BY <2>1, Zenon DEF TypeOK
<1> QED
  BY <1>1, <1>2, <1>3 DEF StorageInv, Sound, Control

\* The same of the next state.
LEMMA InvNextIs == StorageInv' <=> Sound(frames', budget', discarded') /\ Control(writes', trapped', phase')
<1>1. Nested' <=> IsNested(frames')
  BY DEF Nested, IsNested
<1>2. ASSUME budget' \in Nat PROVE PaidExactlyOnce' <=> Paid(frames', budget', discarded')
  <2>1. budget' >= 0
    BY <1>2
  <2> QED
    BY <2>1, Zenon DEF PaidExactlyOnce, Paid, pages
<1>3. TypeOK' <=> /\ IsFrames(frames') /\ budget' \in Nat /\ discarded' \in Nat
                  /\ writes' \in 0 .. MaxWrites /\ trapped' \in {"no", "vm", "internal"}
                  /\ phase' \in {"start", "loading", "running", "done", "failed"}
  <2>1. PICK fs : fs = frames'
    OBVIOUS
  <2>2. IsFrames(fs) <=> /\ Len(fs) \in 1 .. MaxDepth /\ fs = [f \in 1 .. Len(fs) |-> fs[f]]
                         /\ \A f \in 1 .. Len(fs) : IsFrame(fs[f])
    BY FramesAre
  <2>3. IsFrames(frames') <=> /\ Len(frames') \in 1 .. MaxDepth /\ frames' = [f \in 1 .. Len(frames') |-> frames'[f]]
                              /\ \A f \in 1 .. Len(frames') : IsFrame(frames'[f])
    BY <2>1, <2>2, Zenon
  <2> QED
    BY <2>3, Zenon DEF TypeOK
<1> QED
  BY <1>1, <1>2, <1>3 DEF StorageInv, Sound, Control

\* The buffers the model writes.
LEMMA BufferIs ==
  ASSUME NEW k \in Nat, NEW n \in Nat, NEW buf, buf = Buffer(k, n)
  PROVE  buf \in Seq(Bytes) /\ Len(buf) = n /\ \A j \in 1 .. n : buf[j] = <<k, 0, j>>
<1>1. \A j \in 1 .. n : <<k, 0, j>> \in Bytes
  BY DEF Bytes
<1> QED
  BY <1>1 DEF Buffer

-----------------------------------------------------------------------------
\* Each action keeps it.

\* A write, whatever its outcome (storage.rs write).
LEMMA WriteStep ==
  ASSUME StorageInv, NEW slot \in Slots, NEW idx \in Indexes, NEW n \in 1 .. MaxIndex - idx, StorageWrite(slot, idx, n)
  PROVE  StorageInv'
<1>1. Sound(frames, budget, discarded) /\ Control(writes, trapped, phase)
  BY InvIs
<1>2. PICK fs, b, m, pg : fs = frames /\ b = budget /\ m = Len(frames) /\ pg = fs[m].pages
  OBVIOUS
<1>3. PICK buf : buf = Buffer(writes + 3, n)
  OBVIOUS
<1>4. PICK o \in Outcomes(pg, b, slot, idx, buf) :
        frames' = WithPages(fs, m, o.pages) /\ budget' = o.budget /\ trapped' = o.error
  BY <1>2, <1>3 DEF StorageWrite, SetPages, WithPages, pages
<1>5. Sound(fs, b, discarded) /\ b \in Nat /\ IsPages(pg)
  <2>1. IsFrames(fs) /\ b \in Nat
    BY <1>1, <1>2 DEF Sound
  <2>2. m \in 1 .. Len(fs)
    BY <1>2, <2>1 DEF IsFrames
  <2> QED
    BY <1>1, <1>2, <2>1, <2>2, FrameAt
<1>6. IsWrite(pg, slot, idx, buf)
  <2>1. writes + 3 \in Nat /\ n \in Nat /\ n > 0 /\ idx \in Nat /\ idx + n <= MaxIndex
    BY <1>1, Sizes DEF Control, Indexes
  <2>2. buf \in Seq(Bytes) /\ Len(buf) = n
    BY <1>3, <2>1, BufferIs
  <2> QED
    BY <1>5, <2>1, <2>2 DEF IsWrite
<1>7. /\ IsPages(o.pages) /\ DOMAIN pg \subseteq DOMAIN o.pages
      /\ o.budget \in Nat /\ o.budget + Cardinality(DOMAIN o.pages) = b + Cardinality(DOMAIN pg)
      /\ o.error \in {"no", "vm", "internal"}
  BY <1>4, <1>5, <1>6, WriteEnds
<1>8. Sound(frames', budget', discarded)
  <2>1. PICK q, c : q = o.pages /\ c = o.budget
    OBVIOUS
  <2>2. PICK g : g = WithPages(fs, m, q)
    OBVIOUS
  <2>3. /\ IsPages(q) /\ DOMAIN fs[m].pages \subseteq DOMAIN q /\ c \in Nat
        /\ c + Cardinality(DOMAIN q) = b + Cardinality(DOMAIN fs[m].pages)
    BY <1>2, <1>7, <2>1
  <2>4. Sound(g, c, discarded)
    BY <1>2, <1>5, <2>2, <2>3, PagesPut
  <2> QED
    BY <1>4, <2>1, <2>2, <2>4
<1>9. Control(writes', trapped', phase') /\ discarded' = discarded
  <2>1. writes' \in 0 .. MaxWrites /\ phase' = phase /\ phase = "running" /\ discarded' = discarded
    BY <1>1, Sizes DEF StorageWrite, Running, Control
  <2> QED
    BY <1>4, <1>7, <2>1 DEF Control
<1> QED
  BY <1>8, <1>9, InvNextIs

\* An event (genlayer_sdk.rs emit_event).
LEMMA EmitStep ==
  ASSUME StorageInv, NEW size \in 1 .. 2, EmitEvent(size)
  PROVE  StorageInv'
<1>1. Sound(frames, budget, discarded) /\ Control(writes, trapped, phase)
  BY InvIs
<1>2. phase = "running" /\ UNCHANGED <<writes, discarded, phase>>
  BY DEF EmitEvent, Running
<1>3. CASE size <= budget
  <2>1. budget' = budget - size /\ frames' = WithEvent(frames, Len(frames), size) /\ trapped' = trapped
    BY <1>3 DEF EmitEvent, WithEvent
  <2>2. PICK fs, b, m, g : fs = frames /\ b = budget /\ m = Len(fs) /\ g = WithEvent(fs, m, size)
    OBVIOUS
  <2>3. Sound(g, b - size, discarded)
    BY <1>1, <1>3, <2>2, EventPut
  <2> QED
    BY <1>1, <1>2, <2>1, <2>2, <2>3, InvNextIs
<1>4. CASE ~ (size <= budget)
  <2>1. trapped' = "vm" /\ UNCHANGED <<budget, frames>>
    BY <1>4 DEF EmitEvent
  <2> QED
    BY <1>1, <1>2, <2>1, InvNextIs DEF Control
<1> QED
  BY <1>3, <1>4

\* The start of a sandbox (genlayer_sdk.rs sandbox).
LEMMA SandboxStep ==
  ASSUME StorageInv, NEW allow \in BOOLEAN, Sandbox(allow)
  PROVE  StorageInv'
<1>1. Sound(frames, budget, discarded) /\ Control(writes, trapped, phase)
  BY InvIs
<1>2. PICK fs, b, m : fs = frames /\ b = budget /\ m = Len(frames)
  OBVIOUS
<1>3. PICK w \in BOOLEAN : w = (fs[m].canWrite /\ allow)
  OBVIOUS
<1>4. /\ m < MaxDepth /\ frames' = Append(fs, [pages |-> fs[m].pages, events |-> 0, canWrite |-> w])
      /\ UNCHANGED <<budget, writes, trapped, discarded, phase>>
  BY <1>2, <1>3, Zenon DEF Sandbox, pages
<1>5. PICK g : g = Append(fs, [pages |-> fs[m].pages, events |-> 0, canWrite |-> w])
  OBVIOUS
<1>6. Sound(g, b, discarded)
  <2>1. PICK gone : gone = discarded
    OBVIOUS
  <2>2. Sound(fs, b, gone) /\ m = Len(fs) /\ m < MaxDepth
    BY <1>1, <1>2, <1>4, <2>1
  <2>3. Pushes(fs, g, m, w)
    BY <1>5, <2>2, Zenon DEF Pushes
  <2>4. Sound(g, b, gone)
    BY ONLY w \in BOOLEAN, <2>2, <2>3, Pushed
  <2> QED
    BY <2>1, <2>4
<1> QED
  BY <1>1, <1>2, <1>4, <1>5, <1>6, InvNextIs

\* The return of a sandbox, whose copy is dropped.
LEMMA ReturnStep ==
  ASSUME StorageInv, SandboxReturns
  PROVE  StorageInv'
<1>1. Sound(frames, budget, discarded) /\ Control(writes, trapped, phase)
  BY InvIs
<1>2. PICK fs, b, gone : fs = frames /\ b = budget /\ gone = discarded
  OBVIOUS
<1>3. PICK m \in Nat : m + 1 = Len(fs) /\ 1 <= m
  <2>1. Len(fs) \in Nat /\ Len(fs) > 1
    BY <1>1, <1>2 DEF Sound, IsFrames, SandboxReturns
  <2>2. Len(fs) - 1 \in Nat /\ (Len(fs) - 1) + 1 = Len(fs) /\ 1 <= Len(fs) - 1
    BY <2>1
  <2> QED
    BY <2>2
<1>4. Len(fs) - 1 = m
  BY <1>3
<1>5. PICK left : left = Lost(fs, m, gone)
  OBVIOUS
<1>6. discarded' = left /\ frames' = SubSeq(fs, 1, m) /\ UNCHANGED <<budget, writes, phase>>
  BY <1>2, <1>3, <1>4, <1>5, Zenon DEF SandboxReturns, Lost, pages
<1>7. PICK g : g = SubSeq(fs, 1, m)
  OBVIOUS
<1>8. Sound(g, b, left)
  BY <1>1, <1>2, <1>3, <1>5, <1>7, Popped
<1>9. trapped' \in {"no", "vm", "internal"} /\ phase = "running"
  BY <1>1 DEF SandboxReturns, Control
<1>10. Control(writes', trapped', phase')
  BY <1>1, <1>6, <1>9 DEF Control
<1> QED
  BY <1>2, <1>6, <1>7, <1>8, <1>10, InvNextIs

\* write_code as a whole: q is what its two writes leave.
LEMMA CodeWritten ==
  ASSUME NEW pg, IsPages(pg), NEW b \in Nat, NEW h, h = Buffer(1, HeaderSize), NEW c, c = Buffer(2, CodeSize)
  PROVE  /\ IsWrite(pg, CodeSlot, 0, h) /\ Len(h) = HeaderSize /\ Len(c) = CodeSize
         /\ \A o \in Outcomes(pg, b, CodeSlot, 0, h) : IsWrite(o.pages, CodeSlot, HeaderSize, c) /\ o.budget \in Nat
<1>1. h \in Seq(Bytes) /\ Len(h) = HeaderSize
  BY BufferIs, Sizes
<1>2. c \in Seq(Bytes) /\ Len(c) = CodeSize
  BY BufferIs, Sizes
<1>3. IsWrite(pg, CodeSlot, 0, h)
  BY <1>1, Sizes DEF IsWrite
<1>4. ASSUME NEW o \in Outcomes(pg, b, CodeSlot, 0, h) PROVE IsWrite(o.pages, CodeSlot, HeaderSize, c) /\ o.budget \in Nat
  <2>1. PICK z : z = 0
    OBVIOUS
  <2>2. IsWrite(pg, CodeSlot, z, h) /\ o \in Outcomes(pg, b, CodeSlot, z, h)
    BY <1>3, <2>1
  <2>3. IsPages(o.pages) /\ o.budget \in Nat
    BY <2>2, WriteEnds
  <2> QED
    BY <1>2, <2>3, Sizes DEF IsWrite
<1> QED
  BY <1>1, <1>2, <1>3, <1>4

\* The deployment: header and code are written (storage.rs write_code).
LEMMA CodeStep ==
  ASSUME StorageInv, WriteCode
  PROVE  StorageInv'
<1>1. Sound(frames, budget, discarded) /\ Control(writes, trapped, phase)
  BY InvIs
<1>2. PICK fs, b, m, pg, h, c, z :
        /\ fs = frames /\ b = budget /\ m = Len(frames) /\ pg = fs[m].pages
        /\ h = Buffer(1, HeaderSize) /\ c = Buffer(2, CodeSize) /\ z = 0
  OBVIOUS
<1>3. Sound(fs, b, discarded) /\ b \in Nat /\ IsPages(pg)
  <2>1. IsFrames(fs) /\ b \in Nat
    BY <1>1, <1>2 DEF Sound
  <2>2. m \in 1 .. Len(fs)
    BY <1>2, <2>1 DEF IsFrames
  <2> QED
    BY <1>1, <1>2, <2>1, <2>2, FrameAt
<1>4. PICK o \in Outcomes(pg, b, CodeSlot, z, h) :
        IF o.error = "no"
        THEN \E q \in Outcomes(o.pages, o.budget, CodeSlot, HeaderSize, c) :
               frames' = WithPages(fs, m, q.pages) /\ budget' = q.budget /\ trapped' = q.error
        ELSE frames' = WithPages(fs, m, o.pages) /\ budget' = o.budget /\ trapped' = o.error
  BY <1>2, Zenon DEF WriteCode, SetPages, WithPages, pages
<1>5. IsWrite(pg, CodeSlot, z, h) /\ IsWrite(o.pages, CodeSlot, HeaderSize, c) /\ o.budget \in Nat
  BY <1>2, <1>3, <1>4, CodeWritten
<1>6. /\ IsPages(o.pages) /\ DOMAIN pg \subseteq DOMAIN o.pages
      /\ o.budget \in Nat /\ o.budget + Cardinality(DOMAIN o.pages) = b + Cardinality(DOMAIN pg)
      /\ o.error \in {"no", "vm", "internal"}
  BY <1>3, <1>4, <1>5, WriteEnds
<1>7. PICK q, left, e :
        /\ IsPages(q) /\ DOMAIN pg \subseteq DOMAIN q /\ left \in Nat
        /\ left + Cardinality(DOMAIN q) = b + Cardinality(DOMAIN pg) /\ e \in {"no", "vm", "internal"}
        /\ frames' = WithPages(fs, m, q) /\ budget' = left /\ trapped' = e
  <2>1. CASE o.error = "no"
    <3>1. PICK q \in Outcomes(o.pages, o.budget, CodeSlot, HeaderSize, c) :
            frames' = WithPages(fs, m, q.pages) /\ budget' = q.budget /\ trapped' = q.error
      BY <1>4, <2>1
    <3>2. PICK p, r : p = o.pages /\ r = o.budget
      OBVIOUS
    <3>3. IsWrite(p, CodeSlot, HeaderSize, c) /\ r \in Nat /\ q \in Outcomes(p, r, CodeSlot, HeaderSize, c)
      BY <1>5, <3>1, <3>2
    <3>4. /\ IsPages(q.pages) /\ DOMAIN p \subseteq DOMAIN q.pages
          /\ q.budget \in Nat /\ q.budget + Cardinality(DOMAIN q.pages) = r + Cardinality(DOMAIN p)
          /\ q.error \in {"no", "vm", "internal"}
      BY <3>3, WriteEnds
    <3>5. DOMAIN pg \subseteq DOMAIN q.pages /\ q.budget + Cardinality(DOMAIN q.pages) = b + Cardinality(DOMAIN pg)
      BY <1>6, <3>2, <3>4
    <3> QED
      BY <3>1, <3>4, <3>5
  <2>2. CASE o.error # "no"
    BY <1>4, <1>6, <2>2
  <2> QED
    BY <2>1, <2>2
<1>8. Sound(frames', budget', discarded)
  <2>1. PICK g : g = WithPages(fs, m, q)
    OBVIOUS
  <2>2. Sound(g, left, discarded)
    BY <1>2, <1>3, <1>7, <2>1, PagesPut
  <2> QED
    BY <1>7, <2>1, <2>2
<1>9. Control(writes', trapped', phase') /\ discarded' = discarded
  <2>1. phase' \in {"loading", "failed"} /\ writes' = writes /\ discarded' = discarded
    BY DEF WriteCode
  <2> QED
    BY <1>1, <1>7, <2>1 DEF Control
<1> QED
  BY <1>8, <1>9, InvNextIs

\* The invariant holds before the execution.
LEMMA InvInit == Init => StorageInv
<1> SUFFICES ASSUME Init PROVE StorageInv
  OBVIOUS
<1>1. PICK w \in BOOLEAN : frames = << [pages |-> <<>>, events |-> 0, canWrite |-> w] >>
  BY DEF Init
<1>2. PICK x, pg : x = [pages |-> pg, events |-> 0, canWrite |-> w] /\ pg = <<>> /\ frames = <<x>>
  BY <1>1
<1>3. IsPages(pg) /\ DOMAIN pg = {}
  BY <1>2 DEF IsPages
<1>4. x \in Frame /\ x.pages = pg /\ x.events = 0
  BY <1>2, <1>3, MakeFrame
<1>5. frames \in Seq(Frame) /\ Len(frames) = 1 /\ frames[1] = x
  BY <1>2, <1>4
<1>6. IsFrames(frames) /\ IsNested(frames)
  BY <1>5, Sizes DEF IsFrames, IsNested
<1>7. EventsOf(frames) = 0
  <2> DEFINE ev == [f \in 1 .. Len(frames) |-> frames[f].events]
  <2>1. IsFiniteSet(1 .. Len(frames))
    BY <1>5, FS_Interval
  <2>2. \A f \in 1 .. Len(frames) : ev[f] = 0
    BY <1>4, <1>5
  <2>3. EventsOf(frames) = SumOver(ev, 1 .. Len(frames))
    BY EventsAreSum
  <2>4. PICK v, S : v = ev /\ S = 1 .. Len(frames)
    OBVIOUS
  <2>5. SumOver(v, S) = 0
    BY <2>1, <2>2, <2>4, SumZero
  <2> QED
    BY <2>3, <2>4, <2>5
<1>8. Cardinality(DOMAIN frames[Len(frames)].pages) = 0
  BY <1>3, <1>4, <1>5, FS_EmptySet
<1>9. budget = PageLimit /\ discarded = 0 /\ Control(writes, trapped, phase)
  BY Sizes DEF Init, Control
<1>10. Paid(frames, budget, discarded)
  BY <1>7, <1>8, <1>9, Sizes DEF Paid
<1>11. Sound(frames, budget, discarded)
  BY <1>6, <1>9, <1>10, Sizes DEF Sound
<1> QED
  BY <1>9, <1>11, InvIs

\* Every step keeps the invariant.
LEMMA InvStep == StorageInv /\ [Next]_vars => StorageInv'
<1> SUFFICES ASSUME StorageInv, [Next]_vars PROVE StorageInv'
  OBVIOUS
<1>0. Sound(frames, budget, discarded) /\ Control(writes, trapped, phase)
  BY InvIs
<1>1. CASE StartWithoutCode
  BY <1>0, <1>1, InvNextIs DEF StartWithoutCode, Control
<1>2. CASE WriteCode
  BY <1>2, CodeStep
<1>3. CASE Load
  BY <1>0, <1>3, InvNextIs DEF Load, Control
<1>4. ASSUME NEW slot \in Slots, NEW idx \in Indexes, NEW n \in 1 .. MaxIndex - idx, StorageWrite(slot, idx, n)
      PROVE  StorageInv'
  BY <1>4, WriteStep
<1>5. ASSUME NEW size \in 1 .. 2, EmitEvent(size) PROVE StorageInv'
  BY <1>5, EmitStep
<1>6. ASSUME NEW allow \in BOOLEAN, Sandbox(allow) PROVE StorageInv'
  BY <1>6, SandboxStep
<1>7. CASE SandboxReturns
  BY <1>7, ReturnStep
<1>8. CASE Finish
  BY <1>0, <1>8, InvNextIs DEF Finish, Control
<1>9. CASE UNCHANGED vars
  BY <1>0, <1>9, InvNextIs DEF vars
<1> QED
  BY <1>1, <1>2, <1>3, <1>4, <1>5, <1>6, <1>7, <1>8, <1>9 DEF Next

\* Along every execution every VM's overrides are well formed, a sandbox has
\* every page of its caller, and the pages and events of all VMs, ended ones
\* too, are what storage_pages_limit has been charged with.
THEOREM StorageInductive == Spec => []StorageInv
<1>1. Init => StorageInv
  BY InvInit
<1>2. StorageInv /\ [Next]_vars => StorageInv'
  BY InvStep
<1> QED
  BY <1>1, <1>2, PTL DEF Spec

\* The limiter is charged once for each page a VM overrides and for each word
\* of an event, in failed writes and discarded sandboxes too, never below zero
\* (storage.rs write_page, limiter consume).
THEOREM PagesPaidOnce == Spec => []PaidExactlyOnce
<1>1. StorageInv => PaidExactlyOnce
  BY DEF StorageInv
<1> QED
  BY <1>1, StorageInductive, PTL

-----------------------------------------------------------------------------
\* Reads.

\* The greatest element of a bounded set is one of it.
LEMMA MaxIs ==
  ASSUME NEW N \in Nat, NEW T \in SUBSET (0 .. N), T # {}
  PROVE  Max(T) \in T
<1>1. \E n \in T : \A m \in T : m <= n
  BY GreatestOf
<1>2. \E n \in T : \A m \in T : n >= m
  BY <1>1
<1> QED
  BY <1>2, Zenon DEF Max

\* The least element of a set of naturals is one of it.
LEMMA MinIs ==
  ASSUME NEW T \in SUBSET Nat, T # {}
  PROVE  Min(T) \in T
<1>1. \E n \in T : \A m \in T : n <= m
  BY LeastOf
<1> QED
  BY <1>1, Zenon DEF Min

\* A byte of a page that is not overridden is in the range read from the host.
LEMMA HostRange ==
  ASSUME NEW pg, NEW slot, NEW idx \in Nat, NEW n \in Nat \ {0}, NEW i \in Nat, idx <= i, i < idx + n,
         <<slot, i \div PageSize>> \notin DOMAIN pg
  PROVE  ReadStart(pg, slot, idx, n) <= i /\ i < ReadEnd(pg, slot, idx, n)
<1>1. PICK F \in Nat, L \in Nat, p \in Nat :
        F = FirstPage(idx) /\ L = LastPage(idx, n) /\ p = i \div PageSize /\ F <= p /\ p <= L
  <2>1. idx + n - 1 \in Nat /\ i <= idx + n - 1
    OBVIOUS
  <2>2. idx \div PageSize <= i \div PageSize
    BY LaterPage
  <2>3. i \div PageSize <= (idx + n - 1) \div PageSize
    BY <2>1, LaterPage
  <2> QED
    BY <2>2, <2>3, Span, PageOf DEF FirstPage, LastPage
<1>2. PICK c \in Nat : c = p * PageSize /\ c <= i /\ i < c + PageSize
  BY <1>1, PageOf
<1>3. ReadStart(pg, slot, idx, n) <= i
  <2> DEFINE K == {r \in F .. L : \A q \in F .. r : <<slot, q>> \in DOMAIN pg}
  <2>1. ReadStart(pg, slot, idx, n) = IF K = {} THEN idx ELSE (Max(K) + 1) * PageSize
    BY <1>1, Zenon DEF ReadStart
  <2>2. CASE K # {}
    <3>1. K \in SUBSET (0 .. L)
      OBVIOUS
    <3>2. PICK k : k = Max(K) /\ k \in K
      <4> HIDE DEF K
      <4> QED
        BY <2>2, <3>1, MaxIs
    <3>3. k \in Nat /\ F <= k
      BY <3>2
    <3>4. k < p
      <4> SUFFICES ASSUME p <= k PROVE FALSE
        BY <3>3
      <4>1. p \in F .. k
        BY <1>1, <3>3
      <4> QED
        BY <1>1, <3>2, <4>1
    <3>5. k * PageSize + PageSize <= c
      BY <1>2, <3>3, <3>4, NextPage
    <3>6. (k + 1) * PageSize = k * PageSize + PageSize /\ (k + 1) * PageSize \in Nat
      BY <3>3, Sizes
    <3>7. (k + 1) * PageSize <= i
      BY <1>2, <3>5, <3>6, Sizes
    <3> QED
      BY <2>1, <2>2, <3>2, <3>7, Zenon
  <2> QED
    BY <2>1, <2>2
<1>4. i < ReadEnd(pg, slot, idx, n)
  <2> DEFINE K == {r \in F .. L : \A q \in r .. L : <<slot, q>> \in DOMAIN pg}
  <2>1. ReadEnd(pg, slot, idx, n) = IF K = {} THEN idx + n ELSE Min(K) * PageSize
    BY <1>1, Zenon DEF ReadEnd
  <2>2. CASE K # {}
    <3>1. K \in SUBSET Nat
      OBVIOUS
    <3>2. PICK k : k = Min(K) /\ k \in K
      <4> HIDE DEF K
      <4> QED
        BY <2>2, <3>1, MinIs
    <3>3. k \in Nat /\ k <= L
      BY <3>2
    <3>4. p < k
      <4> SUFFICES ASSUME k <= p PROVE FALSE
        BY <3>3
      <4>1. p \in k .. L
        BY <1>1, <3>3
      <4> QED
        BY <1>1, <3>2, <4>1
    <3>5. c + PageSize <= k * PageSize /\ k * PageSize \in Nat
      BY <1>2, <3>3, <3>4, NextPage, Sizes
    <3>6. i < k * PageSize
      BY <1>2, <3>5, Sizes
    <3> QED
      BY <2>1, <2>2, <3>2, <3>6, Zenon
  <2> QED
    BY <2>1, <2>2
<1> QED
  BY <1>3, <1>4

\* A read of any range returns the bytes the VM sees there.
LEMMA ReadIs ==
  ASSUME NEW pg, NEW slot \in Slots, NEW idx \in Nat, NEW n \in Nat \ {0}
  PROVE  Read(pg, slot, idx, n) = [j \in 1 .. n |-> View(pg, slot, idx + j - 1)]
<1> DEFINE from == ReadStart(pg, slot, idx, n)
           to == ReadEnd(pg, slot, idx, n)
           At(i) == LET id == <<slot, i \div PageSize>>
                    IN  IF id \in DOMAIN pg THEN pg[id][(i % PageSize) + 1]
                        ELSE IF from <= i /\ i < to THEN Host(slot, i) ELSE <<>>
<1>1. Read(pg, slot, idx, n) = [j \in 1 .. n |-> At(idx + j - 1)]
  BY Zenon DEF Read
<1>2. ASSUME NEW i \in Nat, idx <= i, i < idx + n PROVE At(i) = View(pg, slot, i)
  <2>1. PICK id : id = <<slot, i \div PageSize>>
    OBVIOUS
  <2>2. CASE id \in DOMAIN pg
    BY <2>1, <2>2, Zenon DEF View, Existing
  <2>3. CASE id \notin DOMAIN pg
    <3>1. from <= i /\ i < to
      BY <1>2, <2>1, <2>3, HostRange
    <3>2. At(i) = Host(slot, i)
      BY <2>1, <2>3, <3>1, Zenon
    <3>3. PICK p \in Nat, r \in 1 .. PageSize : p = i \div PageSize /\ r = (i % PageSize) + 1 /\ p * PageSize + r - 1 = i
      <4>1. (i % PageSize) + 1 \in 1 .. PageSize /\ i = (i \div PageSize) * PageSize + (i % PageSize) /\ i \div PageSize \in Nat
        BY PageOf, Sizes
      <4>2. PICK c \in Nat : c = (i \div PageSize) * PageSize
        BY PageOf
      <4>a. PICK r \in Nat : r = i % PageSize /\ i = c + r
        BY <4>1, <4>2, PageOf, Sizes
      <4>b. c + (r + 1) - 1 = i
        BY <4>a
      <4>3. c + ((i % PageSize) + 1) - 1 = i
        BY <4>a, <4>b
      <4> QED
        BY <4>1, <4>2, <4>3
    <3>4. View(pg, slot, i) = [k \in 1 .. PageSize |-> Host(slot, p * PageSize + k - 1)][r]
      BY <2>1, <2>3, <3>3 DEF View, Existing
    <3>5. View(pg, slot, i) = Host(slot, p * PageSize + r - 1)
      BY <3>4
    <3> QED
      BY <3>2, <3>3, <3>5
  <2> QED
    BY <2>2, <2>3
<1> HIDE DEF At
<1>3. \A j \in 1 .. n : At(idx + j - 1) = View(pg, slot, idx + j - 1)
  <2> TAKE j \in 1 .. n
  <2>1. idx + j - 1 \in Nat /\ idx <= idx + j - 1 /\ idx + j - 1 < idx + n
    OBVIOUS
  <2> QED
    BY <1>2, <2>1
<1> QED
  BY <1>1, <1>3, Zenon

\* Whatever pages are overridden, a read returns the bytes of the slot: the
\* range it asks the host for, between the known prefix and the known suffix,
\* covers every byte the overrides do not have (storage.rs read).
THEOREM ReadsAreExact == Spec => []ReadsReturnView
<1>1. ReadsReturnView
  <2> SUFFICES ASSUME NEW slot \in Slots, NEW idx \in Indexes, NEW n \in 1 .. MaxIndex - idx
               PROVE  Read(pages, slot, idx, n) = [j \in 1 .. n |-> View(pages, slot, idx + j - 1)]
    BY Zenon DEF ReadsReturnView
  <2>1. idx \in Nat /\ n \in Nat \ {0}
    BY Sizes DEF Indexes
  <2>2. PICK pg : pg = pages
    OBVIOUS
  <2>3. Read(pg, slot, idx, n) = [j \in 1 .. n |-> View(pg, slot, idx + j - 1)]
    BY <2>1, ReadIs
  <2> QED
    BY <2>2, <2>3, Zenon
<1> QED
  BY <1>1, PTL

-----------------------------------------------------------------------------
\* The bytes a VM sees, as FlatStorage has them.

Mem(fs) == [f \in 1 .. Len(fs) |-> MemoryOf(fs[f].pages)]

\* Places and pages of the abstract storage are those of the pages.
LEMMA Spread ==
  /\ Flat!Places = Slots \X Indexes
  /\ \A idx, n : Flat!PagesOf(idx, n) = FirstPage(idx) .. LastPage(idx, n)
  BY DEF Flat!Places, Flat!PagesOf, Indexes, FirstPage, LastPage

\* Pages that were written are, as an array of bytes, bytes written there.
LEMMA WrittenIs ==
  ASSUME NEW pg, NEW q, NEW slot \in Slots, NEW idx \in Nat, NEW n \in Nat, NEW k \in Nat,
         NEW buf, buf = Buffer(k, n), NEW Q, HasWritten(q, pg, slot, idx, buf, Q)
  PROVE  MemoryOf(q) = Flat!Written(MemoryOf(pg), k, slot, idx, n, Q)
<1> DEFINE W(p) == IF p[1] = slot /\ idx <= p[2] /\ p[2] < idx + n /\ (p[2] \div PageSize) \in Q
                   THEN <<k, 0, p[2] - idx + 1>> ELSE MemoryOf(pg)[p]
<1>1. Flat!Written(MemoryOf(pg), k, slot, idx, n, Q) = [p \in Slots \X Indexes |-> W(p)]
  BY Spread DEF Flat!Written, Flat!Byte
<1>2. ASSUME NEW p \in Slots \X Indexes PROVE View(q, p[1], p[2]) = W(p)
  <2>1. PICK s \in Slots, i \in Indexes : s = p[1] /\ i = p[2]
    OBVIOUS
  <2>2. MemoryOf(pg)[p] = View(pg, s, i)
    BY <2>1 DEF MemoryOf
  <2>3. View(q, s, i) = IF s = slot /\ i \div PageSize \in Q THEN ByteAt(buf, idx, i, View(pg, s, i)) ELSE View(pg, s, i)
    BY DEF HasWritten
  <2>4. Len(buf) = n /\ \A j \in 1 .. n : buf[j] = <<k, 0, j>>
    <3>1. Len(buf) = n
      BY BufferIs
    <3>2. \A j \in 1 .. n : buf[j] = <<k, 0, j>>
      BY DEF Buffer
    <3> QED
      BY <3>1, <3>2
  <2>5. ByteAt(buf, idx, i, View(pg, s, i)) = IF idx <= i /\ i < idx + n THEN <<k, 0, i - idx + 1>> ELSE View(pg, s, i)
    <3>1. CASE idx <= i /\ i < idx + n
      <4>1. i - idx + 1 \in 1 .. n
        BY <3>1, Sizes
      <4>2. ByteAt(buf, idx, i, View(pg, s, i)) = buf[i - idx + 1]
        BY <2>4, <3>1, Zenon DEF ByteAt
      <4> QED
        BY <2>4, <3>1, <4>1, <4>2
    <3>2. CASE ~ (idx <= i /\ i < idx + n)
      BY <2>4, <3>2, Zenon DEF ByteAt
    <3> QED
      BY <3>1, <3>2
  <2> QED
    BY <2>1, <2>2, <2>3, <2>5, Zenon
<1> HIDE DEF W
<1> QED
  BY <1>1, <1>2, Zenon DEF MemoryOf

\* The arrays of bytes of a stack of VMs.
LEMMA MemIs ==
  ASSUME NEW fs, IsFrames(fs), NEW n, n = Len(fs)
  PROVE  Len(Mem(fs)) = n /\ \A f \in 1 .. n : Mem(fs)[f] = MemoryOf(fs[f].pages)
  BY DEF Mem, IsFrames

\* The memory when the innermost VM's pages change.
LEMMA MemPut ==
  ASSUME NEW fs, IsFrames(fs), NEW g, IsFrames(g), NEW n, n = Len(fs), Len(g) = n, NEW q, g[n].pages = q,
         \A f \in 1 .. n : f # n => g[f] = fs[f]
  PROVE  Mem(g) = [Mem(fs) EXCEPT ![n] = MemoryOf(q)]
<1>1. n \in Nat /\ n \in 1 .. n
  BY DEF IsFrames
<1>2. \A f \in 1 .. n : MemoryOf(g[f].pages) = IF f = n THEN MemoryOf(q) ELSE MemoryOf(fs[f].pages)
  BY <1>1, Zenon
<1> QED
  BY <1>1, <1>2 DEF Mem

\* The same pages are the same bytes.
LEMMA MemSame ==
  ASSUME NEW fs, NEW g, NEW n, n = Len(fs), Len(g) = n, \A f \in 1 .. n : g[f].pages = fs[f].pages
  PROVE  Mem(g) = Mem(fs)
  BY DEF Mem

\* A sandbox starts with its caller's bytes.
LEMMA MemPushed ==
  ASSUME NEW fs, IsFrames(fs), NEW g, IsFrames(g), NEW n, n = Len(fs), Len(g) = n + 1, g[n + 1].pages = fs[n].pages,
         \A f \in 1 .. n : g[f] = fs[f]
  PROVE  Mem(g) = Append(Mem(fs), Mem(fs)[n])
<1>1. n \in Nat /\ n \in 1 .. n /\ Mem(fs)[n] = MemoryOf(fs[n].pages)
  BY MemIs DEF IsFrames
<1>2. PICK a, h : a = Mem(fs) /\ h = Mem(g)
  OBVIOUS
<1>3. /\ a = [f \in 1 .. n |-> MemoryOf(fs[f].pages)]
      /\ h = [f \in 1 .. n + 1 |-> MemoryOf(g[f].pages)]
  BY <1>2 DEF Mem
<1>4. PICK V : V = {MemoryOf(fs[f].pages) : f \in 1 .. n}
  OBVIOUS
<1>5. a \in Seq(V) /\ Len(a) = n /\ a[n] \in V
  BY <1>1, <1>3, <1>4
<1>6. Append(a, a[n]) = [f \in 1 .. n + 1 |-> IF f <= n THEN a[f] ELSE a[n]]
  BY <1>1, <1>5
<1>7. \A f \in 1 .. n + 1 : MemoryOf(g[f].pages) = IF f <= n THEN a[f] ELSE a[n]
  <2> SUFFICES ASSUME NEW f \in 1 .. n + 1 PROVE MemoryOf(g[f].pages) = IF f <= n THEN a[f] ELSE a[n]
    OBVIOUS
  <2>1. CASE f <= n
    <3>1. f \in 1 .. n
      BY <1>1, <2>1
    <3>2. g[f] = fs[f] /\ a[f] = MemoryOf(fs[f].pages)
      BY <1>3, <3>1
    <3> QED
      BY <2>1, <3>2
  <2>2. CASE ~ (f <= n)
    <3>1. f = n + 1
      BY <1>1, <2>2
    <3> QED
      BY <1>1, <1>2, <2>2, <3>1
  <2> QED
    BY <2>1, <2>2
<1>8. h = Append(a, a[n])
  BY <1>3, <1>6, <1>7
<1> QED
  BY <1>2, <1>8

\* When a sandbox returns its caller's bytes are as they were.
LEMMA MemPopped ==
  ASSUME NEW fs, IsFrames(fs), NEW g, IsFrames(g), NEW n \in Nat, n + 1 = Len(fs), Len(g) = n,
         \A f \in 1 .. n : g[f] = fs[f]
  PROVE  Mem(g) = SubSeq(Mem(fs), 1, n)
<1>2. PICK a, h : a = Mem(fs) /\ h = Mem(g)
  OBVIOUS
<1>3. /\ a = [f \in 1 .. n + 1 |-> MemoryOf(fs[f].pages)]
      /\ h = [f \in 1 .. n |-> MemoryOf(g[f].pages)]
  BY <1>2 DEF Mem
<1>4. PICK V : V = {MemoryOf(fs[f].pages) : f \in 1 .. n + 1}
  OBVIOUS
<1>5. a \in Seq(V) /\ Len(a) = n + 1
  BY <1>3, <1>4
<1>6. SubSeq(a, 1, n) = [f \in 1 .. n |-> a[f]]
  BY <1>5
<1>7. \A f \in 1 .. n : MemoryOf(g[f].pages) = a[f]
  BY <1>3
<1>8. h = SubSeq(a, 1, n)
  BY <1>3, <1>6, <1>7
<1> QED
  BY <1>2, <1>8

-----------------------------------------------------------------------------
\* Each action is one of FlatStorage, or nothing to it.

\* Names for the running VM's state.
LEMMA TopIs ==
  ASSUME Sound(frames, budget, discarded)
  PROVE  \E fs, b, m, pg : /\ fs = frames /\ b = budget /\ m = Len(frames) /\ pg = fs[m].pages
                           /\ Sound(fs, b, discarded) /\ IsFrames(fs) /\ b \in Nat /\ IsPages(pg) /\ m \in Nat /\ m \in 1 .. m
                           /\ Len(Mem(fs)) = m /\ Mem(fs)[m] = MemoryOf(pg)
<1>1. PICK fs, b, m, pg : fs = frames /\ b = budget /\ m = Len(frames) /\ pg = fs[m].pages
  OBVIOUS
<1>2. Sound(fs, b, discarded) /\ IsFrames(fs) /\ b \in Nat
  BY <1>1 DEF Sound
<1>3. m \in Nat /\ m \in 1 .. m /\ m \in 1 .. Len(fs)
  BY <1>1, <1>2 DEF IsFrames
<1>4. IsPages(pg)
  BY <1>1, <1>2, <1>3, FrameAt
<1>5. Len(Mem(fs)) = m /\ Mem(fs)[m] = MemoryOf(pg)
  BY <1>1, <1>2, <1>3, MemIs
<1> QED
  BY <1>1, <1>2, <1>3, <1>4, <1>5

\* What becomes of the memory when the pages of the innermost VM are replaced.
LEMMA MemAfter ==
  ASSUME NEW fs, NEW b, NEW gone, Sound(fs, b, gone), NEW m, m = Len(fs), NEW q, IsPages(q),
         DOMAIN fs[m].pages \subseteq DOMAIN q, NEW c \in Nat,
         c + Cardinality(DOMAIN q) = b + Cardinality(DOMAIN fs[m].pages),
         NEW g, g = WithPages(fs, m, q)
  PROVE  Mem(g) = [Mem(fs) EXCEPT ![m] = MemoryOf(q)]
<1>1. IsFrames(fs)
  BY DEF Sound
<1>2. Sound(g, c, gone) /\ Len(g) = m /\ g[m].pages = q
  BY PagesPut
<1>3. \A f \in 1 .. m : f # m => g[f] = fs[f]
  BY PagesPut
<1>4. IsFrames(g)
  BY <1>2 DEF Sound
<1> QED
  BY <1>1, <1>2, <1>3, <1>4, MemPut

\* A write by pages is a write of the array, complete or trapped part way.
LEMMA FlatWrite ==
  ASSUME StorageInv, NEW slot \in Slots, NEW idx \in Indexes, NEW n \in 1 .. MaxIndex - idx, StorageWrite(slot, idx, n)
  PROVE  Flat!Write(slot, idx, n)
<1>1. Sound(frames, budget, discarded) /\ Control(writes, trapped, phase)
  BY InvIs
<1>2. PICK fs, b, m, pg : /\ fs = frames /\ b = budget /\ m = Len(frames) /\ pg = fs[m].pages
                          /\ Sound(fs, b, discarded) /\ IsFrames(fs) /\ b \in Nat /\ IsPages(pg) /\ m \in Nat /\ m \in 1 .. m
                          /\ Len(Mem(fs)) = m /\ Mem(fs)[m] = MemoryOf(pg)
  BY <1>1, TopIs
<1>3. PICK k, buf : k \in Nat /\ k = writes + 3 /\ buf = Buffer(k, n)
  BY <1>1, Sizes DEF Control
<1>4. PICK o \in Outcomes(pg, b, slot, idx, buf) :
        frames' = WithPages(fs, m, o.pages) /\ budget' = o.budget /\ trapped' = o.error
  BY <1>2, <1>3 DEF StorageWrite, SetPages, WithPages, pages
<1>5. n \in Nat /\ n > 0 /\ idx \in Nat /\ idx + n <= MaxIndex
  BY Sizes DEF Indexes
<1>6. IsWrite(pg, slot, idx, buf) /\ Len(buf) = n
  <2>1. buf \in Seq(Bytes) /\ Len(buf) = n
    BY <1>3, <1>5, BufferIs
  <2> QED
    BY <1>2, <1>5, <2>1 DEF IsWrite
<1>7. /\ IsPages(o.pages) /\ DOMAIN pg \subseteq DOMAIN o.pages
      /\ o.budget \in Nat /\ o.budget + Cardinality(DOMAIN o.pages) = b + Cardinality(DOMAIN pg)
  BY <1>2, <1>4, <1>6, WriteEnds
<1>8. PICK Q \in SUBSET (FirstPage(idx) .. LastPage(idx, n)) :
        /\ o.error = "no" <=> Q = FirstPage(idx) .. LastPage(idx, n)
        /\ HasWritten(o.pages, pg, slot, idx, buf, Q)
  BY <1>2, <1>4, <1>6, WriteEnds
<1>9. PICK q, c, g : q = o.pages /\ c = o.budget /\ g = WithPages(fs, m, q)
  OBVIOUS
<1>10. Mem(g) = [Mem(fs) EXCEPT ![m] = MemoryOf(q)]
  <2>1. /\ IsPages(q) /\ DOMAIN fs[m].pages \subseteq DOMAIN q /\ c \in Nat
        /\ c + Cardinality(DOMAIN q) = b + Cardinality(DOMAIN fs[m].pages)
    BY <1>2, <1>7, <1>9
  <2> QED
    BY <1>2, <1>9, <2>1, MemAfter
<1>11. MemoryOf(q) = Flat!Written(MemoryOf(pg), k, slot, idx, n, Q)
  BY <1>3, <1>5, <1>8, <1>9, WrittenIs
<1>12. PICK a, h : a = Mem(frames) /\ h = Mem(frames')
  OBVIOUS
<1>13. h = [a EXCEPT ![Len(a)] = Flat!Written(a[Len(a)], writes + 3, slot, idx, n, Q)]
  <2>1. a = Mem(fs) /\ h = Mem(g) /\ writes + 3 = k
    BY <1>2, <1>3, <1>4, <1>9, <1>12
  <2>2. Len(a) = m /\ a[m] = MemoryOf(pg)
    BY <1>2, <2>1
  <2>3. h = [a EXCEPT ![m] = Flat!Written(a[m], k, slot, idx, n, Q)]
    BY <1>10, <1>11, <2>1, <2>2, Zenon
  <2> QED
    BY <2>1, <2>2, <2>3, Zenon
<1>14. writes' = writes + 1 /\ request' = <<slot, idx, n>> /\ trapped = "no" /\ trapped' = o.error
  BY <1>4 DEF StorageWrite, Running
<1>15. Q \in SUBSET Flat!PagesOf(idx, n) /\ (trapped' = "no" <=> Q = Flat!PagesOf(idx, n))
  BY <1>8, <1>14, Spread
<1>16. CASE trapped' = "no"
  BY <1>12, <1>13, <1>14, <1>15, <1>16 DEF Flat!Write, Flat!Replace, Flat!Top, Mem
<1>17. CASE trapped' # "no"
  BY <1>12, <1>13, <1>14, <1>15, <1>17 DEF Flat!Write, Flat!Replace, Flat!Top, Mem
<1> QED
  BY <1>16, <1>17

\* Writing header and code is the deployment of the array.
LEMMA FlatDeploy ==
  ASSUME StorageInv, WriteCode
  PROVE  Flat!Deploy
<1>1. Sound(frames, budget, discarded) /\ Control(writes, trapped, phase)
  BY InvIs
<1>2. PICK fs, b, m, pg : /\ fs = frames /\ b = budget /\ m = Len(frames) /\ pg = fs[m].pages
                          /\ Sound(fs, b, discarded) /\ IsFrames(fs) /\ b \in Nat /\ IsPages(pg) /\ m \in Nat /\ m \in 1 .. m
                          /\ Len(Mem(fs)) = m /\ Mem(fs)[m] = MemoryOf(pg)
  BY <1>1, TopIs
<1>3. PICK hd, cd, z, one, two :
        /\ z \in Nat /\ one \in Nat /\ two \in Nat /\ z = 0 /\ one = 1 /\ two = 2 /\ hd = Buffer(one, HeaderSize) /\ cd = Buffer(two, CodeSize)
  OBVIOUS
<1>4. PICK o \in Outcomes(pg, b, CodeSlot, z, hd) :
        IF o.error = "no"
        THEN \E q \in Outcomes(o.pages, o.budget, CodeSlot, HeaderSize, cd) :
               frames' = WithPages(fs, m, q.pages) /\ budget' = q.budget /\ trapped' = q.error
        ELSE frames' = WithPages(fs, m, o.pages) /\ budget' = o.budget /\ trapped' = o.error
  BY <1>2, <1>3, Zenon DEF WriteCode, SetPages, WithPages, pages
<1>5. /\ IsWrite(pg, CodeSlot, z, hd) /\ IsWrite(o.pages, CodeSlot, HeaderSize, cd) /\ o.budget \in Nat
      /\ Len(hd) = HeaderSize /\ Len(cd) = CodeSize
  <2>1. hd = Buffer(1, HeaderSize) /\ cd = Buffer(2, CodeSize) /\ o \in Outcomes(pg, b, CodeSlot, 0, hd)
    BY <1>3, <1>4
  <2>2. IsWrite(pg, CodeSlot, 0, hd) /\ IsWrite(o.pages, CodeSlot, HeaderSize, cd) /\ o.budget \in Nat
    BY <1>2, <2>1, CodeWritten
  <2>3. Len(hd) = HeaderSize /\ Len(cd) = CodeSize
    BY <1>2, <2>1, CodeWritten
  <2> QED
    BY <1>3, <2>2, <2>3
<1>6. /\ IsPages(o.pages) /\ DOMAIN pg \subseteq DOMAIN o.pages
      /\ o.budget \in Nat /\ o.budget + Cardinality(DOMAIN o.pages) = b + Cardinality(DOMAIN pg)
      /\ o.error \in {"no", "vm", "internal"}
  BY <1>2, <1>4, <1>5, WriteEnds
<1>7. PICK Q \in SUBSET Flat!PagesOf(z, HeaderSize) :
        /\ o.error = "no" <=> Q = Flat!PagesOf(z, HeaderSize)
        /\ HasWritten(o.pages, pg, CodeSlot, z, hd, Q)
  <2>1. PICK Q \in SUBSET (FirstPage(z) .. LastPage(z, Len(hd))) :
          /\ o.error = "no" <=> Q = FirstPage(z) .. LastPage(z, Len(hd))
          /\ HasWritten(o.pages, pg, CodeSlot, z, hd, Q)
    BY <1>2, <1>4, <1>5, WriteEnds
  <2>2. FirstPage(z) .. LastPage(z, Len(hd)) = Flat!PagesOf(z, HeaderSize)
    BY <1>5, Spread
  <2> QED
    BY <2>1, <2>2
<1>8. MemoryOf(o.pages) = Flat!Written(MemoryOf(pg), one, CodeSlot, z, HeaderSize, Q)
  <2>1. PICK p : p = o.pages /\ HasWritten(p, pg, CodeSlot, z, hd, Q)
    BY <1>7
  <2>2. MemoryOf(p) = Flat!Written(MemoryOf(pg), one, CodeSlot, z, HeaderSize, Q)
    BY <1>3, <2>1, WrittenIs, Sizes
  <2> QED
    BY <2>1, <2>2
<1>9. PICK q, c, R :
        /\ R \in SUBSET Flat!PagesOf(HeaderSize, CodeSize)
        /\ IsPages(q) /\ DOMAIN pg \subseteq DOMAIN q /\ c \in Nat
        /\ c + Cardinality(DOMAIN q) = b + Cardinality(DOMAIN pg)
        /\ frames' = WithPages(fs, m, q)
        /\ trapped' = "no" <=> (Q = Flat!PagesOf(z, HeaderSize) /\ R = Flat!PagesOf(HeaderSize, CodeSize))
        /\ MemoryOf(q) = Flat!Written(MemoryOf(o.pages), two, CodeSlot, HeaderSize, CodeSize, R)
  <2>1. CASE o.error = "no"
    <3>1. PICK q \in Outcomes(o.pages, o.budget, CodeSlot, HeaderSize, cd) :
            frames' = WithPages(fs, m, q.pages) /\ budget' = q.budget /\ trapped' = q.error
      BY <1>4, <2>1
    <3>2. PICK p, r : p = o.pages /\ r = o.budget
      OBVIOUS
    <3>3. IsWrite(p, CodeSlot, HeaderSize, cd) /\ r \in Nat /\ q \in Outcomes(p, r, CodeSlot, HeaderSize, cd)
      BY <1>5, <3>1, <3>2
    <3>4. /\ IsPages(q.pages) /\ DOMAIN p \subseteq DOMAIN q.pages
          /\ q.budget \in Nat /\ q.budget + Cardinality(DOMAIN q.pages) = r + Cardinality(DOMAIN p)
      BY <3>3, WriteEnds
    <3>5. DOMAIN pg \subseteq DOMAIN q.pages /\ q.budget + Cardinality(DOMAIN q.pages) = b + Cardinality(DOMAIN pg)
      BY <1>6, <3>2, <3>4
    <3>6. PICK R \in SUBSET (FirstPage(HeaderSize) .. LastPage(HeaderSize, Len(cd))) :
            /\ q.error = "no" <=> R = FirstPage(HeaderSize) .. LastPage(HeaderSize, Len(cd))
            /\ HasWritten(q.pages, p, CodeSlot, HeaderSize, cd, R)
      BY <3>3, WriteEnds
    <3>7. FirstPage(HeaderSize) .. LastPage(HeaderSize, Len(cd)) = Flat!PagesOf(HeaderSize, CodeSize)
      BY <1>5, Spread
    <3>8. MemoryOf(q.pages) = Flat!Written(MemoryOf(p), two, CodeSlot, HeaderSize, CodeSize, R)
      <4>1. PICK s : s = q.pages /\ HasWritten(s, p, CodeSlot, HeaderSize, cd, R)
        BY <3>6
      <4>2. MemoryOf(s) = Flat!Written(MemoryOf(p), two, CodeSlot, HeaderSize, CodeSize, R)
        BY <1>3, <4>1, WrittenIs, Sizes
      <4> QED
        BY <4>1, <4>2
    <3>9. trapped' = "no" <=> (Q = Flat!PagesOf(z, HeaderSize) /\ R = Flat!PagesOf(HeaderSize, CodeSize))
      BY <1>7, <2>1, <3>1, <3>6, <3>7
    <3> QED
      BY <3>1, <3>2, <3>4, <3>5, <3>6, <3>7, <3>8, <3>9
  <2>2. CASE o.error # "no"
    <3>1. frames' = WithPages(fs, m, o.pages) /\ trapped' = o.error
      BY <1>4, <2>2
    <3>2. PICK a : a = MemoryOf(o.pages) /\ a = [p \in Slots \X Indexes |-> a[p]]
      BY DEF MemoryOf
    <3>3. Flat!Written(a, two, CodeSlot, HeaderSize, CodeSize, {}) = a
      BY <3>2, Spread DEF Flat!Written
    <3>4. trapped' # "no" /\ Q # Flat!PagesOf(z, HeaderSize) /\ {} \in SUBSET Flat!PagesOf(HeaderSize, CodeSize)
      BY <1>7, <2>2, <3>1
    <3> QED
      BY <1>6, <3>1, <3>2, <3>3, <3>4
  <2> QED
    BY <2>1, <2>2
<1>10. PICK g : g = WithPages(fs, m, q)
  OBVIOUS
<1>11. Mem(g) = [Mem(fs) EXCEPT ![m] = MemoryOf(q)]
  BY <1>2, <1>9, <1>10, MemAfter
<1>12. PICK a, h : a = Mem(frames) /\ h = Mem(frames')
  OBVIOUS
<1>13. h = [a EXCEPT ![Len(a)] = Flat!Written(Flat!Written(a[Len(a)], 1, CodeSlot, 0, HeaderSize, Q),
                                              2, CodeSlot, HeaderSize, CodeSize, R)]
  <2>1. a = Mem(fs) /\ h = Mem(g)
    BY <1>2, <1>9, <1>10, <1>12
  <2>2. Len(a) = m /\ a[m] = MemoryOf(pg)
    BY <1>2, <2>1
  <2>3. MemoryOf(q) = Flat!Written(Flat!Written(a[m], one, CodeSlot, z, HeaderSize, Q), two, CodeSlot, HeaderSize, CodeSize, R)
    BY <1>8, <1>9, <2>2, Zenon
  <2>4. h = [a EXCEPT ![m] = Flat!Written(Flat!Written(a[m], one, CodeSlot, z, HeaderSize, Q), two, CodeSlot, HeaderSize, CodeSize, R)]
    BY <1>11, <2>1, <2>3, Zenon
  <2> QED
    BY <1>3, <2>2, <2>4, Zenon
<1>14. writes = 0 /\ UNCHANGED <<writes, request>>
  BY <1>1 DEF WriteCode, Control
<1>15. Q \in SUBSET Flat!PagesOf(0, HeaderSize) /\ R \in SUBSET Flat!PagesOf(HeaderSize, CodeSize)
  BY <1>3, <1>9
<1>16. (trapped' # "no") = (Q # Flat!PagesOf(0, HeaderSize) \/ R # Flat!PagesOf(HeaderSize, CodeSize))
  BY <1>3, <1>9
<1> QED
  <2>1. Flat!Replace(Flat!Written(Flat!Written(Flat!Top, 1, CodeSlot, 0, HeaderSize, Q), 2, CodeSlot, HeaderSize, CodeSize, R))
    BY <1>12, <1>13, Zenon DEF Flat!Replace, Flat!Top, Mem
  <2> QED
    BY <1>14, <1>15, <1>16, <2>1 DEF Flat!Deploy

\* An event does not touch the array, but may trap.
LEMMA FlatEmit ==
  ASSUME StorageInv, NEW size \in 1 .. 2, EmitEvent(size)
  PROVE  Flat!Trap \/ UNCHANGED Flat!vars
<1>1. Sound(frames, budget, discarded) /\ Control(writes, trapped, phase)
  BY InvIs
<1>2. trapped = "no" /\ UNCHANGED <<writes, request>>
  BY DEF EmitEvent, Running
<1>3. CASE size <= budget
  <2>1. budget' = budget - size /\ frames' = WithEvent(frames, Len(frames), size) /\ trapped' = trapped
    BY <1>3 DEF EmitEvent, WithEvent
  <2>2. PICK fs, b, m, g : fs = frames /\ b = budget /\ m = Len(fs) /\ g = WithEvent(fs, m, size)
    OBVIOUS
  <2>3. Len(g) = m
    BY <1>1, <1>3, <2>2, EventPut
  <2>4. \A f \in 1 .. m : g[f].pages = fs[f].pages
    BY <1>1, <1>3, <2>2, EventPut
  <2>5. Mem(g) = Mem(fs)
    BY <2>2, <2>3, <2>4, MemSame
  <2>6. Mem(frames') = Mem(frames)
    BY <2>1, <2>2, <2>5
  <2> QED
    BY <1>2, <2>1, <2>6 DEF Flat!vars, Mem
<1>4. CASE ~ (size <= budget)
  <2>1. trapped' = "vm" /\ UNCHANGED <<budget, frames>>
    BY <1>4 DEF EmitEvent
  <2> QED
    BY <1>2, <2>1 DEF Flat!Trap
<1> QED
  BY <1>3, <1>4

\* The start of a sandbox is that of the array.
LEMMA FlatSandbox ==
  ASSUME StorageInv, NEW allow \in BOOLEAN, Sandbox(allow)
  PROVE  Flat!SandboxEnter
<1>1. Sound(frames, budget, discarded) /\ Control(writes, trapped, phase)
  BY InvIs
<1>2. PICK fs, b, m, pg : /\ fs = frames /\ b = budget /\ m = Len(frames) /\ pg = fs[m].pages
                          /\ Sound(fs, b, discarded) /\ IsFrames(fs) /\ b \in Nat /\ IsPages(pg) /\ m \in Nat /\ m \in 1 .. m
                          /\ Len(Mem(fs)) = m /\ Mem(fs)[m] = MemoryOf(pg)
  BY <1>1, TopIs
<1>3. PICK w \in BOOLEAN : w = (fs[m].canWrite /\ allow)
  OBVIOUS
<1>4. /\ m < MaxDepth /\ frames' = Append(fs, [pages |-> fs[m].pages, events |-> 0, canWrite |-> w])
      /\ trapped = "no" /\ UNCHANGED <<writes, request, trapped>>
  BY <1>2, <1>3, Zenon DEF Sandbox, Running, pages
<1>5. PICK g : g = Append(fs, [pages |-> fs[m].pages, events |-> 0, canWrite |-> w])
  OBVIOUS
<1>a. Sound(fs, b, discarded) /\ m = Len(fs) /\ m < MaxDepth
  BY <1>2, <1>4
<1>6. /\ Sound(g, b, discarded) /\ Len(g) = m + 1 /\ g[m + 1].pages = fs[m].pages
      /\ \A f \in 1 .. m : g[f] = fs[f]
  <2>1. PICK gone : gone = discarded
    OBVIOUS
  <2>2. Sound(fs, b, gone) /\ Pushes(fs, g, m, w)
    BY <1>5, <1>a, <2>1, Zenon DEF Pushes
  <2>3. Sound(g, b, gone) /\ OneAbove(fs, g, m)
    BY ONLY w \in BOOLEAN, <2>2, Pushed
  <2> QED
    BY <2>1, <2>3, Zenon DEF OneAbove
<1>8. IsFrames(g)
  BY <1>6 DEF Sound
<1>9. Mem(g) = Append(Mem(fs), Mem(fs)[m])
  BY <1>2, <1>6, <1>8, MemPushed
<1>10. PICK a, h : a = Mem(frames) /\ h = Mem(frames')
  OBVIOUS
<1>11. h = Append(a, a[Len(a)])
  <2>1. a = Mem(fs) /\ h = Mem(g) /\ Len(a) = m
    BY <1>2, <1>4, <1>5, <1>10
  <2> QED
    BY <1>9, <2>1, Zenon
<1> QED
  BY <1>4, <1>10, <1>11 DEF Flat!SandboxEnter, Flat!Top, Mem

\* The return of a sandbox is that of the array.
LEMMA FlatReturn ==
  ASSUME StorageInv, SandboxReturns
  PROVE  Flat!SandboxLeave
<1>1. Sound(frames, budget, discarded) /\ Control(writes, trapped, phase)
  BY InvIs
<1>2. PICK fs, b, gone : fs = frames /\ b = budget /\ gone = discarded
  OBVIOUS
<1>3. PICK m \in Nat : m + 1 = Len(fs) /\ 1 <= m
  <2>1. Len(fs) \in Nat /\ Len(fs) > 1
    BY <1>1, <1>2 DEF Sound, IsFrames, SandboxReturns
  <2>2. Len(fs) - 1 \in Nat /\ (Len(fs) - 1) + 1 = Len(fs) /\ 1 <= Len(fs) - 1
    BY <2>1
  <2> QED
    BY <2>2
<1>4. Len(fs) - 1 = m
  BY <1>3
<1>5. PICK left, g : left = Lost(fs, m, gone) /\ g = SubSeq(fs, 1, m)
  OBVIOUS
<1>6. frames' = g /\ UNCHANGED <<writes, request>> /\ trapped' \in {"no"} \cup ({trapped} \ {"vm"})
  BY <1>2, <1>4, <1>5, Zenon DEF SandboxReturns
<1>7. Sound(g, b, left) /\ Len(g) = m
  <2>1. Sound(g, b, left)
    BY <1>1, <1>2, <1>3, <1>5, Popped
  <2>2. Len(g) = m
    BY <1>1, <1>2, <1>3, <1>5, Popped
  <2> QED
    BY <2>1, <2>2
<1>8. \A f \in 1 .. m : g[f] = fs[f]
  BY <1>1, <1>2, <1>3, <1>5, Popped
<1>9. IsFrames(fs) /\ IsFrames(g)
  BY <1>1, <1>2, <1>7 DEF Sound
<1>10. Mem(g) = SubSeq(Mem(fs), 1, m)
  BY <1>3, <1>7, <1>8, <1>9, MemPopped
<1>11. PICK a, h, n : a = Mem(frames) /\ h = Mem(frames') /\ n = Len(fs)
  OBVIOUS
<1>12. Len(a) = n
  BY <1>2, <1>9, <1>11, MemIs
<1>13. Len(a) > 1 /\ Len(a) - 1 = m
  BY <1>3, <1>11, <1>12
<1>14. h = SubSeq(a, 1, Len(a) - 1)
  BY <1>2, <1>6, <1>10, <1>11, <1>13, Zenon
<1>15. (trapped' # "no") \in {FALSE, trapped # "no"}
  BY <1>6
<1> QED
  BY <1>6, <1>11, <1>13, <1>14, <1>15 DEF Flat!SandboxLeave, Mem

\* The initial pages are the initial array.
LEMMA FlatInit == Init => Flat!Init
<1> SUFFICES ASSUME Init PROVE Flat!Init
  OBVIOUS
<1>1. PICK w \in BOOLEAN : frames = << [pages |-> <<>>, events |-> 0, canWrite |-> w] >>
  BY DEF Init
<1>2. Len(frames) = 1 /\ frames[1].pages = <<>>
  BY <1>1
<1>3. ASSUME NEW s \in Slots, NEW i \in Indexes PROVE View(<<>>, s, i) = <<0, s, i>>
  <2>1. PICK p \in Nat, r \in 1 .. PageSize : p = i \div PageSize /\ r = (i % PageSize) + 1 /\ p * PageSize + r - 1 = i
    <3>1. PICK c \in Nat, q \in Nat : c = (i \div PageSize) * PageSize /\ q = i % PageSize /\ i = c + q
      BY PageOf, Sizes
    <3>2. c + (q + 1) - 1 = i /\ (i % PageSize) + 1 \in 1 .. PageSize /\ i \div PageSize \in Nat
      BY <3>1, PageOf, Sizes
    <3> QED
      BY <3>1, <3>2
  <2>2. View(<<>>, s, i) = [k \in 1 .. PageSize |-> Host(s, p * PageSize + k - 1)][r]
    BY <2>1 DEF View, Existing
  <2>3. View(<<>>, s, i) = Host(s, p * PageSize + r - 1)
    BY <2>2
  <2> QED
    BY <2>1, <2>3 DEF Host
<1>4. MemoryOf(<<>>) = [p \in Flat!Places |-> Flat!Host(p[1], p[2])]
  BY <1>3, Spread DEF MemoryOf, Flat!Host
<1>5. [f \in 1 .. Len(frames) |-> MemoryOf(frames[f].pages)] = << [p \in Flat!Places |-> Flat!Host(p[1], p[2])] >>
  BY <1>2, <1>4
<1> QED
  BY <1>5, Zenon DEF Init, Flat!Init

\* Every step is a step of the array or leaves it alone.
LEMMA FlatStep == StorageInv /\ [Next]_vars => [Flat!Next]_Flat!vars
<1> SUFFICES ASSUME StorageInv, [Next]_vars PROVE Flat!Next \/ UNCHANGED Flat!vars
  BY Zenon
<1>0. Sound(frames, budget, discarded) /\ Control(writes, trapped, phase)
  BY InvIs
<1>1. CASE StartWithoutCode
  BY <1>1 DEF StartWithoutCode, Flat!vars
<1>2. CASE WriteCode
  BY <1>2, FlatDeploy DEF Flat!Next
<1>3. CASE Load
  BY <1>3 DEF Load, Flat!vars
<1>4. ASSUME NEW slot \in Slots, NEW idx \in Indexes, NEW n \in 1 .. MaxIndex - idx, StorageWrite(slot, idx, n)
      PROVE  Flat!Next \/ UNCHANGED Flat!vars
  <2>1. Flat!Write(slot, idx, n)
    BY <1>4, FlatWrite
  <2> QED
    BY <2>1 DEF Flat!Next, Indexes
<1>5. ASSUME NEW size \in 1 .. 2, EmitEvent(size) PROVE Flat!Next \/ UNCHANGED Flat!vars
  BY <1>5, FlatEmit DEF Flat!Next
<1>6. ASSUME NEW allow \in BOOLEAN, Sandbox(allow) PROVE Flat!Next \/ UNCHANGED Flat!vars
  BY <1>6, FlatSandbox DEF Flat!Next
<1>7. CASE SandboxReturns
  BY <1>7, FlatReturn DEF Flat!Next
<1>8. CASE Finish
  BY <1>8 DEF Finish, Flat!vars
<1>9. CASE UNCHANGED vars
  BY <1>9 DEF vars, Flat!vars
<1> QED
  BY <1>1, <1>2, <1>3, <1>4, <1>5, <1>6, <1>7, <1>8, <1>9 DEF Next

\* Storage by pages behaves like an array of bytes per slot, for every page
\* size: a write that succeeds is a write of exactly its bytes, one that traps
\* has written some of its pages and nothing else, and a sandbox's writes are
\* gone when it returns (storage.rs read and write, wasi/genlayer_sdk.rs
\* storage_write and sandbox).
THEOREM StorageImplementsFlat == Spec => FlatSpec
<1>1. Init => Flat!Init
  BY FlatInit
<1>2. StorageInv /\ [Next]_vars => [Flat!Next]_Flat!vars
  BY FlatStep
<1> QED
  BY <1>1, <1>2, StorageInductive, PTL DEF Spec, FlatSpec, Flat!Spec

-----------------------------------------------------------------------------
\* The delta.

Keys(S) == IsFiniteSet(S) /\ S \subseteq Nat \X Nat

\* Of two keys one is before the other, and not both.
LEMMA KeysOrdered ==
  ASSUME NEW a \in Nat \X Nat, NEW b \in Nat \X Nat
  PROVE  /\ a # b => Before(a, b) \/ Before(b, a)
         /\ ~ (Before(a, b) /\ Before(b, a))
         /\ \A c \in Nat \X Nat : Before(a, b) /\ Before(b, c) => Before(a, c)
<1>1. a = <<a[1], a[2]>> /\ b = <<b[1], b[2]>> /\ a[1] \in Nat /\ a[2] \in Nat /\ b[1] \in Nat /\ b[2] \in Nat
  OBVIOUS
<1>2. a # b => Before(a, b) \/ Before(b, a)
  BY <1>1 DEF Before
<1>3. ~ (Before(a, b) /\ Before(b, a))
  BY <1>1 DEF Before
<1>4. \A c \in Nat \X Nat : Before(a, b) /\ Before(b, c) => Before(a, c)
  BY <1>1 DEF Before
<1> QED
  BY <1>2, <1>3, <1>4

IsLast(id, s) == id \in s /\ \A o \in s \ {id} : Before(o, id)

\* A nonempty finite set of keys has a last one.
LEMMA LastExists ==
  ASSUME NEW S, Keys(S)
  PROVE  \A s \in SUBSET S : s # {} => \E id : IsLast(id, s)
<1> DEFINE F == {s \in SUBSET S : s # {} /\ ~ \E id : IsLast(id, s)}
<1> SUFFICES ASSUME F # {} PROVE FALSE
  OBVIOUS
<1>1. \A s \in F : s \in SUBSET S /\ IsFiniteSet(s)
  BY FS_Subset DEF Keys
<1> HIDE DEF F
<1>2. PICK s \in F : \A t \in F : ~ (t \subseteq s /\ t # s)
  BY <1>1, MinimalSet
<1>3. s \in SUBSET S /\ s # {} /\ ~ \E id : IsLast(id, s)
  BY DEF F
<1>4. PICK x \in s : TRUE
  BY <1>3
<1>5. x \in Nat \X Nat
  BY <1>3, <1>4 DEF Keys
<1>6. s \ {x} # {}
  BY <1>3, <1>4 DEF IsLast
<1>7. PICK m : IsLast(m, s \ {x})
  <2>1. s \ {x} \notin F
    BY <1>2, <1>4
  <2> QED
    BY <1>3, <1>6, <2>1 DEF F
<1>8. m \in s /\ m # x /\ m \in Nat \X Nat /\ \A o \in s \ {x, m} : Before(o, m) /\ o \in Nat \X Nat
  BY <1>3, <1>7 DEF IsLast, Keys
<1>9. CASE Before(x, m)
  <2>1. IsLast(m, s)
    BY <1>8, <1>9 DEF IsLast
  <2> QED
    BY <1>3, <2>1
<1>10. CASE Before(m, x)
  <2>1. \A o \in s \ {x, m} : Before(o, x)
    BY <1>5, <1>8, <1>10, KeysOrdered
  <2>2. IsLast(x, s)
    BY <1>4, <1>10, <2>1 DEF IsLast
  <2> QED
    BY <1>3, <2>2
<1> QED
  BY <1>5, <1>8, <1>9, <1>10, KeysOrdered

\* LastKey is that key.
LEMMA LastIs ==
  ASSUME NEW S, Keys(S), NEW s \in SUBSET S, s # {}
  PROVE  IsLast(LastKey(s), s)
<1>1. \E id : IsLast(id, s)
  BY LastExists
<1>2. \E id \in s : \A o \in s \ {id} : Before(o, id)
  BY <1>1 DEF IsLast
<1> QED
  BY <1>2, Zenon DEF LastKey, IsLast

-----------------------------------------------------------------------------
\* The function make_delta's fold is the value of.
IsRuns(g, pg, S) ==
  g = [s \in SUBSET S |-> IF s = {} THEN <<>> ELSE AppendPage(g[s \ {LastKey(s)}], pg, LastKey(s))]

\* make_delta is the value of its recursive function.
LEMMA DeltaUnfold ==
  ASSUME NEW pg
  PROVE  make_delta(pg) = (CHOOSE g : IsRuns(g, pg, DOMAIN pg))[DOMAIN pg]
  BY Zenon DEF make_delta, IsRuns, MapThenFoldSet

\* Nothing overridden, nothing sent.
LEMMA RunsEmpty == ASSUME NEW pg, NEW S, NEW g, IsRuns(g, pg, S) PROVE g[{}] = <<>>
  BY DEF IsRuns

\* The last key's page goes to the result of the others.
LEMMA RunsStep ==
  ASSUME NEW pg, NEW S, NEW g, IsRuns(g, pg, S), NEW s, s \subseteq S, s # {}
  PROVE  g[s] = AppendPage(g[s \ {LastKey(s)}], pg, LastKey(s))
<1>1. s \in SUBSET S
  OBVIOUS
<1> QED
  BY <1>1 DEF IsRuns

\* Two such functions agree where both are defined.
LEMMA RunsAgree ==
  ASSUME NEW pg, NEW S, Keys(S), NEW A \in SUBSET S, NEW B \in SUBSET S,
         NEW g, IsRuns(g, pg, A), NEW h, IsRuns(h, pg, B), NEW r, r \subseteq A, r \subseteq B
  PROVE  g[r] = h[r]
<1> DEFINE F == {s \in SUBSET (A \cap B) : g[s] # h[s]}
<1> SUFFICES ASSUME F # {} PROVE FALSE
  OBVIOUS
<1>1. \A s \in F : s \in SUBSET S /\ IsFiniteSet(s)
  BY FS_Subset DEF Keys
<1> HIDE DEF F
<1>2. PICK s \in F : \A t \in F : ~ (t \subseteq s /\ t # s)
  BY <1>1, MinimalSet
<1>3. s \in SUBSET A /\ s \in SUBSET B /\ s \in SUBSET S /\ g[s] # h[s]
  BY <1>1 DEF F
<1>4. s # {}
  <2>1. g[{}] = <<>>
    BY RunsEmpty
  <2>2. h[{}] = <<>>
    BY RunsEmpty
  <2> QED
    BY <1>3, <2>1, <2>2
<1>5. LastKey(s) \in s
  BY <1>3, <1>4, LastIs DEF IsLast
<1>6. s \ {LastKey(s)} \notin F
  BY <1>2, <1>5
<1>7. g[s \ {LastKey(s)}] = h[s \ {LastKey(s)}]
  BY <1>3, <1>6 DEF F
<1>8. g[s] = AppendPage(g[s \ {LastKey(s)}], pg, LastKey(s))
  BY <1>3, <1>4, RunsStep
<1>9. h[s] = AppendPage(h[s \ {LastKey(s)}], pg, LastKey(s))
  BY <1>3, <1>4, RunsStep
<1> QED
  BY <1>3, <1>7, <1>8, <1>9, Zenon

\* Over a finite set of keys the function exists.
LEMMA RunsExist ==
  ASSUME NEW pg, NEW S, Keys(S)
  PROVE  \A A \in SUBSET S : \E g : IsRuns(g, pg, A)
<1> DEFINE F == {A \in SUBSET S : ~ \E g : IsRuns(g, pg, A)}
<1> SUFFICES ASSUME F # {} PROVE FALSE
  OBVIOUS
<1>1. \A A \in F : A \in SUBSET S /\ IsFiniteSet(A)
  BY FS_Subset DEF Keys
<1> HIDE DEF F
<1>2. PICK A \in F : \A B \in F : ~ (B \subseteq A /\ B # A)
  BY <1>1, MinimalSet
<1>3. A \in SUBSET S /\ ~ \E g : IsRuns(g, pg, A)
  BY DEF F
<1> DEFINE It(V) == CHOOSE g : IsRuns(g, pg, V)
           E(V) == It(V)[V]
<1>4. ASSUME NEW V \in SUBSET A, V # A PROVE IsRuns(It(V), pg, V)
  <2>1. V \in SUBSET S /\ V \notin F
    BY <1>2, <1>3, <1>4
  <2>2. \E g : IsRuns(g, pg, V)
    BY <2>1 DEF F
  <2> QED
    BY <2>2, Zenon
<1> HIDE DEF It
<1>5. ASSUME NEW V \in SUBSET A, V # A, V # {}
      PROVE  E(V) = AppendPage(E(V \ {LastKey(V)}), pg, LastKey(V))
  <2>1. IsRuns(It(V), pg, V)
    BY <1>4, <1>5
  <2> DEFINE W == V \ {LastKey(V)}
  <2>2. V \in SUBSET S /\ LastKey(V) \in V
    BY <1>3, <1>5, LastIs DEF IsLast
  <2>3. W \in SUBSET A /\ W # A /\ W \in SUBSET V /\ W \in SUBSET S
    BY <1>3, <2>2
  <2>4. It(V)[V] = AppendPage(It(V)[W], pg, LastKey(V))
    <3>1. PICK h : h = It(V) /\ IsRuns(h, pg, V)
      BY <2>1
    <3>2. h[V] = AppendPage(h[V \ {LastKey(V)}], pg, LastKey(V))
      BY <1>5, <3>1, RunsStep
    <3> QED
      BY <3>1, <3>2
  <2> HIDE DEF W
  <2>5. IsRuns(It(W), pg, W)
    BY <1>4, <2>3
  <2>6. It(V)[W] = It(W)[W]
    BY <2>1, <2>2, <2>3, <2>5, RunsAgree
  <2>7. It(V)[V] = AppendPage(It(W)[W], pg, LastKey(V))
    BY <2>4, <2>6
  <2> QED
    BY <2>7 DEF W
<1>6. E({}) = <<>> \/ A = {}
  BY <1>4, RunsEmpty
<1> DEFINE G == [s \in SUBSET A |-> IF s = {} THEN <<>> ELSE AppendPage(E(s \ {LastKey(s)}), pg, LastKey(s))]
<1>7. ASSUME NEW V \in SUBSET A, V # A PROVE G[V] = E(V)
  <2>1. CASE V = {}
    BY <1>6, <1>7, <2>1
  <2>2. CASE V # {}
    BY <1>5, <1>7, <2>2
  <2> QED
    BY <2>1, <2>2
<1>8. ASSUME NEW s \in SUBSET A, s # {}
      PROVE  G[s] = AppendPage(G[s \ {LastKey(s)}], pg, LastKey(s))
  <2>1. LastKey(s) \in s
    BY <1>3, <1>8, LastIs DEF IsLast
  <2>2. s \ {LastKey(s)} \in SUBSET A /\ s \ {LastKey(s)} # A
    BY <2>1
  <2>3. G[s] = AppendPage(E(s \ {LastKey(s)}), pg, LastKey(s))
    BY <1>8
  <2> HIDE DEF G
  <2>4. G[s \ {LastKey(s)}] = E(s \ {LastKey(s)})
    BY <1>7, <2>2
  <2> QED
    BY <2>3, <2>4
<1>9. G = [s \in SUBSET A |-> IF s = {} THEN <<>> ELSE AppendPage(G[s \ {LastKey(s)}], pg, LastKey(s))]
  <2>1. G[{}] = <<>>
    OBVIOUS
  <2>2. DOMAIN G = SUBSET A /\ G = [s \in SUBSET A |-> G[s]]
    OBVIOUS
  <2> HIDE DEF G
  <2>3. \A s \in SUBSET A : G[s] = IF s = {} THEN <<>> ELSE AppendPage(G[s \ {LastKey(s)}], pg, LastKey(s))
    BY <1>8, <2>1
  <2> QED
    BY <2>2, <2>3
<1> HIDE DEF G
<1>10. IsRuns(G, pg, A)
  BY <1>9 DEF IsRuns
<1> QED
  BY <1>3, <1>10
-----------------------------------------------------------------------------
\* What has been sent after the keys of s.

\* Entry d holds k overridden pages of s, one after the other.
IsRun(d, pg, s, k) ==
  /\ k \in Nat /\ k > 0 /\ Len(d.data) = k * PageSize
  /\ \A j \in Nat : j < k => <<d.id[1], d.id[2] + j>> \in s
  /\ \A j \in Nat : j < k => \A r \in 1 .. PageSize : d.data[j * PageSize + r] = pg[<<d.id[1], d.id[2] + j>>][r]

\* The run d of k pages ends before e starts, and a page lies between them if
\* they are in one slot.
Apart(d, k, e) == d.id[1] < e.id[1] \/ (d.id[1] = e.id[1] /\ d.id[2] + k < e.id[2])

InRun(id, d, k) == id[1] = d.id[1] /\ d.id[2] <= id[2] /\ id[2] < d.id[2] + k

Entry == [id : Nat \X Nat, data : Seq(Bytes)]

EndOf(d, k) == <<d.id[1], d.id[2] + k - 1>>

\* The n entries of res are the maximal runs of s, in order; ks says how long.
AreRuns(res, n, pg, s, ks) ==
  /\ res \in Seq(Entry) /\ Len(res) = n /\ DOMAIN ks = 1 .. n
  /\ \A e \in 1 .. n : IsRun(res[e], pg, s, ks[e])
  /\ \A id \in s : \E e \in 1 .. n : InRun(id, res[e], ks[e])
  /\ \A e \in 1 .. n, f \in 1 .. n : e < f => Apart(res[e], ks[e], res[f])
  /\ s # {} => n > 0 /\ IsLast(EndOf(res[n], ks[n]), s)

\* An entry starts at a page.
LEMMA EntryIs == ASSUME NEW d \in Entry PROVE d.id \in Nat \X Nat /\ d.id[1] \in Nat /\ d.id[2] \in Nat
  BY DEF Entry

\* A set of keys that has every key before any of its own.
Prefix(s, S) == s \subseteq S /\ \A a \in s, b \in S : Before(b, a) => b \in s

\* A longer set of keys keeps the runs.
LEMMA RunKept ==
  ASSUME NEW d, NEW pg, NEW s, NEW t, NEW k, IsRun(d, pg, s, k), s \subseteq t
  PROVE  IsRun(d, pg, t, k)
  BY DEF IsRun

\* A page is a sequence of its bytes.
LEMMA PageIsSeq == ASSUME NEW x \in PageBytes PROVE x \in Seq(Bytes) /\ Len(x) = PageSize
<1>1. PageSize \in Nat /\ x \in [1 .. PageSize -> Bytes]
  BY Sizes DEF PageBytes
<1> QED
  BY <1>1

\* The bytes of two sequences joined.
LEMMA BytesJoined ==
  ASSUME NEW old \in Seq(Bytes), NEW new \in Seq(Bytes)
  PROVE  /\ old \o new \in Seq(Bytes) /\ Len(old \o new) = Len(old) + Len(new)
         /\ \A i \in 1 .. Len(old) : (old \o new)[i] = old[i]
         /\ \A i \in 1 .. Len(new) : (old \o new)[Len(old) + i] = new[i]
  OBVIOUS

\* A byte of one of the first k pages.
LEMMA ByteOfRun ==
  ASSUME NEW j \in Nat, NEW k \in Nat, j < k, NEW r \in 1 .. PageSize
  PROVE  j * PageSize + r \in 1 .. k * PageSize
<1>1. j * PageSize + PageSize <= k * PageSize /\ j * PageSize \in Nat /\ k * PageSize \in Nat
  BY NextPage, Sizes
<1>2. PICK a \in Nat, b \in Nat : a = j * PageSize /\ b = k * PageSize /\ a + PageSize <= b
  BY <1>1
<1>3. r \in Nat /\ 1 <= r /\ r <= PageSize /\ PageSize \in Nat
  BY Sizes
<1>4. a + r \in 1 .. b
  BY <1>2, <1>3
<1> QED
  BY <1>2, <1>4

Longer(d, page) == [d EXCEPT !.data = @ \o page]

\* One page more at the end of a run.
LEMMA RunLonger ==
  ASSUME NEW d \in Entry, NEW pg, NEW s, NEW k, IsRun(d, pg, s, k),
         NEW id, id = <<d.id[1], d.id[2] + k>>, pg[id] \in PageBytes,
         NEW e, e = Longer(d, pg[id])
  PROVE  /\ e \in Entry /\ e.id = d.id
         /\ IsRun(e, pg, s \cup {id}, k + 1)
<1>1. /\ k \in Nat /\ k > 0 /\ Len(d.data) = k * PageSize
      /\ \A j \in Nat : j < k => <<d.id[1], d.id[2] + j>> \in s
      /\ \A j \in Nat : j < k => \A r \in 1 .. PageSize : d.data[j * PageSize + r] = pg[<<d.id[1], d.id[2] + j>>][r]
  BY DEF IsRun
<1>2. e.id = d.id /\ e.data = d.data \o pg[id] /\ e = [id |-> d.id, data |-> d.data \o pg[id]]
  BY DEF Entry, Longer
<1>3. pg[id] \in Seq(Bytes) /\ Len(pg[id]) = PageSize
  BY PageIsSeq
<1>4. PICK old, new : old = d.data /\ new = pg[id] /\ old \in Seq(Bytes) /\ new \in Seq(Bytes) /\ Len(new) = PageSize
  BY <1>3 DEF Entry
<1>5. /\ old \o new \in Seq(Bytes) /\ Len(old \o new) = Len(old) + PageSize
      /\ \A i \in 1 .. Len(old) : (old \o new)[i] = old[i]
      /\ \A i \in 1 .. PageSize : (old \o new)[Len(old) + i] = new[i]
  <2>1. /\ old \o new \in Seq(Bytes) /\ Len(old \o new) = Len(old) + Len(new)
        /\ \A i \in 1 .. Len(old) : (old \o new)[i] = old[i]
        /\ \A i \in 1 .. Len(new) : (old \o new)[Len(old) + i] = new[i]
    <3>1. old \in Seq(Bytes) /\ new \in Seq(Bytes)
      BY <1>4
    <3> QED
      BY <3>1, BytesJoined, Zenon
  <2>2. Len(new) = PageSize
    BY <1>4
  <2> QED
    BY <2>1, <2>2, Zenon
<1>6. e \in Entry
  BY <1>2, <1>4, <1>5 DEF Entry
<1>7. Len(e.data) = (k + 1) * PageSize
  <2>1. (k + 1) * PageSize = k * PageSize + PageSize
    BY <1>1, Sizes
  <2> QED
    BY <1>1, <1>2, <1>4, <1>5, <2>1
<1>8. ASSUME NEW j \in Nat, j < k + 1 PROVE <<e.id[1], e.id[2] + j>> \in s \cup {id}
  <2>1. CASE j < k
    BY <1>1, <1>2, <2>1
  <2>2. CASE j = k
    BY <1>2, <2>2
  <2> QED
    BY <1>1, <1>8, <2>1, <2>2
<1>9. ASSUME NEW j \in Nat, j < k + 1, NEW r \in 1 .. PageSize
      PROVE  e.data[j * PageSize + r] = pg[<<e.id[1], e.id[2] + j>>][r]
  <2>1. CASE j < k
    <3>1. j * PageSize + r \in 1 .. Len(old)
      BY <1>1, <1>4, <2>1, ByteOfRun
    <3>2. (old \o new)[j * PageSize + r] = old[j * PageSize + r]
      BY <1>5, <3>1, Zenon
    <3>3. d.data[j * PageSize + r] = pg[<<d.id[1], d.id[2] + j>>][r]
      BY <1>1, <2>1, Zenon
    <3> QED
      BY <1>2, <1>4, <3>2, <3>3, Zenon
  <2>2. CASE j = k
    <3>1. (old \o new)[Len(old) + r] = new[r]
      BY <1>5, Zenon
    <3>2. Len(old) = j * PageSize
      BY <1>1, <1>4, <2>2, Zenon
    <3>3. id = <<e.id[1], e.id[2] + j>>
      BY <1>2, <2>2, Zenon
    <3> QED
      BY <1>2, <1>4, <3>1, <3>2, <3>3, Zenon
  <2>3. j < k \/ j = k
    BY <1>1, <1>9
  <2> QED
    BY <2>1, <2>2, <2>3, Zenon
<1>10. k + 1 \in Nat /\ k + 1 > 0
  BY <1>1
<1> QED
  BY <1>2, <1>6, <1>7, <1>8, <1>9, <1>10 DEF IsRun

\* A run of one page.
LEMMA RunNew ==
  ASSUME NEW pg, NEW id \in Nat \X Nat, pg[id] \in PageBytes, NEW s, NEW e, e = [id |-> id, data |-> pg[id]]
  PROVE  e \in Entry /\ IsRun(e, pg, s \cup {id}, 1)
<1>1. pg[id] \in Seq(Bytes) /\ Len(pg[id]) = PageSize
  BY PageIsSeq
<1>2. e \in Entry /\ e.id = id /\ e.data = pg[id] /\ id = <<id[1], id[2] + 0>>
  BY <1>1 DEF Entry
<1>3. Len(e.data) = 1 * PageSize
  BY <1>1, <1>2, Sizes
<1>4. \A j \in Nat : j < 1 => j = 0
  OBVIOUS
<1>5. \A r \in 1 .. PageSize : 0 * PageSize + r = r
  BY Sizes
<1>6. \A j \in Nat : j < 1 => <<e.id[1], e.id[2] + j>> \in s \cup {id}
  BY <1>2, <1>4
<1>7. \A j \in Nat : j < 1 => \A r \in 1 .. PageSize : e.data[j * PageSize + r] = pg[<<e.id[1], e.id[2] + j>>][r]
  BY <1>2, <1>4, <1>5
<1> QED
  BY <1>2, <1>3, <1>6, <1>7 DEF IsRun

\* A sequence of entries with one of them replaced.
LEMMA OneReplaced ==
  ASSUME NEW res \in Seq(Entry), NEW n \in 1 .. Len(res), NEW x \in Entry, NEW g, g = [res EXCEPT ![n] = x]
  PROVE  /\ g \in Seq(Entry) /\ Len(g) = Len(res) /\ g[n] = x
         /\ \A e \in 1 .. Len(res) : e # n => g[e] = res[e]
  OBVIOUS

\* A sequence of entries with one more.
LEMMA OneAppended ==
  ASSUME NEW res \in Seq(Entry), NEW x \in Entry, NEW g, g = Append(res, x)
  PROVE  /\ g \in Seq(Entry) /\ Len(g) = Len(res) + 1 /\ g[Len(res) + 1] = x
         /\ \A e \in 1 .. Len(res) : g[e] = res[e]
  OBVIOUS

LastLonger(g, res, n, page) == g = [res EXCEPT ![n].data = @ \o page]

\* The runs with the last one a page longer.
LEMMA Extended ==
  ASSUME NEW res, NEW n, NEW pg, NEW t, NEW ks, AreRuns(res, n, pg, t, ks), n > 0, t \subseteq Nat \X Nat,
         NEW id, id = <<res[n].id[1], res[n].id[2] + ks[n]>>, pg[id] \in PageBytes,
         NEW s, s = t \cup {id}, IsLast(id, s), NEW g, LastLonger(g, res, n, pg[id])
  PROVE  \E ls : AreRuns(g, n, pg, s, ls)
<1> DEFINE d == res[n]
           x == Longer(d, pg[id])
           ls == [ks EXCEPT ![n] = ks[n] + 1]
<1>1. /\ res \in Seq(Entry) /\ Len(res) = n /\ DOMAIN ks = 1 .. n /\ n \in Nat /\ n \in 1 .. n
      /\ \A e \in 1 .. n : IsRun(res[e], pg, t, ks[e])
      /\ \A o \in t : \E e \in 1 .. n : InRun(o, res[e], ks[e])
      /\ \A e \in 1 .. n, f \in 1 .. n : e < f => Apart(res[e], ks[e], res[f])
  BY DEF AreRuns
<1>2. d \in Entry /\ IsRun(d, pg, t, ks[n])
  BY <1>1
<1>3. g = [res EXCEPT ![n] = x]
  BY <1>1 DEF LastLonger, Longer
<1>4. x \in Entry /\ x.id = d.id /\ IsRun(x, pg, s, ks[n] + 1)
  <2>1. id = <<d.id[1], d.id[2] + ks[n]>>
    OBVIOUS
  <2>2. PICK k, dd : k = ks[n] /\ dd = d
    OBVIOUS
  <2> HIDE DEF d
  <2>3. dd \in Entry /\ IsRun(dd, pg, t, k) /\ id = <<dd.id[1], dd.id[2] + k>>
    BY <1>2, <2>1, <2>2
  <2>4. Longer(dd, pg[id]) \in Entry /\ Longer(dd, pg[id]).id = dd.id /\ IsRun(Longer(dd, pg[id]), pg, t \cup {id}, k + 1)
    BY <2>3, RunLonger
  <2> QED
    BY <2>2, <2>4
<1>5. PICK k : k = ks[n] /\ k \in Nat /\ k > 0
  BY <1>2 DEF IsRun
<1> HIDE DEF x
<1>6. /\ g \in Seq(Entry) /\ Len(g) = n /\ g[n] = x
      /\ \A e \in 1 .. n : e # n => g[e] = res[e]
  BY <1>1, <1>3, <1>4, OneReplaced
<1>7. /\ DOMAIN ls = 1 .. n /\ ls[n] = k + 1
      /\ \A e \in 1 .. n : e # n => ls[e] = ks[e]
  BY <1>1, <1>5
<1> HIDE DEF ls, d
<1>8. \A e \in 1 .. n : IsRun(g[e], pg, s, ls[e])
  <2> SUFFICES ASSUME NEW e \in 1 .. n PROVE IsRun(g[e], pg, s, ls[e])
    OBVIOUS
  <2>1. CASE e = n
    BY <1>4, <1>5, <1>6, <1>7, <2>1
  <2>2. CASE e # n
    <3>1. IsRun(res[e], pg, t, ks[e]) /\ t \subseteq s
      BY <1>1
    <3> QED
      BY <1>6, <1>7, <2>2, <3>1, RunKept
  <2> QED
    BY <2>1, <2>2
<1>9. \A e \in 1 .. n : g[e].id = res[e].id
  <2> SUFFICES ASSUME NEW e \in 1 .. n PROVE g[e].id = res[e].id
    OBVIOUS
  <2>1. CASE e = n
    BY <1>4, <1>6, <2>1 DEF d
  <2>2. CASE e # n
    BY <1>6, <2>2
  <2> QED
    BY <2>1, <2>2
<1>10. d.id[1] \in Nat /\ d.id[2] \in Nat /\ id = <<d.id[1], d.id[2] + k>> /\ d.id = x.id
  <2>1. d.id[1] \in Nat /\ d.id[2] \in Nat
    BY <1>2, EntryIs
  <2> QED
    BY <1>4, <1>5, <2>1 DEF d
<1>11. ASSUME NEW o \in s PROVE \E e \in 1 .. n : InRun(o, g[e], ls[e])
  <2>1. CASE o \in t
    <3>1. PICK e \in 1 .. n : InRun(o, res[e], ks[e])
      BY <1>1, <2>1
    <3>2. CASE e # n
      <4>1. InRun(o, g[e], ls[e])
        BY <1>6, <1>7, <3>1, <3>2
      <4> QED
        BY <4>1
    <3>3. CASE e = n
      <4>1. o[1] = d.id[1] /\ d.id[2] <= o[2] /\ o[2] < d.id[2] + k
        BY <1>5, <3>1, <3>3 DEF InRun, d
      <4>2. o[2] \in Nat
        BY <2>1
      <4>3. InRun(o, x, k + 1)
        BY <1>5, <1>10, <4>1, <4>2 DEF InRun
      <4> QED
        BY <1>1, <1>6, <1>7, <4>3
    <3> QED
      BY <3>2, <3>3
  <2>2. CASE o = id
    <3>1. InRun(o, x, k + 1)
      BY <1>5, <1>10, <2>2 DEF InRun
    <3> QED
      BY <1>1, <1>6, <1>7, <3>1
  <2> QED
    BY <1>11, <2>1, <2>2
<1>12. ASSUME NEW e \in 1 .. n, NEW f \in 1 .. n, e < f PROVE Apart(g[e], ls[e], g[f])
  <2>1. Apart(res[e], ks[e], res[f])
    BY <1>1, <1>12
  <2>2. e # n
    BY <1>1, <1>12
  <2>3. ls[e] = ks[e] /\ g[e].id = res[e].id /\ g[f].id = res[f].id
    BY <1>7, <1>9, <2>2
  <2> QED
    BY <2>1, <2>3 DEF Apart
<1>13. IsLast(EndOf(g[n], ls[n]), s)
  <2>1. EndOf(g[n], ls[n]) = id
    BY <1>5, <1>6, <1>7, <1>10 DEF EndOf
  <2> QED
    BY <2>1
<1>14. AreRuns(g, n, pg, s, ls)
  BY <1>1, <1>6, <1>7, <1>8, <1>11, <1>12, <1>13 DEF AreRuns
<1> QED
  BY <1>14

\* The runs with a new one of one page.
LEMMA Appended ==
  ASSUME NEW res, NEW n, NEW pg, NEW t, NEW ks, AreRuns(res, n, pg, t, ks),
         NEW id \in Nat \X Nat, pg[id] \in PageBytes, t \subseteq Nat \X Nat,
         id[2] = 0 \/ <<id[1], id[2] - 1>> \notin t,
         id \notin t, NEW s, s = t \cup {id}, IsLast(id, s), NEW g, g = Append(res, [id |-> id, data |-> pg[id]])
  PROVE  \E ls : AreRuns(g, n + 1, pg, s, ls)
<1> DEFINE x == [id |-> id, data |-> pg[id]]
           ls == [e \in 1 .. n + 1 |-> IF e = n + 1 THEN 1 ELSE ks[e]]
<1>1. /\ res \in Seq(Entry) /\ Len(res) = n /\ DOMAIN ks = 1 .. n /\ n \in Nat
      /\ \A e \in 1 .. n : IsRun(res[e], pg, t, ks[e])
      /\ \A o \in t : \E e \in 1 .. n : InRun(o, res[e], ks[e])
      /\ \A e \in 1 .. n, f \in 1 .. n : e < f => Apart(res[e], ks[e], res[f])
  BY DEF AreRuns
<1>2. x \in Entry /\ IsRun(x, pg, s, 1)
  BY RunNew
<1>3. x.id = id
  OBVIOUS
<1> HIDE DEF x
<1>4. /\ g \in Seq(Entry) /\ Len(g) = n + 1 /\ g[n + 1] = x
      /\ \A e \in 1 .. n : g[e] = res[e]
  <2>1. g = Append(res, x)
    BY DEF x
  <2> QED
    BY <1>1, <1>2, <2>1, OneAppended
<1>5. DOMAIN ls = 1 .. n + 1 /\ ls[n + 1] = 1 /\ \A e \in 1 .. n : ls[e] = ks[e]
  BY <1>1
<1> HIDE DEF ls
<1>6. \A e \in 1 .. n + 1 : e \in 1 .. n \/ e = n + 1
  BY <1>1
<1>7. \A e \in 1 .. n + 1 : IsRun(g[e], pg, s, ls[e])
  <2>1. ASSUME NEW e \in 1 .. n PROVE IsRun(g[e], pg, s, ls[e])
    <3>1. IsRun(res[e], pg, t, ks[e]) /\ t \subseteq s
      BY <1>1
    <3> QED
      BY <1>4, <1>5, <3>1, RunKept
  <2> QED
    BY <1>2, <1>4, <1>5, <1>6, <2>1
<1>8. id[1] \in Nat /\ id[2] \in Nat /\ id = <<id[1], id[2]>>
  OBVIOUS
<1>9. ASSUME NEW o \in s PROVE \E e \in 1 .. n + 1 : InRun(o, g[e], ls[e])
  <2>1. CASE o \in t
    <3>1. PICK e \in 1 .. n : InRun(o, res[e], ks[e])
      BY <1>1, <2>1
    <3>2. InRun(o, g[e], ls[e]) /\ e \in 1 .. n + 1
      BY <1>1, <1>4, <1>5, <3>1
    <3> QED
      BY <3>2
  <2>2. CASE o = id
    <3>1. InRun(o, x, 1)
      BY <1>3, <1>8, <2>2 DEF InRun
    <3>2. n + 1 \in 1 .. n + 1
      BY <1>1
    <3> QED
      BY <1>4, <1>5, <3>1, <3>2
  <2> QED
    BY <1>9, <2>1, <2>2
<1>10. ASSUME NEW e \in 1 .. n PROVE Apart(res[e], ks[e], x)
  <2>1. PICK a \in Nat, b \in Nat, k \in Nat : res[e].id = <<a, b>> /\ k = ks[e] /\ k > 0
    <3>1. PICK y \in Nat \X Nat : y = res[e].id
      BY <1>1, EntryIs
    <3>3. PICK a \in Nat, b \in Nat : y = <<a, b>>
      OBVIOUS
    <3>2. ks[e] \in Nat /\ ks[e] > 0
      BY <1>1 DEF IsRun
    <3> QED
      BY <3>1, <3>2, <3>3, Zenon
  <2>2. <<a, b + (k - 1)>> \in t
    <3>1. k - 1 \in Nat /\ k - 1 < k /\ IsRun(res[e], pg, t, k)
      BY <1>1, <2>1
    <3>2. <<res[e].id[1], res[e].id[2] + (k - 1)>> \in t
      BY <3>1 DEF IsRun
    <3> QED
      BY <2>1, <3>2
  <2>3. Before(<<a, b + (k - 1)>>, id)
    BY <2>2 DEF IsLast
  <2>4. a < id[1] \/ (a = id[1] /\ b + (k - 1) < id[2])
    BY <2>3 DEF Before
  <2>5. CASE a = id[1] /\ b + (k - 1) < id[2]
    <3>1. b + k # id[2]
      <4> SUFFICES ASSUME b + k = id[2] PROVE FALSE
        OBVIOUS
      <4>1. b + (k - 1) = id[2] - 1 /\ id[2] # 0
        BY <1>8, <2>1
      <4> QED
        BY <2>2, <2>5, <4>1
    <3>2. b + k < id[2]
      <4>1. PICK v \in Nat : v = id[2]
        BY <1>8
      <4>2. b + (k - 1) < v /\ b + k # v
        BY <2>5, <3>1, <4>1
      <4>3. b + k < v
        BY <4>2
      <4> QED
        BY <4>1, <4>3
    <3> QED
      BY <1>3, <2>1, <2>5, <3>2 DEF Apart
  <2> QED
    BY <1>3, <2>1, <2>4, <2>5 DEF Apart
<1>11. ASSUME NEW e \in 1 .. n + 1, NEW f \in 1 .. n + 1, e < f PROVE Apart(g[e], ls[e], g[f])
  <2>1. e \in 1 .. n
    BY <1>1, <1>11
  <2>2. CASE f = n + 1
    BY <1>4, <1>5, <1>10, <2>1, <2>2
  <2>3. CASE f \in 1 .. n
    BY <1>1, <1>4, <1>5, <1>11, <2>1, <2>3
  <2> QED
    BY <1>6, <2>2, <2>3
<1>12. n + 1 > 0 /\ IsLast(EndOf(g[n + 1], ls[n + 1]), s)
  <2>1. EndOf(g[n + 1], ls[n + 1]) = id
    BY <1>3, <1>4, <1>5, <1>8 DEF EndOf
  <2> QED
    BY <1>1, <2>1
<1>13. AreRuns(g, n + 1, pg, s, ls)
  BY <1>1, <1>4, <1>5, <1>7, <1>9, <1>11, <1>12 DEF AreRuns
<1> QED
  BY <1>13

\* The keys before the last of a prefix are a prefix.
LEMMA PrefixShorter ==
  ASSUME NEW S, Keys(S), NEW s, Prefix(s, S), NEW id, IsLast(id, s)
  PROVE  Prefix(s \ {id}, S)
<1>1. s \subseteq S /\ S \subseteq Nat \X Nat /\ id \in s /\ \A o \in s \ {id} : Before(o, id)
  BY DEF Prefix, Keys, IsLast
<1>2. ASSUME NEW a \in s \ {id}, NEW b \in S, Before(b, a) PROVE b \in s \ {id}
  <2>1. b \in s
    BY <1>2 DEF Prefix
  <2>2. b # id
    BY <1>1, <1>2, KeysOrdered
  <2> QED
    BY <2>1, <2>2
<1> QED
  BY <1>1, <1>2 DEF Prefix

\* The key before id, if it is there, is the last before id.
LEMMA Predecessor ==
  ASSUME NEW a \in Nat, NEW b \in Nat, b # 0, NEW p \in Nat \X Nat,
         p = <<a, b - 1>> \/ Before(<<a, b - 1>>, p), Before(p, <<a, b>>)
  PROVE  p = <<a, b - 1>>
<1>1. p = <<p[1], p[2]>> /\ p[1] \in Nat /\ p[2] \in Nat /\ b - 1 \in Nat
  OBVIOUS
<1>2. p[1] < a \/ (p[1] = a /\ p[2] < b)
  BY DEF Before
<1>3. CASE Before(<<a, b - 1>>, p)
  <2>1. a < p[1] \/ (a = p[1] /\ b - 1 < p[2])
    BY <1>3 DEF Before
  <2> QED
    BY <1>1, <1>2, <2>1
<1> QED
  BY <1>3

\* A page whose predecessor is overridden continues the last run, any other
\* starts a new one: either way the result stands for one key more.
LEMMA PageAdded ==
  ASSUME NEW pg, IsPages(pg), NEW s, Prefix(s, DOMAIN pg), NEW id, IsLast(id, s),
         NEW t, t = s \ {id}, NEW res, NEW n, NEW ks, AreRuns(res, n, pg, t, ks)
  PROVE  \E m, ls : AreRuns(AppendPage(res, pg, id), m, pg, s, ls)
<1>1. DOMAIN pg \subseteq Nat \X Nat /\ pg \in [DOMAIN pg -> PageBytes]
  BY Sizes DEF IsPages, PageIDs, Slots
<1>2. s \subseteq DOMAIN pg /\ id \in s /\ s = t \cup {id} /\ id \notin t /\ t \subseteq Nat \X Nat /\ id \in Nat \X Nat
  BY <1>1 DEF Prefix, IsLast
<1>3. pg[id] \in PageBytes
  BY <1>1, <1>2
<1>4. PICK a \in Nat, b \in Nat : id = <<a, b>> /\ a = id[1] /\ b = id[2]
  BY <1>2
<1>5. Len(res) = n /\ n \in Nat /\ res \in Seq(Entry)
  BY DEF AreRuns
<1>6. CASE b # 0 /\ <<a, b - 1>> \in DOMAIN pg
  <2>1. <<a, b - 1>> \in t
    <3>1. Before(<<a, b - 1>>, id) /\ <<a, b - 1>> # id
      BY <1>4, <1>6 DEF Before
    <3>2. <<a, b - 1>> \in s
      BY <1>2, <1>6, <3>1 DEF Prefix
    <3> QED
      BY <3>1, <3>2
  <2>2. n > 0 /\ IsLast(EndOf(res[n], ks[n]), t)
    BY <2>1 DEF AreRuns
  <2>3. n \in 1 .. n
    BY <1>5, <2>2
  <2>4. IsRun(res[n], pg, t, ks[n])
    BY <2>3 DEF AreRuns
  <2>5. PICK k \in Nat : k = ks[n] /\ k > 0
    BY <2>4 DEF IsRun
  <2>6. res[n] \in Entry
    BY <1>5, <2>3
  <2>7. PICK c \in Nat, d \in Nat : c = res[n].id[1] /\ d = res[n].id[2]
    BY <2>6, EntryIs
  <2>8. EndOf(res[n], ks[n]) = <<c, d + k - 1>>
    BY <2>5, <2>7 DEF EndOf
  <2>9. <<c, d + k - 1>> = <<a, b - 1>>
    <3>1. <<c, d + k - 1>> \in t
      BY <2>2, <2>8 DEF IsLast
    <3>2. <<c, d + k - 1>> \in Nat \X Nat
      BY <1>2, <3>1
    <3>3. Before(<<c, d + k - 1>>, <<a, b>>)
      BY <1>2, <1>4, <3>1 DEF IsLast
    <3>4. <<c, d + k - 1>> = <<a, b - 1>> \/ Before(<<a, b - 1>>, <<c, d + k - 1>>)
      BY <2>1, <2>2, <2>8 DEF IsLast
    <3> QED
      BY <1>6, <3>2, <3>3, <3>4, Predecessor
  <2>10. id = <<res[n].id[1], res[n].id[2] + ks[n]>>
    <3>1. c = a /\ d + k - 1 = b - 1
      BY <2>9
    <3>2. d + k = b
      BY <3>1
    <3> QED
      BY <1>4, <2>5, <2>7, <3>1, <3>2
  <2>11. LastLonger(AppendPage(res, pg, id), res, n, pg[id])
    BY <1>4, <1>5, <1>6, Zenon DEF AppendPage, LastLonger
  <2>12. \E ls : AreRuns(AppendPage(res, pg, id), n, pg, s, ls)
    BY <1>2, <1>3, <2>2, <2>10, <2>11, Extended
  <2> QED
    BY <2>12
<1>7. CASE ~ (b # 0 /\ <<a, b - 1>> \in DOMAIN pg)
  <2>1. AppendPage(res, pg, id) = Append(res, [id |-> id, data |-> pg[id]])
    BY <1>4, <1>7, Zenon DEF AppendPage
  <2>2. id[2] = 0 \/ <<id[1], id[2] - 1>> \notin t
    BY <1>2, <1>4, <1>7
  <2>3. \E ls : AreRuns(AppendPage(res, pg, id), n + 1, pg, s, ls)
    BY <1>2, <1>3, <2>1, <2>2, Appended
  <2> QED
    BY <2>3
<1> QED
  BY <1>6, <1>7

\* So make_delta sends the maximal runs of the overrides.
LEMMA DeltaRuns ==
  ASSUME NEW pg, IsPages(pg)
  PROVE  \E n, ks : AreRuns(make_delta(pg), n, pg, DOMAIN pg, ks)
<1> DEFINE S == DOMAIN pg
           g == CHOOSE h : IsRuns(h, pg, S)
           F == {s \in SUBSET S : Prefix(s, S) /\ ~ \E n, ks : AreRuns(g[s], n, pg, s, ks)}
<1>1. Keys(S)
  BY PagesCounted, Sizes DEF IsPages, PageIDs, Keys, Slots
<1>2. IsRuns(g, pg, S)
  <2>1. \E h : IsRuns(h, pg, S)
    BY <1>1, RunsExist
  <2> QED
    BY <2>1, Zenon
<1>3. make_delta(pg) = g[S]
  BY DeltaUnfold
<1> HIDE DEF g
<1>4. S \notin F
  <2> SUFFICES ASSUME F # {} PROVE FALSE
    OBVIOUS
  <2>1. \A s \in F : s \in SUBSET S /\ IsFiniteSet(s)
    BY <1>1, FS_Subset DEF Keys
  <2> HIDE DEF F
  <2>2. PICK s \in F : \A t \in F : ~ (t \subseteq s /\ t # s)
    BY <2>1, MinimalSet
  <2>3. s \in SUBSET S /\ Prefix(s, S) /\ ~ \E n, ks : AreRuns(g[s], n, pg, s, ks)
    BY DEF F
  <2> HIDE DEF S
  <2>4. CASE s = {}
    <3>1. g[s] = <<>>
      BY <1>2, <2>4, RunsEmpty
    <3>2. <<>> \in Seq(Entry) /\ Len(<<>>) = 0
      OBVIOUS
    <3>3. AreRuns(g[s], 0, pg, s, [e \in 1 .. 0 |-> 1])
      BY <2>4, <3>1, <3>2 DEF AreRuns
    <3> QED
      BY <2>3, <3>3
  <2>5. CASE s # {}
    <3>1. PICK id : id = LastKey(s) /\ IsLast(id, s)
      BY <1>1, <2>3, <2>5, LastIs
    <3>2. PICK t : t = s \ {id} /\ Prefix(t, S) /\ t \in SUBSET S
      BY <1>1, <2>3, <3>1, PrefixShorter
    <3>3. id \in s
      BY <3>1 DEF IsLast
    <3>4. t \notin F
      BY <2>2, <3>2, <3>3
    <3>5. \E n, ks : AreRuns(g[t], n, pg, t, ks)
      BY <3>2, <3>4 DEF F
    <3>6. \E m, ls : AreRuns(AppendPage(g[t], pg, id), m, pg, s, ls)
      BY <2>3, <3>1, <3>2, <3>5, PageAdded DEF S
    <3>7. g[s] = AppendPage(g[t], pg, id)
      BY <1>2, <2>3, <2>5, <3>1, <3>2, RunsStep
    <3> QED
      BY <2>3, <3>6, <3>7
  <2> QED
    BY <2>4, <2>5
<1>5. Prefix(S, S)
  BY DEF Prefix
<1> QED
  BY <1>3, <1>4, <1>5

-----------------------------------------------------------------------------
\* From pages to bytes.

\* Products keep the order of page numbers.
LEMMA PagesBefore ==
  ASSUME NEW i \in Nat, NEW q \in Nat
  PROVE  q * PageSize <= i <=> q <= i \div PageSize
<1>1. PICK p \in Nat, c \in Nat : p = i \div PageSize /\ c = p * PageSize /\ c <= i /\ i < c + PageSize
  BY PageOf
<1>2. PICK x \in Nat : x = q * PageSize
  BY Sizes
<1>3. CASE p < q
  <2>1. c + PageSize <= x
    BY <1>1, <1>2, <1>3, NextPage
  <2>2. i < x
    BY <1>1, <2>1, Sizes
  <2> QED
    BY <1>1, <1>2, <1>3, <2>2
<1>4. CASE q < p
  <2>1. x + PageSize <= c
    BY <1>1, <1>2, <1>4, NextPage
  <2>2. x <= i
    BY <1>1, <2>1, Sizes
  <2> QED
    BY <1>1, <1>2, <1>4, <2>2
<1>5. CASE q = p
  BY <1>1, <1>5
<1> QED
  BY <1>1, <1>3, <1>4, <1>5

\* Where a run of k pages starts and ends.
LEMMA RunSpan ==
  ASSUME NEW d \in Entry, NEW k \in Nat, Len(d.data) = k * PageSize
  PROVE  /\ d.id[2] \in Nat /\ Start(d) = d.id[2] * PageSize /\ Start(d) \in Nat
         /\ Start(d) + Len(d.data) = (d.id[2] + k) * PageSize /\ d.id[2] + k \in Nat
<1>1. PICK b \in Nat : b = d.id[2]
  BY EntryIs
<1>2. (b + k) * PageSize = b * PageSize + k * PageSize /\ b * PageSize \in Nat
  BY Sizes
<1> QED
  BY <1>1, <1>2 DEF Start

\* An entry covers the bytes of the pages of its run.
LEMMA CoversIs ==
  ASSUME NEW d \in Entry, NEW k \in Nat, Len(d.data) = k * PageSize, NEW slot \in Nat, NEW i \in Nat
  PROVE  Covers(d, slot, i) <=> InRun(<<slot, i \div PageSize>>, d, k)
<1>1. PICK b \in Nat, p \in Nat : b = d.id[2] /\ p = i \div PageSize
  BY EntryIs, PageOf
<1>2. Start(d) <= i <=> b <= p
  BY <1>1, RunSpan, PagesBefore
<1>3. PICK z \in Nat : z = (b + k) * PageSize /\ Start(d) + Len(d.data) = z
  <2>1. b + k \in Nat /\ Start(d) + Len(d.data) = (b + k) * PageSize
    BY <1>1, RunSpan
  <2>2. \A m \in Nat : m * PageSize \in Nat
    BY Sizes
  <2> QED
    BY <2>1, <2>2, Zenon
<1>4. z <= i <=> b + k <= p
  BY <1>1, <1>3, PagesBefore
<1>5. i < Start(d) + Len(d.data) <=> p < b + k
  BY <1>3, <1>4
<1> QED
  BY <1>1, <1>2, <1>5 DEF Covers, InRun

\* The byte of a page that is not overridden is the host's.
LEMMA HostView ==
  ASSUME NEW pg, NEW slot \in Nat, NEW i \in Nat, <<slot, i \div PageSize>> \notin DOMAIN pg
  PROVE  View(pg, slot, i) = Host(slot, i)
<1>1. PICK p \in Nat, r \in 1 .. PageSize, c \in Nat :
        p = i \div PageSize /\ r = (i % PageSize) + 1 /\ c = p * PageSize /\ c + r - 1 = i
  <2>1. PICK q \in Nat : q = i % PageSize /\ q < PageSize
    BY PageOf, Sizes
  <2>2. PICK p \in Nat, c \in Nat : p = i \div PageSize /\ c = p * PageSize /\ i = c + q
    BY <2>1, PageOf
  <2>3. q + 1 \in 1 .. PageSize /\ c + (q + 1) - 1 = i
    BY <2>1, <2>2, Sizes
  <2> QED
    BY <2>1, <2>2, <2>3
<1>2. Existing(pg, <<slot, p>>) = [x \in 1 .. PageSize |-> Host(slot, p * PageSize + x - 1)]
  BY <1>1 DEF Existing
<1>3. View(pg, slot, i) = Existing(pg, <<slot, p>>)[r]
  BY <1>1 DEF View
<1>4. View(pg, slot, i) = Host(slot, c + r - 1)
  BY <1>1, <1>2, <1>3
<1> QED
  BY <1>1, <1>4

\* The byte of an entry is the byte of the page.
LEMMA RunView ==
  ASSUME NEW d \in Entry, NEW pg, NEW k \in Nat, IsRun(d, pg, DOMAIN pg, k),
         NEW slot \in Nat, NEW i \in Nat, InRun(<<slot, i \div PageSize>>, d, k)
  PROVE  d.data[i - Start(d) + 1] = View(pg, slot, i)
<1>1. PICK b \in Nat, p \in Nat, q \in Nat :
        b = d.id[2] /\ p = i \div PageSize /\ q = i % PageSize /\ q < PageSize /\ i = p * PageSize + q
  BY EntryIs, PageOf, Sizes
<1>2. slot = d.id[1] /\ b <= p /\ p < b + k
  BY <1>1 DEF InRun
<1>3. PICK j \in Nat : j = p - b /\ j < k /\ p = b + j
  BY <1>2
<1>4. p * PageSize = b * PageSize + j * PageSize /\ b * PageSize \in Nat /\ j * PageSize \in Nat
  BY <1>3, Sizes
<1>5. i - Start(d) + 1 = j * PageSize + (q + 1)
  <2>1. PICK x \in Nat, y \in Nat : x = b * PageSize /\ y = j * PageSize
    BY <1>4
  <2>2. i = x + y + q
    BY <1>1, <1>4, <2>1
  <2>3. i - x + 1 = y + (q + 1)
    BY <2>2
  <2> QED
    BY <1>1, <2>1, <2>3 DEF Start
<1>6. q + 1 \in 1 .. PageSize
  BY <1>1, Sizes
<1>7. <<slot, p>> \in DOMAIN pg /\ d.data[j * PageSize + (q + 1)] = pg[<<slot, p>>][q + 1]
  <2>1. <<d.id[1], d.id[2] + j>> \in DOMAIN pg
    BY <1>3 DEF IsRun
  <2>2. d.data[j * PageSize + (q + 1)] = pg[<<d.id[1], d.id[2] + j>>][q + 1]
    BY <1>3, <1>6 DEF IsRun
  <2>3. <<d.id[1], d.id[2] + j>> = <<slot, p>>
    BY <1>1, <1>2, <1>3
  <2> QED
    BY <2>1, <2>2, <2>3
<1>8. View(pg, slot, i) = pg[<<slot, p>>][q + 1]
  BY <1>1, <1>7 DEF View, Existing
<1> QED
  BY <1>5, <1>7, <1>8

\* A page is in one run only.
LEMMA OneRun ==
  ASSUME NEW d \in Entry, NEW e \in Entry, NEW k \in Nat, NEW l \in Nat, Apart(d, k, e),
         NEW a \in Nat, NEW p \in Nat, InRun(<<a, p>>, d, k), InRun(<<a, p>>, e, l)
  PROVE  FALSE
<1>1. a = d.id[1] /\ p < d.id[2] + k /\ d.id[2] \in Nat /\ a = e.id[1] /\ e.id[2] <= p /\ e.id[2] \in Nat
  BY EntryIs DEF InRun
<1> QED
  BY <1>1 DEF Apart

\* The maximal runs, applied to the host's storage, are the storage the
\* contract saw.
LEMMA RunsReproduce ==
  ASSUME NEW ds, NEW n, NEW pg, NEW ks, AreRuns(ds, n, pg, DOMAIN pg, ks)
  PROVE  Reproduces(ds, pg)
<1>1. /\ ds \in Seq(Entry) /\ Len(ds) = n /\ n \in Nat
      /\ \A e \in 1 .. n : IsRun(ds[e], pg, DOMAIN pg, ks[e])
      /\ \A id \in DOMAIN pg : \E e \in 1 .. n : InRun(id, ds[e], ks[e])
      /\ \A e \in 1 .. n, f \in 1 .. n : e < f => Apart(ds[e], ks[e], ds[f])
  BY DEF AreRuns
<1>2. \A e \in 1 .. n : ds[e] \in Entry /\ ks[e] \in Nat /\ Len(ds[e].data) = ks[e] * PageSize
  BY <1>1 DEF IsRun
<1>3. ASSUME NEW slot \in Slots, NEW i \in Indexes, NEW hits, hits = {e \in 1 .. n : Covers(ds[e], slot, i)}
      PROVE  /\ Cardinality(hits) <= 1
             /\ \A e \in hits : ds[e].data[i - Start(ds[e]) + 1] = View(pg, slot, i)
             /\ hits = {} => View(pg, slot, i) = Host(slot, i)
  <2>1. slot \in Nat /\ i \in Nat /\ i \div PageSize \in Nat
    BY Sizes, PageOf
  <2>2. PICK p \in Nat : p = i \div PageSize
    BY <2>1
  <2>3. \A e \in 1 .. n : e \in hits <=> InRun(<<slot, p>>, ds[e], ks[e])
    BY <1>2, <1>3, <2>1, <2>2, CoversIs
  <2>4. hits \subseteq 1 .. n
    BY <1>3
  <2>5. \A e \in hits, f \in hits : e = f
    <3> SUFFICES ASSUME NEW e \in hits, NEW f \in hits, e < f PROVE FALSE
      BY <1>1, <2>4
    <3> QED
      BY <1>1, <1>2, <2>1, <2>2, <2>3, <2>4, OneRun
  <2>6. Cardinality(hits) <= 1
    <3>1. CASE hits = {}
      BY <3>1, FS_EmptySet
    <3>2. CASE hits # {}
      <4>1. PICK e \in hits : hits = {e}
        BY <2>5, <3>2
      <4>2. Cardinality({e}) = 1
        BY FS_Singleton
      <4> QED
        BY <4>1, <4>2
    <3> QED
      BY <3>1, <3>2
  <2>7. \A e \in hits : ds[e].data[i - Start(ds[e]) + 1] = View(pg, slot, i)
    BY <1>1, <1>2, <2>1, <2>2, <2>3, <2>4, RunView
  <2>8. hits = {} => View(pg, slot, i) = Host(slot, i)
    <3> SUFFICES ASSUME hits = {} PROVE View(pg, slot, i) = Host(slot, i)
      OBVIOUS
    <3>1. <<slot, p>> \notin DOMAIN pg
      BY <1>1, <2>3
    <3> QED
      BY <2>1, <2>2, <3>1, HostView
  <2> QED
    BY <2>6, <2>7, <2>8
<1>4. ASSUME NEW e \in 1 .. n - 1
      PROVE  \/ ds[e].id[1] < ds[e + 1].id[1]
             \/ ds[e].id[1] = ds[e + 1].id[1] /\ Start(ds[e]) + Len(ds[e].data) < Start(ds[e + 1])
  <2>1. e \in 1 .. n /\ e + 1 \in 1 .. n /\ e < e + 1
    BY <1>1
  <2>2. PICK d \in Entry, x \in Entry, k \in Nat, l \in Nat :
          /\ d = ds[e] /\ x = ds[e + 1] /\ k = ks[e] /\ l = ks[e + 1]
          /\ Len(d.data) = k * PageSize /\ Len(x.data) = l * PageSize
    <3>1. ds[e] \in Entry /\ ks[e] \in Nat /\ Len(ds[e].data) = ks[e] * PageSize
      BY <1>2, <2>1
    <3>2. ds[e + 1] \in Entry /\ ks[e + 1] \in Nat /\ Len(ds[e + 1].data) = ks[e + 1] * PageSize
      BY <1>2, <2>1
    <3> QED
      BY <3>1, <3>2
  <2>3. Apart(d, k, x)
    BY <1>1, <2>1, <2>2
  <2>4. CASE d.id[1] = x.id[1] /\ d.id[2] + k < x.id[2]
    <3>1. PICK y \in Nat, z \in Nat : y = d.id[2] + k /\ z = x.id[2] /\ y < z
      BY <2>2, <2>4, RunSpan
    <3>2. y * PageSize + PageSize <= z * PageSize
      BY <3>1, NextPage
    <3>3. PICK u \in Nat, v \in Nat : u = y * PageSize /\ v = z * PageSize
      BY Sizes
    <3>4. Start(d) + Len(d.data) = u /\ Start(x) = v
      BY <2>2, <3>1, <3>3, RunSpan
    <3>5. u < v
      BY <3>2, <3>3, Sizes
    <3> QED
      BY <2>2, <2>4, <3>4, <3>5
  <2> QED
    BY <2>2, <2>3, <2>4 DEF Apart
<1> QED
  BY <1>1, <1>3, <1>4 DEF Reproduces

\* Whatever is sent is make_delta of the outermost VM's overrides.
Sent == phase = "done" => delta = make_delta(pages) \/ (delta = <<>> /\ trapped = "internal")

\* Only Finish ends a run, and nothing happens after it.
LEMMA SentStep == Sent /\ [Next]_vars => Sent'
<1> SUFFICES ASSUME Sent, [Next]_vars PROVE Sent'
  OBVIOUS
<1>1. CASE StartWithoutCode
  BY <1>1 DEF StartWithoutCode, Sent
<1>2. CASE WriteCode
  <2>1. phase' # "done"
    BY <1>2 DEF WriteCode
  <2> QED
    BY <2>1 DEF Sent
<1>3. CASE Load
  <2>1. phase' # "done"
    BY <1>3 DEF Load
  <2> QED
    BY <2>1 DEF Sent
<1>4. ASSUME NEW slot \in Slots, NEW idx \in Indexes, NEW n \in 1 .. MaxIndex - idx, StorageWrite(slot, idx, n) PROVE Sent'
  <2>1. phase' = phase /\ phase = "running"
    BY <1>4 DEF StorageWrite, Running
  <2> QED
    BY <2>1 DEF Sent
<1>5. ASSUME NEW size \in 1 .. 2, EmitEvent(size) PROVE Sent'
  <2>1. phase' = phase /\ phase = "running"
    BY <1>5 DEF EmitEvent, Running
  <2> QED
    BY <2>1 DEF Sent
<1>6. ASSUME NEW allow \in BOOLEAN, Sandbox(allow) PROVE Sent'
  <2>1. phase' = phase /\ phase = "running"
    BY <1>6 DEF Sandbox, Running
  <2> QED
    BY <2>1 DEF Sent
<1>7. CASE SandboxReturns
  <2>1. phase' = phase /\ phase = "running"
    BY <1>7 DEF SandboxReturns
  <2> QED
    BY <2>1 DEF Sent
<1>8. CASE Finish
  <2>1. /\ UNCHANGED <<frames, trapped>>
        /\ delta' = make_delta(pages) \/ (trapped = "internal" /\ delta' = <<>>)
    BY <1>8 DEF Finish
  <2>2. pages' = pages
    BY <2>1 DEF pages
  <2>3. make_delta(pages)' = make_delta(pages)
    BY <2>1 DEF pages
  <2> QED
    BY <2>1, <2>3 DEF Sent
<1>9. CASE UNCHANGED vars
  BY <1>9 DEF vars, Sent, pages
<1> QED
  BY <1>1, <1>2, <1>3, <1>4, <1>5, <1>6, <1>7, <1>8, <1>9 DEF Next

\* An execution that runs to its end sends the host exactly the storage its
\* contract saw: the entries make_delta joins from neighbouring pages, applied
\* to the host's storage, give every byte of every slot its last value, they
\* are sorted and no two could be joined further (storage.rs make_delta, lib.rs
\* run_with_impl).
THEOREM DeltaIsExact == Spec => []DeltaReproducesView
<1>1. Init => Sent
  BY DEF Init, Sent
<1>2. Sent /\ [Next]_vars => Sent'
  BY SentStep
<1>3. StorageInv /\ Sent => DeltaReproducesView
  <2> SUFFICES ASSUME StorageInv, Sent, phase = "done" PROVE Reproduces(delta, pages) \/ (delta = <<>> /\ trapped = "internal")
    BY DEF DeltaReproducesView
  <2>1. IsPages(pages)
    <3>1. IsFrame(frames[Len(frames)])
      BY Sizes DEF StorageInv, TypeOK
    <3> QED
      BY <3>1 DEF IsFrame, IsPages, pages
  <2>2. Reproduces(make_delta(pages), pages)
    BY <2>1, DeltaRuns, RunsReproduce
  <2> QED
    BY <2>2 DEF Sent
<1> QED
  BY <1>1, <1>2, <1>3, StorageInductive, PTL DEF Spec
=============================================================================
