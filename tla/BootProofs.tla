----------------------------- MODULE BootProofs -----------------------------
(***************************************************************************)
(* Theorems about the boot and the kernel's memory, for every layout of    *)
(* the memory that MemoryAssumption allows.                                *)
(*                                                                         *)
(* The argument: before paging, the counter phys moves over everything     *)
(* that is given out (TablesApart); while the identity mapping runs, the   *)
(* frames taken are exactly those below the page it is at, so that page n  *)
(* gets frame n (IdentityInv); the heap's tables exist by then, so that    *)
(* mapping the heap moves phys no more (HeapTablesInv).                    *)
(***************************************************************************)
EXTENDS Boot, WellFoundedInduction, TLAPS

----------------------------------------------------------------------------
(***************************************************************************)
(* Arithmetic.                                                             *)
(***************************************************************************)
\* Multiplication by a natural number is monotonic.
LEMMA MulMono ==
  ASSUME NEW a \in Int, NEW b \in Int, NEW p \in Nat, a <= b
  PROVE  a * p <= b * p
  OBVIOUS

\* Division rounds down.
LEMMA DivBounds ==
  ASSUME NEW a \in Nat, NEW p \in Nat \ {0}
  PROVE  /\ a \div p \in Nat
         /\ (a \div p) * p <= a
         /\ a < (a \div p + 1) * p
  OBVIOUS

\* Lower bound of a quotient.
LEMMA DivAtLeast ==
  ASSUME NEW a \in Nat, NEW p \in Nat \ {0}, NEW k \in Nat, k * p <= a
  PROVE  k <= a \div p
<1>1. SUFFICES ASSUME a \div p + 1 <= k PROVE FALSE
  BY DivBounds
<1>2. (a \div p + 1) * p <= k * p
  BY <1>1, MulMono, DivBounds
<1> QED BY <1>2, DivBounds

\* Upper bound of a quotient.
LEMMA DivBelow ==
  ASSUME NEW a \in Nat, NEW p \in Nat \ {0}, NEW k \in Nat, a < k * p
  PROVE  a \div p < k
<1>1. SUFFICES ASSUME k <= a \div p PROVE FALSE
  BY DivBounds
<1>2. k * p <= (a \div p) * p
  BY <1>1, MulMono, DivBounds
<1> QED BY <1>2, DivBounds

\* A multiple leaves no remainder.
LEMMA MultipleMod ==
  ASSUME NEW p \in Nat \ {0}, NEW k \in Nat
  PROVE  (k * p) % p = 0
<1>1. (k * p) \div p = k
  BY DivAtLeast, DivBelow
<1> QED BY <1>1

\* The order < on the natural numbers, as the set of its pairs.
Less == {ss \in Nat \X Nat : ss[1] < ss[2]}

\* The order of the natural numbers is well founded.
LEMMA LessWellFounded == IsWellFoundedOn(Less, Nat)
  BY NatLessThanWellFounded, Zenon DEF IsWellFoundedOn, OpToRel, Less

\* find_free, a CHOOSE here, finds the lowest free frame if there is one.
LEMMA LeastOf ==
  ASSUME NEW S \in SUBSET Nat, S # {}
  PROVE  Min(S) \in S /\ \A n \in S : Min(S) <= n
<1>1. PICK least \in S : \A n \in S : ~(<<n, least>> \in Less)
  BY LessWellFounded, WFMin
<1>2. ASSUME NEW n \in S PROVE least <= n
  <2>1. n \in Nat /\ least \in Nat /\ <<n, least>> \notin Less
    BY <1>1
  <2> QED BY <2>1 DEF Less
<1> QED BY <1>2 DEF Min

----------------------------------------------------------------------------
(***************************************************************************)
(* The inductive invariant of the memory.                                  *)
(***************************************************************************)
Later == Stages \ {"directory", "heap tables"}
Paged == {"heap frames", "running", "heap full"}

\* vm_init has not touched the entries yet.
StartInv ==
  /\ stage = "directory" =>
       /\ phys = end
       /\ \A t \in DOMAIN tables : tables[t] = NULL
  /\ stage \notin Later =>
       /\ page = [n \in Page |-> leftover]
       /\ frames = {}

\* The tables of the heap are made before anything is mapped.
HeapTablesInv ==
  /\ stage = "heap tables" =>
       /\ i \in HeapPage..(HeapPage + HeapPages)
       /\ \A n \in HeapRange : n < i => tables[n \div Entries] # NULL
  /\ stage \in Later =>
       \A n \in HeapRange : tables[n \div Entries] # NULL

\* Page n gets frame n.
IdentityInv ==
  stage = "identity" =>
    /\ i <= Frames
    /\ frames = 0..(i - 1)
    /\ \A n \in Page :
         page[n] = IF n < i THEN [present |-> TRUE, frame |-> n] ELSE NotMapped

\* What is used stays where it is; the heap's pages are mapped one by one.
PagedInv ==
  /\ stage \in Paged =>
       \A n \in 1..((phys - 1) \div PageSize) :
         n < Frames /\ page[n] = [present |-> TRUE, frame |-> n]
  /\ stage = "heap frames" =>
       /\ i \in HeapPage..(HeapPage + HeapPages)
       /\ \A n \in HeapRange : IF n < i THEN page[n].present
                                        ELSE page[n] = NotMapped
  /\ PagingIsOn =>
       /\ \A n \in HeapRange : page[n].present
       /\ ~page[0].present

\* The blocks lie in the heap, below heap_addr, one behind the other.
HeapInv ==
  /\ ~PagingIsOn => blocks = {} /\ heap = HeapBase
  /\ stage = "running" => heap <= HeapEnd
  /\ \A b \in blocks :
       /\ HeapBase <= b.base /\ b.size # 0
       /\ b.base + b.size <= heap /\ b.base + b.size <= HeapEnd
       /\ \A c \in blocks : b = c \/ b.base + b.size <= c.base
                                 \/ c.base + c.size <= b.base

MemoryInv ==
  /\ MemoryTypeOK
  /\ StartInv /\ TablesApart /\ HeapTablesInv
  /\ FramesApart
  /\ leftover = NotMapped => IdentityInv /\ PagedInv
  /\ HeapInv

----------------------------------------------------------------------------
(***************************************************************************)
(* Alignment, and what get_page does to the tables.                        *)
(***************************************************************************)
\* The next page boundary is not before the address.
LEMMA AlignedFacts ==
  ASSUME NEW a \in Nat, a >= PageSize
  PROVE  Aligned(a) \in Nat /\ a <= Aligned(a) /\ IsAligned(Aligned(a))
<1> DEFINE q == a \div PageSize
<1>1. PageSize \in Nat \ {0}
  BY MemoryAssumption DEF PageSize
<1>2. q \in Nat /\ 1 <= q
  BY <1>1, DivBounds, DivAtLeast
<1>3. Aligned(a) = (q + 1) * PageSize
  BY <1>2 DEF Aligned
<1>4. ((q + 1) * PageSize) % PageSize = 0
  BY <1>1, <1>2, MultipleMod
<1>5. (q + 1) * PageSize \in Nat
  BY <1>1, <1>2
<1>6. a <= (q + 1) * PageSize
  BY <1>1, DivBounds
<1> QED BY <1>3, <1>4, <1>5, <1>6 DEF IsAligned

\* get_page keeps the tables apart, moves phys up, and forgets no table.
LEMMA GetPageStep ==
  ASSUME MemoryTypeOK, TablesApart, stage # "directory", NEW n \in Nat,
         GetPage(n), end' = end, stage' # "directory"
  PROVE  /\ tables' \in [0..(Tables - 1) -> Nat]
         /\ phys' \in Nat /\ phys <= phys'
         /\ TablesApart'
         /\ \A t \in DOMAIN tables : tables[t] # NULL => tables'[t] # NULL
         /\ n \div Entries \in DOMAIN tables => tables'[n \div Entries] # NULL
         /\ tables[n \div Entries] # NULL => phys' = phys /\ tables' = tables
<1> DEFINE x == n \div Entries
<1>0. /\ PageSize \in Nat \ {0} /\ end >= PageSize /\ end \in Nat
      /\ phys \in Nat /\ phys >= end
      /\ tables \in [0..(Tables - 1) -> Nat]
  BY MemoryAssumption DEF PageSize, MemoryTypeOK
<1>1. Directory' = Directory
  BY DEF Directory, Aligned
<1>2. CASE tables[x] # NULL
  <2>1. tables' = tables /\ phys' = phys
    BY <1>2 DEF GetPage
  <2>2. TablesApart'
    BY <2>1, <1>1 DEF TablesApart, Made
  <2> QED BY <1>0, <1>2, <2>1, <2>2
<1>3. CASE tables[x] = NULL
  <2> DEFINE a == Aligned(phys)
  <2>1. tables' = [tables EXCEPT ![x] = a] /\ phys' = a + PageSize
    BY <1>3 DEF GetPage
  <2>2. a \in Nat /\ phys <= a /\ IsAligned(a)
    BY <1>0, AlignedFacts
  <2>3. a # NULL
    BY <1>0, <2>2 DEF NULL
  <2> HIDE DEF a
  <2>4. tables' \in [0..(Tables - 1) -> Nat]
    BY <1>0, <2>1, <2>2
  <2>5. \A t \in DOMAIN tables : tables'[t] = IF t = x THEN a ELSE tables[t]
    BY <1>0, <2>1
  <2>6. Made' \subseteq Made \cup {x} /\ x \notin Made
    BY <1>0, <1>3, <2>4, <2>5 DEF Made
  <2>7. \A t \in Made : /\ t \in DOMAIN tables /\ t # x /\ tables'[t] = tables[t]
                        /\ IsAligned(tables[t]) /\ tables[t] \in Nat
                        /\ Directory + 2 * PageSize <= tables[t]
                        /\ tables[t] + PageSize <= a
    BY <1>0, <1>3, <2>2, <2>5 DEF TablesApart, Made
  <2>8. /\ Directory + 2 * PageSize <= phys /\ IsAligned(Directory)
        /\ end <= Directory /\ Directory \in Nat
    BY <1>0, AlignedFacts DEF TablesApart, Directory
  <2>9. \A t \in Made' : /\ IsAligned(tables'[t])
                         /\ Directory + 2 * PageSize <= tables'[t]
                         /\ tables'[t] + PageSize <= phys'
    BY <1>0, <2>1, <2>2, <2>4, <2>5, <2>6, <2>7, <2>8 DEF Made
  <2>10. \A t, u \in Made' : t # u => Apart(tables'[t], tables'[u], PageSize)
    <3>1. SUFFICES ASSUME NEW t \in Made', NEW u \in Made', t # u
                   PROVE  Apart(tables'[t], tables'[u], PageSize)
      OBVIOUS
    <3>2. CASE t = x
      BY <1>0, <2>2, <2>4, <2>5, <2>6, <2>7, <3>1, <3>2 DEF Apart, Made
    <3>3. CASE u = x
      BY <1>0, <2>2, <2>4, <2>5, <2>6, <2>7, <3>1, <3>3 DEF Apart, Made
    <3>4. CASE t # x /\ u # x
      BY <2>6, <2>7, <3>1, <3>4 DEF Apart, TablesApart
    <3> QED BY <3>2, <3>3, <3>4
  <2>11. TablesApart'
    BY <1>0, <1>1, <2>1, <2>2, <2>8, <2>9, <2>10 DEF TablesApart, IsAligned, Apart, PageSize
  <2> QED BY <1>0, <1>3, <2>1, <2>2, <2>3, <2>4, <2>5, <2>11
<1> QED BY <1>2, <1>3

----------------------------------------------------------------------------
(***************************************************************************)
(* What new_frame does to the entries and the bitmap.                      *)
(***************************************************************************)
LEMMA NewFrameStep ==
  ASSUME MemoryTypeOK, FramesApart, NEW n \in Nat, NewFrame(n), leftover' = leftover
  PROVE  /\ page' \in [Page -> PageEntry]
         /\ frames' \subseteq 0..(Frames - 1)
         /\ FramesApart'
         /\ \A m \in Page : m # n => page'[m] = page[m]
         /\ page[n] = NotMapped =>
              /\ Min(Free) \in Free /\ (\A f \in Free : Min(Free) <= f)
              /\ n \in Page => page'[n] = [present |-> TRUE, frame |-> Min(Free)]
              /\ frames' = frames \cup {Min(Free)}
<1>0. /\ page \in [Page -> PageEntry] /\ frames \subseteq 0..(Frames - 1)
      /\ Free \subseteq 0..(Frames - 1) /\ Free \cap frames = {}
  BY DEF MemoryTypeOK, Free
<1>1. CASE page[n].frame # 0 /\ UNCHANGED <<page, frames>>
  <2>1. FramesApart'
    BY <1>1 DEF FramesApart
  <2> QED BY <1>0, <1>1, <2>1 DEF NotMapped
<1>2. CASE /\ page[n].frame = 0 /\ Free # {}
           /\ page' = [page EXCEPT ![n] = [present |-> TRUE, frame |-> Min(Free)]]
           /\ frames' = frames \cup {Min(Free)}
  <2>1. Min(Free) \in Free /\ \A f \in Free : Min(Free) <= f
    BY <1>0, <1>2, LeastOf
  <2> DEFINE f == Min(Free)
             entry == [present |-> TRUE, frame |-> f]
  <2>2. f \in Nat /\ f \in 0..(Frames - 1) /\ f \notin frames
    <3>1. f \in Free
      BY <2>1
    <3> HIDE DEF f
    <3>2. f \in 0..(Frames - 1) /\ f \notin frames
      BY <3>1 DEF Free
    <3> QED BY <3>2, MemoryAssumption
  <2> HIDE DEF f
  <2>3. entry \in PageEntry
    BY <2>2 DEF PageEntry
  <2>4. page' \in [Page -> PageEntry]
    BY <1>0, <1>2, <2>3 DEF f
  <2>5. \A m \in Page : page'[m] = IF m = n THEN entry ELSE page[m]
    BY <1>0, <1>2 DEF f
  <2>6. frames' \subseteq 0..(Frames - 1) /\ frames' = frames \cup {f}
    BY <1>0, <1>2, <2>2 DEF f
  <2>7. FramesApart'
    <3>1. SUFFICES ASSUME ~leftover.present, NEW m \in Page, NEW k \in Page,
                          page'[m].present, page'[k].present
                   PROVE  /\ page'[m].frame \in frames'
                          /\ m # k => page'[m].frame # page'[k].frame
      BY DEF FramesApart
    <3>2. m # n => page'[m].frame \in frames
      BY <2>5, <3>1 DEF FramesApart
    <3>3. k # n => page'[k].frame \in frames
      BY <2>5, <3>1 DEF FramesApart
    <3>4. (m = n => page'[m].frame = f) /\ (k = n => page'[k].frame = f)
      BY <2>5
    <3>5. m # n /\ k # n /\ m # k => page'[m].frame # page'[k].frame
      BY <2>5, <3>1 DEF FramesApart
    <3> QED BY <2>2, <2>6, <3>2, <3>3, <3>4, <3>5
  <2> QED BY <1>2, <2>1, <2>4, <2>5, <2>6, <2>7 DEF f
<1> QED BY <1>1, <1>2 DEF NewFrame, SetBit

----------------------------------------------------------------------------
(***************************************************************************)
(* The invariant holds at the start and is kept by every step.             *)
(***************************************************************************)
\* The sizes.
LEMMA Sizes ==
  /\ PageSize \in Nat \ {0} /\ PageSize = Entries
  /\ Frames \in Nat \ {0} /\ Tables \in Nat \ {0}
  /\ HeapPage \in Nat /\ HeapPages \in Nat \ {0} /\ Frames <= HeapPage
  /\ SlackPages \in Nat \ {0}
  BY MemoryAssumption DEF PageSize

\* Where the heap is.
LEMMA Layout ==
  /\ 0 \in Page /\ Page \subseteq Nat
  /\ \A n \in HeapRange : /\ n \in Page /\ n \in Nat /\ n >= Frames
                          /\ n \div Entries \in 0..(Tables - 1)
<1>1. HeapRange \subseteq Page
  BY MemoryAssumption
<1>2. HeapRange \subseteq Nat /\ \A n \in HeapRange : n >= Frames
  BY Sizes DEF HeapRange
<1>3. HeapPage \in HeapRange
  BY Sizes DEF HeapRange
<1>4. Tables * Entries \in Nat
  BY Sizes
<1>5. HeapPage <= Tables * Entries - 1
  BY <1>1, <1>3 DEF Page
<1>6. 0 \in Page /\ Page \subseteq Nat
  BY Sizes, <1>4, <1>5 DEF Page
<1>7. ASSUME NEW n \in HeapRange PROVE n \div Entries \in 0..(Tables - 1)
  <2>1. n \in Nat /\ n < Tables * Entries
    BY <1>1, <1>2, <1>4 DEF Page
  <2>2. n \div Entries < Tables /\ n \div Entries \in Nat
    BY <2>1, Sizes, DivBelow, DivBounds
  <2> QED BY <2>2, Sizes
<1> QED BY <1>1, <1>2, <1>6, <1>7

\* The addresses of the heap.
LEMMA HeapBounds == HeapBase \in Nat /\ HeapEnd \in Nat /\ HeapBase <= HeapEnd
  BY Sizes, MulMono DEF HeapBase, HeapEnd

\* The memory management starts with nothing given out.
LEMMA MemoryStart == MemoryInit => MemoryInv
<1> SUFFICES ASSUME MemoryInit PROVE MemoryInv
  OBVIOUS
<1>1. MemoryTypeOK
  BY Sizes, HeapBounds, MemoryAssumption DEF MemoryInit, MemoryTypeOK, Stages, PageEntry, NULL
<1>2. StartInv /\ TablesApart /\ HeapTablesInv /\ IdentityInv /\ PagedInv
  BY DEF MemoryInit, StartInv, TablesApart, HeapTablesInv, IdentityInv, PagedInv, Later, Paged, PagingIsOn
<1>3. FramesApart
  BY DEF MemoryInit, FramesApart
<1>4. HeapInv
  BY DEF MemoryInit, HeapInv, PagingIsOn
<1> QED BY <1>1, <1>2, <1>3, <1>4 DEF MemoryInv

\* vm_init makes the directory behind the image.
LEMMA MakeDirectoryKeeps == MemoryInv /\ MakeDirectory => MemoryInv'
<1> SUFFICES ASSUME MemoryInv, MakeDirectory PROVE MemoryInv'
  OBVIOUS
<1>0. /\ MemoryTypeOK /\ StartInv /\ FramesApart /\ HeapInv
      /\ phys' = Aligned(phys) + 2 * PageSize /\ i' = HeapPage
      /\ end' = end /\ leftover' = leftover /\ tables' = tables /\ page' = page
      /\ frames' = frames /\ heap' = heap /\ blocks' = blocks
  BY DEF MemoryInv, MakeDirectory
<1>s. stage = "directory" /\ stage' = "heap tables"
  BY DEF MakeDirectory
<1>1. phys = end /\ end \in Nat /\ end >= PageSize
  BY <1>0, <1>s, MemoryAssumption DEF StartInv, MemoryTypeOK, PageSize
<1>2. Aligned(end) \in Nat /\ end <= Aligned(end) /\ IsAligned(Aligned(end))
  BY <1>1, AlignedFacts
<1>3. Directory' = Aligned(end) /\ phys' = Aligned(end) + 2 * PageSize
  BY <1>0, <1>1 DEF Directory, Aligned
<1>4. phys' \in Nat /\ phys' >= end' /\ i' \in Nat
  BY <1>0, <1>1, <1>2, <1>3, Sizes
<1>5. MemoryTypeOK'
  BY <1>0, <1>s, <1>4 DEF MemoryTypeOK, Stages
<1>6. Made' = {}
  BY <1>0, <1>s DEF Made, StartInv
<1>7. TablesApart'
  <2>1. IsAligned(Directory') /\ end' <= Directory'
    BY <1>0, <1>2, <1>3
  <2>2. Directory' + 2 * PageSize <= phys'
    BY <1>2, <1>3, Sizes
  <2> QED BY <1>6, <2>1, <2>2 DEF TablesApart, IsAligned, PageSize
<1>8. StartInv'
  BY <1>0, <1>s DEF StartInv, Later
<1>9. HeapTablesInv'
  <2>1. i' \in HeapPage..(HeapPage + HeapPages)
    BY <1>0, Sizes
  <2>2. \A n \in HeapRange : ~(n < i')
    BY <1>0, Sizes DEF HeapRange
  <2> QED BY <1>s, <2>1, <2>2 DEF HeapTablesInv, Later
<1>10. IdentityInv' /\ PagedInv'
  BY <1>s DEF IdentityInv, PagedInv, Paged, PagingIsOn
<1>11. FramesApart' /\ HeapInv'
  BY <1>0, <1>s DEF FramesApart, HeapInv, PagingIsOn
<1> QED BY <1>5, <1>7, <1>8, <1>9, <1>10, <1>11 DEF MemoryInv

\* get_page makes the tables of the heap.
LEMMA HeapTableKeeps == MemoryInv /\ HeapTable => MemoryInv'
<1> SUFFICES ASSUME MemoryInv, HeapTable PROVE MemoryInv'
  OBVIOUS
<1>0. /\ MemoryTypeOK /\ StartInv /\ TablesApart /\ HeapTablesInv /\ FramesApart /\ HeapInv
      /\ i \in HeapRange /\ i' = i + 1
      /\ GetPage(i)
      /\ end' = end /\ leftover' = leftover /\ page' = page
      /\ frames' = frames /\ heap' = heap /\ blocks' = blocks
  BY DEF MemoryInv, HeapTable
<1>s. stage = "heap tables" /\ stage' = "heap tables"
  BY DEF HeapTable
<1>i. i \in Nat
  BY <1>0, Layout
<1>1. /\ tables' \in [0..(Tables - 1) -> Nat] /\ phys' \in Nat /\ phys <= phys'
      /\ TablesApart'
      /\ \A t \in DOMAIN tables : tables[t] # NULL => tables'[t] # NULL
      /\ i \div Entries \in DOMAIN tables => tables'[i \div Entries] # NULL
  BY <1>0, <1>s, <1>i, GetPageStep
<1>2. phys \in Nat /\ end \in Nat /\ phys >= end
  BY <1>0, MemoryAssumption DEF MemoryTypeOK
<1>3. MemoryTypeOK'
  <2>1. phys' >= end' /\ i' \in Nat
    BY <1>0, <1>1, <1>2, <1>i
  <2> QED BY <1>0, <1>s, <1>1, <2>1 DEF MemoryTypeOK
<1>4. HeapTablesInv'
  <2>1. i' \in HeapPage..(HeapPage + HeapPages)
    BY <1>0, Sizes DEF HeapRange
  <2>2. ASSUME NEW n \in HeapRange, n < i' PROVE tables'[n \div Entries] # NULL
    <3>1. n \div Entries \in DOMAIN tables
      BY <1>0, Layout DEF MemoryTypeOK
    <3>2. n \in Nat
      BY Layout
    <3>3. n < i \/ n = i
      BY <1>0, <1>i, <2>2, <3>2
    <3>4. CASE n < i
      <4>1. tables[n \div Entries] # NULL
        BY <1>0, <1>s, <3>4 DEF HeapTablesInv
      <4> QED BY <1>1, <3>1, <4>1
    <3>5. CASE n = i
      BY <1>1, <3>1, <3>5
    <3> QED BY <3>3, <3>4, <3>5
  <2> QED BY <1>s, <2>1, <2>2 DEF HeapTablesInv, Later, NULL
<1>5. StartInv' /\ IdentityInv' /\ PagedInv'
  BY <1>0, <1>s DEF StartInv, IdentityInv, PagedInv, Later, Paged, PagingIsOn
<1>6. FramesApart' /\ HeapInv'
  BY <1>0, <1>s DEF FramesApart, HeapInv, PagingIsOn
<1> QED BY <1>1, <1>3, <1>4, <1>5, <1>6 DEF MemoryInv

\* The heap has its tables.
LEMMA HeapTablesDoneKeeps == MemoryInv /\ HeapTablesDone => MemoryInv'
<1> SUFFICES ASSUME MemoryInv, HeapTablesDone PROVE MemoryInv'
  OBVIOUS
<1>0. /\ MemoryTypeOK /\ StartInv /\ TablesApart /\ HeapTablesInv /\ FramesApart /\ HeapInv
      /\ i \notin HeapRange /\ i' = 0
      /\ end' = end /\ phys' = phys /\ leftover' = leftover /\ tables' = tables
      /\ page' = page /\ frames' = frames /\ heap' = heap /\ blocks' = blocks
  BY DEF MemoryInv, HeapTablesDone
<1>s. stage = "heap tables" /\ stage' = "identity"
  BY DEF HeapTablesDone
<1>1. MemoryTypeOK'
  BY <1>0, <1>s DEF MemoryTypeOK, Stages
<1>2. TablesApart'
  BY <1>0, <1>s DEF TablesApart, Made, Directory, Aligned, IsAligned, Apart, PageSize
<1>3. HeapTablesInv'
  <2>1. i \in HeapPage..(HeapPage + HeapPages)
    BY <1>0, <1>s DEF HeapTablesInv
  <2>2. \A n \in HeapRange : n < i
    BY <1>0, <2>1, Sizes DEF HeapRange
  <2>3. \A n \in HeapRange : tables'[n \div Entries] # NULL
    BY <1>0, <1>s, <2>2 DEF HeapTablesInv
  <2> QED BY <1>s, <2>3 DEF HeapTablesInv, NULL
<1>4. StartInv' /\ PagedInv'
  BY <1>s DEF StartInv, PagedInv, Later, Paged, PagingIsOn, Stages
<1>5. leftover = NotMapped => IdentityInv'
  <2>1. frames = {} /\ page = [n \in Page |-> leftover]
    BY <1>0, <1>s DEF StartInv, Later
  <2>2. i' <= Frames /\ frames' = 0..(i' - 1)
    BY <1>0, <2>1, Sizes
  <2>3. \A n \in Page : ~(n < i')
    BY <1>0, Layout
  <2> QED BY <1>0, <2>1, <2>2, <2>3 DEF IdentityInv
<1>6. FramesApart' /\ HeapInv'
  BY <1>0, <1>s DEF FramesApart, HeapInv, PagingIsOn
<1> QED BY <1>0, <1>1, <1>2, <1>3, <1>4, <1>5, <1>6 DEF MemoryInv

----------------------------------------------------------------------------
(***************************************************************************)
(* One turn of a loop that maps a page, whichever loop it is.              *)
(***************************************************************************)
Mapping == stage \in {"identity", "heap frames"}

\* get_page and new_frame for one page keep the invariant of the memory.
LEMMA MapPageStep ==
  ASSUME MemoryInv, MapPage, Mapping
  PROVE  /\ MemoryTypeOK' /\ StartInv' /\ TablesApart' /\ HeapTablesInv'
         /\ FramesApart' /\ HeapInv'
         /\ leftover' = leftover /\ end' = end
         /\ \/ stage' = "out of memory"
            \/ stage' = stage /\ NewFrame(i) /\ i' = i + 1
         /\ tables[i \div Entries] # NULL => phys' = phys
<1>0. /\ MemoryTypeOK /\ StartInv /\ TablesApart /\ HeapTablesInv /\ FramesApart /\ HeapInv
      /\ GetPage(i)
      /\ end' = end /\ leftover' = leftover /\ heap' = heap /\ blocks' = blocks
  BY DEF MemoryInv, MapPage
<1>s. \/ stage' = "out of memory" /\ page' = page /\ frames' = frames
      \/ stage' = stage /\ NewFrame(i) /\ i' = i + 1
  BY DEF MapPage
<1>i. i \in Nat /\ i' \in Nat
  <2>1. i' = i \/ i' = i + 1
    BY DEF MapPage
  <2>2. i \in Nat
    BY <1>0 DEF MemoryTypeOK
  <2>3. CASE i' = i
    BY <2>2, <2>3
  <2>4. CASE i' = i + 1
    BY <2>2, <2>4
  <2> QED BY <2>1, <2>2, <2>3, <2>4
<1>t. /\ stage \in Later /\ stage' \in Later /\ stage' # "directory"
      /\ stage' # "heap tables" /\ stage # "directory"
      /\ ~PagingIsOn /\ ~PagingIsOn'
  BY <1>s DEF Mapping, Later, Stages, PagingIsOn
<1>1. /\ tables' \in [0..(Tables - 1) -> Nat] /\ phys' \in Nat /\ phys <= phys'
      /\ TablesApart'
      /\ \A t \in DOMAIN tables : tables[t] # NULL => tables'[t] # NULL
      /\ tables[i \div Entries] # NULL => phys' = phys /\ tables' = tables
  BY <1>0, <1>i, <1>t, GetPageStep
<1>2. /\ page' \in [Page -> PageEntry] /\ frames' \subseteq 0..(Frames - 1)
      /\ FramesApart'
  <2>1. CASE stage' = "out of memory" /\ page' = page /\ frames' = frames
    BY <1>0, <2>1 DEF FramesApart, MemoryTypeOK
  <2>2. CASE NewFrame(i)
    BY <1>0, <1>i, <2>2, NewFrameStep
  <2> QED BY <1>s, <2>1, <2>2
<1>3. MemoryTypeOK'
  <2>1. phys' >= end'
    <3>1. phys \in Nat /\ end \in Nat /\ phys >= end
      BY <1>0, MemoryAssumption DEF MemoryTypeOK
    <3>2. phys' \in Nat /\ phys <= phys'
      BY <1>1
    <3>3. end' = end
      BY <1>0
    <3> QED BY <3>1, <3>2, <3>3
  <2>2. stage' \in Stages
    BY <1>t DEF Later
  <2> QED BY <1>0, <1>1, <1>2, <1>i, <2>1, <2>2 DEF MemoryTypeOK
<1>4. HeapTablesInv'
  <2>1. ASSUME NEW n \in HeapRange PROVE tables'[n \div Entries] # NULL
    <3>1. n \div Entries \in DOMAIN tables
      BY <1>0, Layout DEF MemoryTypeOK
    <3>2. tables[n \div Entries] # NULL
      BY <1>0, <1>t DEF HeapTablesInv
    <3> QED BY <1>1, <3>1, <3>2
  <2> QED BY <1>t, <2>1 DEF HeapTablesInv, NULL
<1>5. StartInv'
  BY <1>t DEF StartInv
<1>6. HeapInv'
  BY <1>0, <1>t DEF HeapInv, PagingIsOn
<1> QED BY <1>0, <1>1, <1>2, <1>3, <1>4, <1>5, <1>6, <1>s

\* A page of the memory in use is mapped.
LEMMA IdentityMapKeeps == MemoryInv /\ IdentityMap => MemoryInv'
<1> SUFFICES ASSUME MemoryInv, IdentityMap PROVE MemoryInv'
  OBVIOUS
<1>s. stage = "identity" /\ MapPage
  BY DEF IdentityMap
<1>1. /\ MemoryTypeOK' /\ StartInv' /\ TablesApart' /\ HeapTablesInv'
      /\ FramesApart' /\ HeapInv' /\ leftover' = leftover
  BY <1>s, MapPageStep DEF Mapping
<1>2. stage' = "out of memory" \/ (stage' = "identity" /\ NewFrame(i) /\ i' = i + 1)
  BY <1>s, MapPageStep DEF Mapping
<1>3. PagedInv'
  BY <1>2 DEF PagedInv, Paged, PagingIsOn
<1>4. ASSUME leftover = NotMapped, stage' # "out of memory"
      PROVE  /\ i' <= Frames /\ frames' = 0..(i' - 1)
             /\ \A n \in Page :
                  page'[n] = IF n < i' THEN [present |-> TRUE, frame |-> n] ELSE NotMapped
  <2>0. IdentityInv
    BY <1>4 DEF MemoryInv
  <2>1. i \in Nat /\ i <= Frames /\ frames = 0..(i - 1)
    BY <2>0, <1>s DEF MemoryInv, MemoryTypeOK, IdentityInv
  <2>2. \A n \in Page :
          page[n] = IF n < i THEN [present |-> TRUE, frame |-> n] ELSE NotMapped
    BY <2>0, <1>s DEF IdentityInv
  <2>3. NewFrame(i) /\ i' = i + 1
    BY <1>2, <1>4
  <2>4. i \in Page
    <3>1. HeapPage \in Page
      BY Layout, Sizes DEF HeapRange
    <3> QED BY <2>1, <3>1, Sizes DEF Page
  <2>5. page[i] = NotMapped
    <3>1. ~(i < i)
      BY <2>1
    <3> QED BY <2>2, <2>4, <3>1
  <2>6. /\ Min(Free) \in Free /\ (\A f \in Free : Min(Free) <= f)
        /\ page'[i] = [present |-> TRUE, frame |-> Min(Free)]
        /\ frames' = frames \cup {Min(Free)}
        /\ \A m \in Page : m # i => page'[m] = page[m]
    BY <1>1, <2>1, <2>3, <2>4, <2>5, NewFrameStep DEF MemoryInv
  <2> DEFINE least == Min(Free)
  <2>7. least \in Free /\ \A f \in Free : least <= f
    BY <2>6
  <2> HIDE DEF least
  <2>8. least \in Nat /\ i <= least /\ least < Frames
    BY <2>1, <2>7, Sizes DEF Free
  <2>9. i \in Free
    BY <2>1, <2>8, Sizes DEF Free
  <2>10. least = i
    BY <2>1, <2>7, <2>8, <2>9
  <2>11. page'[i] = [present |-> TRUE, frame |-> i] /\ frames' = frames \cup {i}
    BY <2>6, <2>10 DEF least
  <2>12. i' <= Frames /\ frames' = 0..(i' - 1)
    BY <2>1, <2>3, <2>8, <2>10, <2>11, Sizes
  <2>13. \A n \in Page : n < i' <=> n < i \/ n = i
    BY <2>1, <2>3, Layout
  <2> QED BY <2>2, <2>6, <2>11, <2>12, <2>13
<1>5. leftover = NotMapped => IdentityInv'
  BY <1>4 DEF IdentityInv
<1> QED BY <1>1, <1>3, <1>5 DEF MemoryInv

\* All the memory in use is mapped.
LEMMA IdentityDoneKeeps == MemoryInv /\ IdentityDone => MemoryInv'
<1> SUFFICES ASSUME MemoryInv, IdentityDone PROVE MemoryInv'
  OBVIOUS
<1>0. /\ MemoryTypeOK /\ StartInv /\ TablesApart /\ HeapTablesInv /\ FramesApart /\ HeapInv
      /\ ~Maps(i) /\ i' = HeapPage
      /\ end' = end /\ phys' = phys /\ leftover' = leftover /\ tables' = tables
      /\ page' = page /\ frames' = frames /\ heap' = heap /\ blocks' = blocks
  BY DEF MemoryInv, IdentityDone
<1>s. stage = "identity" /\ stage' = "heap frames"
  BY DEF IdentityDone
<1>1. MemoryTypeOK'
  BY <1>0, <1>s, Sizes DEF MemoryTypeOK, Stages
<1>2. TablesApart'
  BY <1>0, <1>s DEF TablesApart, Made, Directory, Aligned, IsAligned, Apart, PageSize
<1>3. HeapTablesInv' /\ StartInv' /\ IdentityInv'
  BY <1>0, <1>s DEF HeapTablesInv, StartInv, IdentityInv, Later, Stages, NULL
<1>4. leftover = NotMapped => PagedInv'
  <2> SUFFICES ASSUME leftover = NotMapped PROVE PagedInv'
    OBVIOUS
  <2>0. IdentityInv
    BY DEF MemoryInv
  <2>1. i \in Nat /\ i <= Frames /\ phys \in Nat
    BY <2>0, <1>0, <1>s DEF MemoryTypeOK, IdentityInv
  <2>2. \A n \in Page :
          page[n] = IF n < i THEN [present |-> TRUE, frame |-> n] ELSE NotMapped
    BY <2>0, <1>s DEF IdentityInv
  <2>3. ASSUME NEW n \in 1..((phys - 1) \div PageSize)
        PROVE  n < Frames /\ page[n] = [present |-> TRUE, frame |-> n]
    <3>1. phys - 1 \in Nat
      BY <2>1, <2>3, Sizes
    <3>2. n \in Nat /\ n <= (phys - 1) \div PageSize /\ (phys - 1) \div PageSize \in Nat
      BY <2>3, <3>1, Sizes, DivBounds
    <3>3. n * PageSize <= ((phys - 1) \div PageSize) * PageSize
      BY <3>2, Sizes, MulMono
    <3>4. ((phys - 1) \div PageSize) * PageSize <= phys - 1
      BY <3>1, Sizes, DivBounds
    <3>5. n * PageSize <= phys - 1
      BY <3>1, <3>2, <3>3, <3>4, Sizes
    <3>6. phys + SlackPages * PageSize <= i * PageSize
      BY <1>0, <2>1, Sizes DEF Maps
    <3>7. n * PageSize < i * PageSize
      BY <2>1, <3>2, <3>5, <3>6, Sizes
    <3>8. n < i
      <4>1. SUFFICES ASSUME i <= n PROVE FALSE
        BY <2>1, <3>2
      <4>2. i * PageSize <= n * PageSize
        BY <2>1, <3>2, <4>1, Sizes, MulMono
      <4> QED BY <2>1, <3>2, <3>7, <4>2, Sizes
    <3>9. n \in Page
      <4>1. HeapPage \in Page
        BY Layout, Sizes DEF HeapRange
      <4> QED BY <2>1, <3>2, <3>8, <4>1, Sizes DEF Page
    <3> QED BY <2>1, <2>2, <3>2, <3>8, <3>9, Sizes
  <2>4. \A n \in HeapRange : n \in Page /\ ~(n < i) /\ ~(n < i')
    BY <1>0, <2>1, Layout, Sizes DEF HeapRange
  <2>5. \A n \in HeapRange : IF n < i' THEN page[n].present ELSE page[n] = NotMapped
    BY <2>2, <2>4
  <2>6. i' \in HeapPage..(HeapPage + HeapPages)
    BY <1>0, Sizes
  <2>7. ~PagingIsOn'
    BY <1>s DEF PagingIsOn
  <2> QED BY <1>0, <2>3, <2>5, <2>6, <2>7 DEF PagedInv, PageSize
<1>5. FramesApart' /\ HeapInv'
  BY <1>0, <1>s DEF FramesApart, HeapInv, PagingIsOn
<1> QED BY <1>0, <1>1, <1>2, <1>3, <1>4, <1>5 DEF MemoryInv

\* A page of the heap gets its frame; the tables are all there.
LEMMA HeapFrameKeeps == MemoryInv /\ HeapFrame => MemoryInv'
<1> SUFFICES ASSUME MemoryInv, HeapFrame PROVE MemoryInv'
  OBVIOUS
<1>s. stage = "heap frames" /\ MapPage /\ i \in HeapRange
  BY DEF HeapFrame
<1>0. HeapTablesInv /\ MemoryTypeOK /\ FramesApart
  BY DEF MemoryInv
<1>1. /\ MemoryTypeOK' /\ StartInv' /\ TablesApart' /\ HeapTablesInv'
      /\ FramesApart' /\ HeapInv' /\ leftover' = leftover
  BY <1>s, MapPageStep DEF Mapping
<1>2. stage' = "out of memory" \/ (stage' = "heap frames" /\ NewFrame(i) /\ i' = i + 1)
  BY <1>s, MapPageStep DEF Mapping
<1>3. IdentityInv'
  BY <1>2 DEF IdentityInv
<1>4. phys' = phys
  <2>1. tables[i \div Entries] # NULL
    BY <1>s, <1>0 DEF HeapTablesInv, Later, Stages
  <2> QED BY <1>s, <2>1, MapPageStep DEF Mapping
<1>5. ASSUME leftover = NotMapped PROVE PagedInv'
  <2>1. CASE stage' = "out of memory"
    BY <2>1 DEF PagedInv, Paged, PagingIsOn
  <2>2. CASE stage' = "heap frames" /\ NewFrame(i) /\ i' = i + 1
    <3>0. NewFrame(i) /\ i' = i + 1 /\ i \in HeapRange
      BY <1>s, <2>2
    <3>1. i \in Nat /\ i \in Page /\ i >= Frames
      BY <3>0, Layout
    <3>2. /\ i \in HeapPage..(HeapPage + HeapPages)
          /\ \A n \in HeapRange : IF n < i THEN page[n].present ELSE page[n] = NotMapped
          /\ \A n \in 1..((phys - 1) \div PageSize) :
               n < Frames /\ page[n] = [present |-> TRUE, frame |-> n]
      BY <1>5, <1>s DEF MemoryInv, PagedInv, Paged
    <3>3. ~(i < i)
      BY <3>1
    <3>4. page[i] = NotMapped
      BY <3>0, <3>2, <3>3
    <3>5. /\ \A m \in Page : m # i => page'[m] = page[m]
          /\ page'[i] = [present |-> TRUE, frame |-> Min(Free)]
      BY <1>0, <1>1, <3>0, <3>1, <3>4, NewFrameStep
    <3>6. page'[i].present
      BY <3>5
    <3>7. ASSUME NEW n \in 1..((phys' - 1) \div PageSize)
          PROVE  n < Frames /\ page'[n] = [present |-> TRUE, frame |-> n]
      <4>1. n < Frames /\ page[n] = [present |-> TRUE, frame |-> n]
        BY <1>4, <3>2, <3>7
      <4>2. n \in Nat
        <5>1. n \in Int /\ n >= 1
          BY <3>7
        <5> QED BY <5>1
      <4>3. n # i
        BY <3>1, <4>1, <4>2, Sizes
      <4>4. n \in Page
        <5>1. HeapPage \in Page
          BY Layout, Sizes DEF HeapRange
        <5> QED BY <4>1, <4>2, <5>1, Sizes DEF Page
      <4> QED BY <3>5, <4>1, <4>3, <4>4
    <3>8. ASSUME NEW n \in HeapRange
          PROVE  IF n < i' THEN page'[n].present ELSE page'[n] = NotMapped
      <4>1. n \in Nat /\ n \in Page
        BY Layout
      <4>2. CASE n = i
        <5>1. n < i'
          BY <3>0, <3>1, <4>2
        <5> QED BY <3>6, <4>2, <5>1
      <4>3. CASE n # i
        <5>1. n < i' <=> n < i
          BY <3>0, <3>1, <4>1, <4>3
        <5> QED BY <3>2, <3>5, <4>1, <4>3, <5>1
      <4> QED BY <4>2, <4>3
    <3>9. i' \in HeapPage..(HeapPage + HeapPages)
      BY <3>0, <3>1, Sizes DEF HeapRange
    <3>10. ~PagingIsOn'
      BY <2>2 DEF PagingIsOn
    <3> QED BY <3>7, <3>8, <3>9, <3>10 DEF PagedInv, PageSize
  <2> QED BY <1>2, <2>1, <2>2
<1> QED BY <1>1, <1>3, <1>5 DEF MemoryInv

\* Page 0 is taken out, which is none of the heap's and none in use.
LEMMA EnablePagingKeeps == MemoryInv /\ EnablePaging => MemoryInv'
<1> SUFFICES ASSUME MemoryInv, EnablePaging PROVE MemoryInv'
  OBVIOUS
<1>0. /\ MemoryTypeOK /\ StartInv /\ TablesApart /\ HeapTablesInv /\ FramesApart /\ HeapInv
      /\ i \notin HeapRange /\ page' = [page EXCEPT ![0] = NotMapped]
      /\ i' = i /\ end' = end /\ phys' = phys /\ leftover' = leftover
      /\ tables' = tables /\ frames' = frames /\ heap' = heap /\ blocks' = blocks
  BY DEF MemoryInv, EnablePaging
<1>s. stage = "heap frames" /\ stage' = "running"
  BY DEF EnablePaging
<1>p. /\ page' \in [Page -> PageEntry]
      /\ \A n \in Page : page'[n] = IF n = 0 THEN NotMapped ELSE page[n]
  <2>1. page \in [Page -> PageEntry] /\ NotMapped \in PageEntry
    BY <1>0 DEF MemoryTypeOK, NotMapped, PageEntry
  <2> QED BY <1>0, <2>1
<1>1. MemoryTypeOK'
  BY <1>0, <1>s, <1>p DEF MemoryTypeOK, Stages
<1>2. TablesApart'
  BY <1>0, <1>s DEF TablesApart, Made, Directory, Aligned, IsAligned, Apart, PageSize
<1>3. HeapTablesInv' /\ StartInv' /\ IdentityInv'
  BY <1>0, <1>s DEF HeapTablesInv, StartInv, IdentityInv, Later, Stages, NULL
<1>4. FramesApart'
  BY <1>0, <1>p DEF FramesApart, NotMapped
<1>5. HeapInv'
  <2>1. blocks' = {} /\ heap' = HeapBase
    BY <1>0, <1>s DEF HeapInv, PagingIsOn
  <2>2. HeapBase <= HeapEnd
    BY HeapBounds
  <2> QED BY <1>s, <2>1, <2>2 DEF HeapInv, PagingIsOn, HeapBase, HeapEnd, PageSize
<1>6. ASSUME leftover = NotMapped PROVE PagedInv'
  <2>1. /\ i \in HeapPage..(HeapPage + HeapPages)
        /\ \A n \in HeapRange : IF n < i THEN page[n].present ELSE page[n] = NotMapped
        /\ \A n \in 1..((phys - 1) \div PageSize) :
             n < Frames /\ page[n] = [present |-> TRUE, frame |-> n]
    BY <1>6, <1>s DEF MemoryInv, PagedInv, Paged
  <2>2. \A n \in HeapRange : n < i /\ n # 0 /\ n \in Page
    <3>1. \A n \in HeapRange : n < i
      BY <1>0, <2>1, Sizes DEF HeapRange
    <3> QED BY <3>1, Layout, Sizes
  <2>3. \A n \in HeapRange : page'[n].present
    BY <1>p, <2>1, <2>2
  <2>4. ~page'[0].present
    BY <1>p, Layout DEF NotMapped
  <2>5. ASSUME NEW n \in 1..((phys' - 1) \div PageSize)
        PROVE  n < Frames /\ page'[n] = [present |-> TRUE, frame |-> n]
    <3>1. n < Frames /\ page[n] = [present |-> TRUE, frame |-> n]
      BY <1>0, <2>1, <2>5
    <3>2. n \in Int /\ n >= 1
      BY <2>5
    <3>3. n \in Page
      <4>1. HeapPage \in Page
        BY Layout, Sizes DEF HeapRange
      <4> QED BY <3>1, <3>2, <4>1, Sizes DEF Page
    <3>4. n # 0
      BY <3>2
    <3> QED BY <1>p, <3>1, <3>3, <3>4
  <2> QED BY <1>s, <2>3, <2>4, <2>5 DEF PagedInv, PageSize
<1> QED BY <1>0, <1>1, <1>2, <1>3, <1>4, <1>5, <1>6 DEF MemoryInv

\* Every step of vm_init keeps the invariant.
LEMMA VmInitKeeps == MemoryInv /\ VmInit => MemoryInv'
  BY MakeDirectoryKeeps, HeapTableKeeps, HeapTablesDoneKeeps, IdentityMapKeeps,
     IdentityDoneKeeps, HeapFrameKeeps, EnablePagingKeeps DEF VmInit

----------------------------------------------------------------------------
\* What stays when the heap only is used.
LEMMA HeapStepKeeps ==
  ASSUME MemoryInv, PagingIsOn, stage' \in {"running", "heap full"},
         UNCHANGED <<i, end, phys, leftover, tables, page, frames>>,
         heap' \in Nat, heap' >= HeapBase, blocks' \subseteq [base : Nat, size : Nat],
         HeapInv'
  PROVE  MemoryInv'
<1>0. /\ MemoryTypeOK /\ StartInv /\ TablesApart /\ HeapTablesInv /\ FramesApart
      /\ i' = i /\ end' = end /\ phys' = phys /\ leftover' = leftover
      /\ tables' = tables /\ page' = page /\ frames' = frames
      /\ stage \in {"running", "heap full"}
  BY DEF MemoryInv, PagingIsOn
<1>1. MemoryTypeOK'
  BY <1>0 DEF MemoryTypeOK, Stages, HeapBase, PageSize
<1>2. TablesApart'
  BY <1>0 DEF TablesApart, Made, Directory, Aligned, IsAligned, Apart, PageSize
<1>3. HeapTablesInv' /\ StartInv' /\ IdentityInv'
  BY <1>0 DEF HeapTablesInv, StartInv, IdentityInv, Later, Stages, NULL
<1>4. FramesApart'
  BY <1>0 DEF FramesApart
<1>5. leftover = NotMapped => PagedInv'
  BY <1>0 DEF MemoryInv, PagedInv, Paged, PagingIsOn, PageSize
<1> QED BY <1>0, <1>1, <1>2, <1>3, <1>4, <1>5 DEF MemoryInv

\* kmalloc over the heap: the next block lies behind all others.
LEMMA KmallocKeeps == MemoryInv /\ Kmalloc => MemoryInv'
<1> SUFFICES ASSUME MemoryInv, NEW size \in Requests, Allocate(size) \/ HeapIsFull(size)
             PROVE  MemoryInv'
  BY DEF Kmalloc
<1>0. /\ MemoryTypeOK /\ HeapInv /\ PagingIsOn /\ heap' = heap + size
      /\ UNCHANGED <<i, end, phys, leftover, tables, page, frames>>
  BY DEF MemoryInv, Allocate, HeapIsFull, PagingIsOn
<1>1. size \in Nat /\ size # 0 /\ heap \in Nat /\ heap >= HeapBase /\ HeapBase \in Nat
      /\ HeapEnd \in Nat
  BY <1>0, MemoryAssumption, HeapBounds DEF MemoryTypeOK
<1>2. heap' \in Nat /\ heap' >= HeapBase /\ heap <= heap'
  BY <1>0, <1>1
<1>3. blocks \subseteq [base : Nat, size : Nat]
  BY <1>0 DEF MemoryTypeOK
<1>4. \A b \in blocks :
        /\ HeapBase <= b.base /\ b.size # 0
        /\ b.base + b.size <= heap /\ b.base + b.size <= HeapEnd
        /\ \A c \in blocks : b = c \/ b.base + b.size <= c.base
                                  \/ c.base + c.size <= b.base
  BY <1>0 DEF HeapInv
<1>5. \A b \in blocks : b.base \in Nat /\ b.size \in Nat /\ b.base + b.size <= heap'
  BY <1>0, <1>1, <1>2, <1>3, <1>4
<1>6. CASE Allocate(size)
  <2> DEFINE new == [base |-> heap, size |-> size]
  <2>1. heap + size <= HeapEnd /\ blocks' = blocks \cup {new}
    BY <1>6 DEF Allocate, Fits
  <2>2. new.base = heap /\ new.size = size /\ new \in [base : Nat, size : Nat]
    BY <1>1
  <2> HIDE DEF new
  <2>3. ASSUME NEW b \in blocks'
        PROVE  /\ HeapBase <= b.base /\ b.size # 0
               /\ b.base + b.size <= heap' /\ b.base + b.size <= HeapEnd
    BY <1>0, <1>1, <1>4, <1>5, <2>1, <2>2, <2>3
  <2>4. ASSUME NEW b \in blocks', NEW c \in blocks'
        PROVE  b = c \/ b.base + b.size <= c.base \/ c.base + c.size <= b.base
    BY <1>4, <2>1, <2>2, <2>4
  <2>5. heap' <= HeapEnd
    BY <1>0, <2>1
  <2>6. stage' = "running"
    BY <1>6 DEF Allocate
  <2>7. HeapInv'
    BY <2>3, <2>4, <2>5, <2>6 DEF HeapInv, PagingIsOn, HeapBase, HeapEnd, PageSize
  <2>8. blocks' \subseteq [base : Nat, size : Nat]
    BY <1>3, <2>1, <2>2
  <2> QED BY <1>0, <1>2, <2>6, <2>7, <2>8, HeapStepKeeps
<1>7. CASE HeapIsFull(size)
  <2>1. blocks' = blocks /\ stage' = "heap full"
    BY <1>7 DEF HeapIsFull
  <2>2. HeapInv'
    BY <1>4, <1>5, <2>1 DEF HeapInv, PagingIsOn, HeapBase, HeapEnd, PageSize
  <2> QED BY <1>0, <1>2, <1>3, <2>1, <2>2, HeapStepKeeps
<1> QED BY <1>6, <1>7

----------------------------------------------------------------------------
(***************************************************************************)
(* The boot: what is set up by which step of kmain.                        *)
(***************************************************************************)
BootInv ==
  /\ MemoryInv
  /\ step \in 0..8
  /\ step < 7 => stage = "directory"
  /\ step = 7 => ~PagingIsOn
  /\ step = 8 => PagingIsOn
  /\ port \in BOOLEAN /\ segments \in BOOLEAN /\ idtr \in BOOLEAN /\ enabled \in BOOLEAN
  /\ step >= 1 => port
  /\ step >= 2 => segments
  /\ step >= 3 => idtr
  /\ gate \in [0..255 -> {"none", "panic", "rtc_isr", "sys_call_isr"}]
  /\ step >= 5 => gate = [v \in 0..255 |-> Handler(v)]
  /\ enabled <=> step >= 7
  /\ masked \in {{}, Mask}
  /\ step >= 6 => masked = Mask
  /\ vector \in {<<8, 112>>, <<32, 40>>}
  /\ pending \subseteq Lines

\* Where each call of kmain is.
LEMMA StepAt ==
  ASSUME step \in Nat
  PROVE  /\ At("serial") <=> step = 0
         /\ At("gdt") <=> step = 1
         /\ At("idt") <=> step = 2
         /\ At("cli") <=> step = 3
         /\ At("irq") <=> step = 4
         /\ At("pic") <=> step = 5
         /\ At("sti") <=> step = 6
         /\ At("vm") <=> step = 7
<1>1. /\ Len(Steps) = 8
      /\ Steps[1] = "serial" /\ Steps[2] = "gdt" /\ Steps[3] = "idt" /\ Steps[4] = "cli"
      /\ Steps[5] = "irq" /\ Steps[6] = "pic" /\ Steps[7] = "sti" /\ Steps[8] = "vm"
  BY DEF Steps
<1>2. step < 8 => step \in {0, 1, 2, 3, 4, 5, 6, 7}
  OBVIOUS
<1> QED BY <1>1, <1>2 DEF At

\* The memory is as it was when the tables and the addresses are.
LEMMA MemoryStays == MemoryInv /\ UNCHANGED memory => MemoryInv'
<1> SUFFICES ASSUME MemoryInv, UNCHANGED memory PROVE MemoryInv'
  OBVIOUS
<1>1. /\ stage' = stage /\ i' = i /\ end' = end /\ phys' = phys /\ leftover' = leftover
      /\ tables' = tables /\ page' = page /\ frames' = frames /\ heap' = heap
      /\ blocks' = blocks
  BY DEF memory
<1>2. MemoryTypeOK' = MemoryTypeOK /\ StartInv' = StartInv /\ HeapTablesInv' = HeapTablesInv
  BY <1>1 DEF MemoryTypeOK, StartInv, HeapTablesInv
<1>3. TablesApart' = TablesApart
  BY <1>1 DEF TablesApart, Made, Directory, Aligned
<1>4. FramesApart' = FramesApart /\ HeapInv' = HeapInv
  BY <1>1 DEF FramesApart, HeapInv, PagingIsOn
<1>5. IdentityInv' = IdentityInv /\ PagedInv' = PagedInv
  BY <1>1 DEF IdentityInv, PagedInv, PagingIsOn
<1> QED BY <1>1, <1>2, <1>3, <1>4, <1>5 DEF MemoryInv

\* A step of kmain that leaves the memory alone.
LEMMA SetupKeeps ==
  ASSUME BootInv, NEW k \in 0..6, step = k, step' = k + 1, UNCHANGED memory
  PROVE  /\ MemoryInv' /\ step' \in 0..8 /\ stage' = "directory"
         /\ ~PagingIsOn' /\ step' # 8
<1>1. MemoryInv'
  BY MemoryStays DEF BootInv
<1>2. step < 7 /\ step' \in 0..8 /\ step' # 8
  OBVIOUS
<1>3. stage = "directory"
  BY <1>2 DEF BootInv
<1>4. stage' = stage
  BY DEF memory
<1> QED BY <1>1, <1>2, <1>3, <1>4 DEF PagingIsOn

\* Every step of kmain keeps the invariant.
LEMMA KmainKeeps == BootInv /\ Kmain => BootInv'
<1> SUFFICES ASSUME BootInv, Kmain PROVE BootInv'
  OBVIOUS
<1>0. step \in Nat
  BY DEF BootInv
<1>1. CASE SerialInit
  <2>1. step = 0 /\ step' = 0 + 1 /\ UNCHANGED memory
    BY <1>0, <1>1, StepAt DEF SerialInit, Done
  <2> QED BY <1>1, <2>1, SetupKeeps DEF SerialInit, BootInv
<1>2. CASE GdtInit
  <2>1. step = 1 /\ step' = 1 + 1 /\ UNCHANGED memory
    BY <1>0, <1>2, StepAt DEF GdtInit, Done
  <2> QED BY <1>2, <2>1, SetupKeeps DEF GdtInit, BootInv
<1>3. CASE IdtInit
  <2>1. step = 2 /\ step' = 2 + 1 /\ UNCHANGED memory
    BY <1>0, <1>3, StepAt DEF IdtInit, Done
  <2> QED BY <1>3, <2>1, SetupKeeps DEF IdtInit, BootInv
<1>4. CASE SetFlag
  <2>1. /\ step = 3 \/ step = 6
        /\ step' = step + 1 /\ UNCHANGED memory
        /\ enabled' \in BOOLEAN /\ (enabled' <=> step = 6)
    <3>1. (At("cli") <=> step = 3) /\ (At("sti") <=> step = 6)
      BY <1>0, StepAt
    <3>2. At("sti") \in BOOLEAN
      BY DEF At
    <3>3. /\ At("cli") \/ At("sti")
          /\ enabled' = At("sti") /\ step' = step + 1 /\ UNCHANGED memory
      BY <1>4 DEF SetFlag, Done
    <3> QED BY <3>1, <3>2, <3>3, Zenon
  <2>2. MemoryInv' /\ step' \in 0..8 /\ stage' = "directory" /\ ~PagingIsOn' /\ step' # 8
    BY <2>1, SetupKeeps
  <2> QED BY <1>4, <2>1, <2>2 DEF SetFlag, BootInv
<1>5. CASE IrqInit
  <2>1. step = 4 /\ step' = 4 + 1 /\ UNCHANGED memory
    BY <1>0, <1>5, StepAt DEF IrqInit, Done
  <2>2. /\ gate' = [v \in 0..255 |-> Handler(v)]
        /\ gate' \in [0..255 -> {"none", "panic", "rtc_isr", "sys_call_isr"}]
    BY <1>5 DEF IrqInit, Handler
  <2> QED BY <1>5, <2>1, <2>2, SetupKeeps DEF IrqInit, BootInv
<1>6. CASE PicInit
  <2>1. step = 5 /\ step' = 5 + 1 /\ UNCHANGED memory
    BY <1>0, <1>6, StepAt DEF PicInit, Done
  <2> QED BY <1>6, <2>1, SetupKeeps DEF PicInit, BootInv
<1>7. CASE VmStep
  <2>1. /\ step = 7 /\ VmInit
        /\ step' = IF stage' = "running" THEN step + 1 ELSE step
        /\ UNCHANGED <<port, segments, idtr, gate, enabled, masked, vector, pending>>
    BY <1>0, <1>7, StepAt DEF VmStep
  <2>2. MemoryInv'
    BY <2>1, VmInitKeeps DEF BootInv
  <2>3. stage' # "heap full"
    BY <2>1 DEF VmInit, MakeDirectory, HeapTable, HeapTablesDone, IdentityMap,
                IdentityDone, HeapFrame, MapPage, EnablePaging, BootInv, PagingIsOn
  <2>4. \/ step' = 8 /\ PagingIsOn'
        \/ step' = 7 /\ ~PagingIsOn'
    <3>1. step = 7 /\ step + 1 = 8
      BY <2>1
    <3>2. CASE stage' = "running"
      BY <2>1, <3>1, <3>2 DEF PagingIsOn
    <3>3. CASE stage' # "running"
      BY <2>1, <2>3, <3>1, <3>3 DEF PagingIsOn
    <3> QED BY <3>2, <3>3
  <2> QED BY <2>1, <2>2, <2>4 DEF BootInv
<1> QED BY <1>1, <1>2, <1>3, <1>4, <1>5, <1>6, <1>7 DEF Kmain

\* Every other step of the machine, too.
LEMMA BootKeeps == BootInv /\ [Next]_vars => BootInv'
<1> SUFFICES ASSUME BootInv, [Next]_vars PROVE BootInv'
  OBVIOUS
<1>1. CASE Kmain
  BY <1>1, KmainKeeps
<1>2. CASE Run
  <2>1. step = 8 /\ Kmalloc /\ UNCHANGED machine
    BY <1>2 DEF Run, Steps
  <2>2. MemoryInv'
    BY <2>1, KmallocKeeps DEF BootInv
  <2>3. PagingIsOn'
    BY <2>1 DEF Kmalloc, Allocate, HeapIsFull, PagingIsOn
  <2> QED BY <2>1, <2>2, <2>3 DEF BootInv, machine
<1>3. ASSUME NEW line \in Lines, Raise(line) PROVE BootInv'
  <2>1. MemoryInv' /\ stage' = stage
    BY <1>3, MemoryStays DEF Raise, BootInv, memory
  <2>2. /\ step' = step /\ port' = port /\ segments' = segments /\ idtr' = idtr
        /\ gate' = gate /\ enabled' = enabled /\ masked' = masked /\ vector' = vector
        /\ pending' = pending \cup {line}
    BY <1>3 DEF Raise
  <2>3. pending' \subseteq Lines
    BY <2>2 DEF BootInv
  <2>4. PagingIsOn' = PagingIsOn
    BY <2>1 DEF PagingIsOn
  <2> QED BY <2>1, <2>2, <2>3, <2>4 DEF BootInv
<1>4. CASE UNCHANGED vars
  <2>1. MemoryInv' /\ stage' = stage
    BY <1>4, MemoryStays DEF vars, BootInv, memory
  <2>2. /\ step' = step /\ port' = port /\ segments' = segments /\ idtr' = idtr
        /\ gate' = gate /\ enabled' = enabled /\ masked' = masked /\ vector' = vector
        /\ pending' = pending
    BY <1>4 DEF vars, machine
  <2>3. PagingIsOn' = PagingIsOn
    BY <2>1 DEF PagingIsOn
  <2> QED BY <2>1, <2>2, <2>3 DEF BootInv
<1> QED BY <1>1, <1>2, <1>3, <1>4 DEF Next, Stopped

\* At reset.
LEMMA BootStart == Init => BootInv
<1> SUFFICES ASSUME Init PROVE BootInv
  OBVIOUS
<1>1. MemoryInv /\ stage = "directory" /\ ~PagingIsOn
  BY MemoryStart DEF Init, MemoryInit, PagingIsOn
<1>2. step = 0
  BY DEF Init
<1>3. /\ step \in 0..8 /\ step < 7 /\ step # 7 /\ step # 8
      /\ ~(step >= 1) /\ ~(step >= 2) /\ ~(step >= 3) /\ ~(step >= 5) /\ ~(step >= 6)
      /\ ~(step >= 7)
  BY <1>2
<1>4. gate \in [0..255 -> {"none", "panic", "rtc_isr", "sys_call_isr"}]
  BY DEF Init
<1> QED BY <1>1, <1>3, <1>4 DEF Init, BootInv

(***************************************************************************)
(* The invariant of the boot holds in every state: the order of the steps  *)
(* of kmain, what each has installed, and the invariant of the memory.     *)
(***************************************************************************)
THEOREM BootInvariance == Spec => []BootInv
<1>1. Init => BootInv
  BY BootStart
<1>2. BootInv /\ [Next]_vars => BootInv'
  BY BootKeeps
<1> QED BY <1>1, <1>2, PTL DEF Spec

----------------------------------------------------------------------------
\* Every variable of the boot keeps its type.
THEOREM TypesHold == Spec => []TypeOK
<1>1. BootInv => TypeOK
  <2> SUFFICES ASSUME BootInv PROVE TypeOK
    OBVIOUS
  <2>1. MemoryTypeOK
    BY DEF BootInv, MemoryInv
  <2>2. step \in 0..Len(Steps)
    BY DEF BootInv, Steps
  <2> QED BY <2>1, <2>2 DEF TypeOK, BootInv, Mask
<1> QED BY <1>1, BootInvariance, PTL

\* The page tables overlap neither each other nor what was there before.
THEOREM TablesStayApart == Spec => []TablesApart
<1>1. BootInv => TablesApart
  BY DEF BootInv, MemoryInv
<1> QED BY <1>1, BootInvariance, PTL

\* No frame is given to two pages.
THEOREM FramesStayApart == Spec => []FramesApart
<1>1. BootInv => FramesApart
  BY DEF BootInv, MemoryInv
<1> QED BY <1>1, BootInvariance, PTL

\* When paging goes on, the kernel is still where it was.
THEOREM KernelStaysInPlace == Spec => []UsedMemoryStays
<1>1. BootInv => UsedMemoryStays
  BY DEF BootInv, MemoryInv, PagedInv, Paged, PagingIsOn, UsedMemoryStays
<1> QED BY <1>1, BootInvariance, PTL

\* What sys_alloc_mem gives out overlaps nothing and is mapped.
THEOREM BlocksStayApart == Spec => []BlocksApart
<1>1. MemoryInv => BlocksApart
  <2> SUFFICES ASSUME MemoryInv, NEW b \in blocks
               PROVE  /\ \A c \in blocks : b = c \/ b.base + b.size <= c.base
                                                \/ c.base + c.size <= b.base
                      /\ leftover = NotMapped =>
                         \A n \in (b.base \div PageSize)..((b.base + b.size - 1) \div PageSize) :
                           page[n].present
    BY DEF BlocksApart
  <2>1. /\ HeapBase <= b.base /\ b.size # 0 /\ b.base + b.size <= HeapEnd
        /\ \A c \in blocks : b = c \/ b.base + b.size <= c.base
                                   \/ c.base + c.size <= b.base
    BY DEF MemoryInv, HeapInv
  <2>2. PagingIsOn
    BY DEF MemoryInv, HeapInv
  <2>3. b.base \in Nat /\ b.size \in Nat
    BY DEF MemoryInv, MemoryTypeOK
  <2>4. ASSUME leftover = NotMapped,
               NEW n \in (b.base \div PageSize)..((b.base + b.size - 1) \div PageSize)
        PROVE  page[n].present
    <3> DEFINE last == b.base + b.size - 1
    <3>1. last \in Nat /\ last < HeapEnd
      BY <2>1, <2>3, HeapBounds
    <3>2. HeapPage <= b.base \div PageSize
      BY <2>1, <2>3, Sizes, DivAtLeast DEF HeapBase
    <3>3. last \div PageSize < HeapPage + HeapPages
      <4> HIDE DEF last
      <4>1. HeapPage + HeapPages \in Nat
        BY Sizes
      <4> QED BY <3>1, <4>1, Sizes, DivBelow DEF HeapEnd
    <3>4. b.base \div PageSize \in Nat /\ last \div PageSize \in Nat
      <4> HIDE DEF last
      <4> QED BY <2>3, <3>1, Sizes, DivBounds
    <3>5. n \in HeapRange
      BY <3>2, <3>3, <3>4, <2>4, Sizes DEF HeapRange
    <3> QED BY <2>2, <2>4, <3>5 DEF MemoryInv, PagedInv
  <2> QED BY <2>1, <2>4
<1>2. BootInv => MemoryInv
  BY DEF BootInv
<1> QED BY <1>1, <1>2, BootInvariance, PTL

\* No device interrupts the kernel at any moment of the boot or after it.
THEOREM DevicesAreHeld == Spec => []NoDeviceInterrupts
<1>1. BootInv => NoDeviceInterrupts
  <2> SUFFICES ASSUME BootInv, enabled PROVE pending \subseteq masked
    BY DEF NoDeviceInterrupts
  <2>1. step >= 7 /\ pending \subseteq Lines /\ step \in 0..8
    BY DEF BootInv
  <2>2. step >= 6
    BY <2>1
  <2>3. masked = Mask
    BY <2>2 DEF BootInv
  <2> QED BY <2>1, <2>3, BootAssumption DEF Mask
<1> QED BY <1>1, BootInvariance, PTL

\* Faults but one panic, and a panic is heard.
THEOREM FaultsAreHeard == Spec => []FaultsAreReported
<1>1. BootInv => FaultsAreReported
  <2> SUFFICES ASSUME BootInv PROVE FaultsAreReported
    OBVIOUS
  <2>1. step \in 0..8
    BY DEF BootInv
  <2>2. PagingIsOn \/ Panicked => ~(step < 7)
    BY DEF BootInv, PagingIsOn, Panicked
  <2>3. ~(step < 7) => step >= 1 /\ step >= 2 /\ step >= 3 /\ step >= 5
    BY <2>1
  <2>4. PagingIsOn => segments /\ idtr /\ gate = [v \in 0..255 |-> Handler(v)]
    BY <2>2, <2>3 DEF BootInv
  <2>5. /\ \A v \in 0..31 \ {8} : Handler(v) = "panic"
        /\ Handler(8) # "none"
    BY DEF Handler, REQUIRED_INTERRUPTS, SystemCall, DoubleFault
  <2>6. Handler(96) = "sys_call_isr"
    BY DEF Handler, SystemCall, DoubleFault, REQUIRED_INTERRUPTS
  <2>7. PagingIsOn => gate[SystemCall] = "sys_call_isr"
    BY <2>4, <2>6 DEF SystemCall
  <2>8. PagingIsOn =>
          /\ \A v \in 0..(REQUIRED_INTERRUPTS - 1) \ {DoubleFault} : gate[v] = "panic"
          /\ gate[DoubleFault] # "none"
    BY <2>4, <2>5 DEF REQUIRED_INTERRUPTS, DoubleFault
  <2>9. Panicked => port
    BY <2>2, <2>3 DEF BootInv
  <2> QED BY <2>4, <2>7, <2>8, <2>9 DEF FaultsAreReported
<1> QED BY <1>1, BootInvariance, PTL

=============================================================================
