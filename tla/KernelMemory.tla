---------------------------- MODULE KernelMemory ----------------------------
(***************************************************************************)
(* The kernel's memory: kmalloc, the bitmap of frames and vm_init of       *)
(* kernel/core-c.c, and sys_alloc_mem of lib/core.c over them.             *)
(*                                                                         *)
(* Until paging is on kmalloc takes memory behind the image of the kernel; *)
(* the page directory and the page tables are made that way, while the     *)
(* loop runs that maps them.  After that it hands out the kernel heap,     *)
(* whose pages have frames of their own.                                   *)
(*                                                                         *)
(* Addresses count page entries (4 bytes).  In this unit a page, and a     *)
(* page table, is as long as a table has entries.  A loop over addresses   *)
(* is a loop over pages here: the addresses in one page ask for the same   *)
(* entry.                                                                  *)
(***************************************************************************)
EXTENDS Integers, FiniteSetsExt

CONSTANTS Entries,     \* entries of a page table (1024)
          Tables,      \* tables of the directory (1024)
          Frames,      \* NFRAMES
          HeapPage,    \* the first page of the heap, KHEAP_BASE / PAGE_SIZE
          HeapPages,   \* KHEAP_SIZE / PAGE_SIZE
          SlackPages,  \* the pages mapped behind the used memory (0x10000)
          KernelEnds,  \* the addresses the linker may give to __end
          Leftovers,   \* what the memory of a new page table may hold
          Requests     \* the sizes of the allocations

NULL == 0
PageSize == Entries
Page == 0..(Tables * Entries - 1)
HeapRange == HeapPage..(HeapPage + HeapPages - 1)
HeapBase == HeapPage * PageSize
HeapEnd == (HeapPage + HeapPages) * PageSize

PageEntry == [present : BOOLEAN, frame : Nat]
NotMapped == [present |-> FALSE, frame |-> 0]

\* The heap's addresses are beyond the physical memory and in the directory.
ASSUME MemoryAssumption ==
  /\ Entries \in Nat \ {0} /\ Tables \in Nat \ {0} /\ Frames \in Nat \ {0}
  /\ HeapPage \in Nat /\ HeapPages \in Nat \ {0} /\ SlackPages \in Nat \ {0}
  /\ Frames <= HeapPage /\ HeapRange \subseteq Page
  /\ KernelEnds \subseteq Nat /\ \A e \in KernelEnds : e >= PageSize
  /\ Leftovers \subseteq PageEntry
  /\ Requests \subseteq Nat \ {0}

VARIABLES stage,    \* where vm_init is, or what has become of the machine
          i,        \* the page its loop is at
          end,      \* the address of __end
          phys,     \* phys_alloc_addr
          leftover, \* what the memory behind the image held before
          tables,   \* the directory: the address of each table, or NULL
          page,     \* the entries of the tables
          frames,   \* the frames whose bit is set
          heap,     \* heap_addr
          blocks    \* what the heap has given out

memory == <<stage, i, end, phys, leftover, tables, page, frames, heap, blocks>>

----------------------------------------------------------------------------
(***************************************************************************)
(* kmalloc without a heap, page aligned.  An address that is aligned       *)
(* already goes to the next page too.                                      *)
(***************************************************************************)
\* Seeded fault: no alignment.
Unaligned(a) == a

Aligned(a) == IF a \div PageSize # 0 THEN (a \div PageSize + 1) * PageSize
              ELSE a

MakeDirectory ==
  /\ stage = "directory"
  /\ phys' = Aligned(phys) + 2 * PageSize
  /\ stage' = "heap tables" /\ i' = HeapPage
  /\ UNCHANGED <<end, leftover, tables, page, frames, heap, blocks>>

\* get_page, which makes the table that is missing.  It does not clear it.
GetPage(n) ==
  IF tables[n \div Entries] # NULL THEN UNCHANGED <<tables, phys>>
  ELSE /\ tables' = [tables EXCEPT ![n \div Entries] = Aligned(phys)]
       /\ phys' = Aligned(phys) + PageSize

\* get_page over the heap: its tables.
HeapTable ==
  /\ stage = "heap tables" /\ i \in HeapRange
  /\ GetPage(i)
  /\ i' = i + 1
  /\ UNCHANGED <<stage, end, leftover, page, frames, heap, blocks>>

HeapTablesDone ==
  /\ stage = "heap tables" /\ i \notin HeapRange
  /\ stage' = "identity" /\ i' = 0
  /\ UNCHANGED <<end, phys, leftover, tables, page, frames, heap, blocks>>

----------------------------------------------------------------------------
(***************************************************************************)
(* new_frame: a page without a frame gets the first that is free.          *)
(***************************************************************************)
\* Seeded fault: half of the bitmap's words are searched.
FreeFirstHalf == (0..(Frames \div 2 - 1)) \ frames

Free == (0..(Frames - 1)) \ frames

\* Seeded fault: the bit of the page is set, not that of its frame.
MarkPage(n, f) == frames' = frames \cup {n}

SetBit(n, f) == frames' = frames \cup {f}

NewFrame(n) ==
  \/ /\ page[n].frame # 0
     /\ UNCHANGED <<page, frames>>
  \/ /\ page[n].frame = 0 /\ Free # {}
     /\ page' = [page EXCEPT ![n] = [present |-> TRUE, frame |-> Min(Free)]]
     /\ SetBit(n, Min(Free))

NoFrame(n) == page[n].frame = 0 /\ Free = {}

\* One turn of the loops that map.
MapPage ==
  /\ GetPage(i)
  /\ \/ NewFrame(i) /\ i' = i + 1 /\ UNCHANGED stage
     \/ NoFrame(i) /\ stage' = "out of memory" /\ UNCHANGED <<i, page, frames>>
  /\ UNCHANGED <<end, leftover, heap, blocks>>

\* Seeded fault: the memory in use is taken to be the image.
MapsImage(n) == n * PageSize < end

(***************************************************************************)
(* The memory in use, and some more, is mapped where it is.  get_page may  *)
(* make a table meanwhile, which the loop then reaches too.                *)
(***************************************************************************)
Maps(n) == n * PageSize < phys + SlackPages * PageSize

IdentityMap == stage = "identity" /\ Maps(i) /\ MapPage

IdentityDone ==
  /\ stage = "identity" /\ ~Maps(i)
  /\ stage' = "heap frames" /\ i' = HeapPage
  /\ UNCHANGED <<end, phys, leftover, tables, page, frames, heap, blocks>>

HeapFrame == stage = "heap frames" /\ i \in HeapRange /\ MapPage

\* Page 0 is taken out; paging is on, and the heap is used from now on.
EnablePaging ==
  /\ stage = "heap frames" /\ i \notin HeapRange
  /\ page' = [page EXCEPT ![0] = NotMapped]
  /\ stage' = "running"
  /\ UNCHANGED <<i, end, phys, leftover, tables, frames, heap, blocks>>

VmInit == \/ MakeDirectory \/ HeapTable \/ HeapTablesDone
          \/ IdentityMap \/ IdentityDone \/ HeapFrame \/ EnablePaging

----------------------------------------------------------------------------
(***************************************************************************)
(* sys_alloc_mem: the next piece of the heap.  Nothing is given back:      *)
(* sys_free_mem has no function to call.                                   *)
(***************************************************************************)
\* Seeded fault: the end is compared before the size is added.
FitsBefore(size) == heap <= HeapEnd

Fits(size) == heap + size <= HeapEnd

Allocate(size) ==
  /\ stage = "running" /\ Fits(size)
  /\ blocks' = blocks \cup {[base |-> heap, size |-> size]}
  /\ heap' = heap + size
  /\ UNCHANGED <<stage, i, end, phys, leftover, tables, page, frames>>

\* "Heap is full!"
HeapIsFull(size) ==
  /\ stage = "running" /\ ~Fits(size)
  /\ stage' = "heap full"
  /\ heap' = heap + size
  /\ UNCHANGED <<i, end, phys, leftover, tables, page, frames, blocks>>

Kmalloc == \E size \in Requests : Allocate(size) \/ HeapIsFull(size)

\* kpanic waits for ever.
Panicked == stage \in {"out of memory", "heap full"}

MemoryInit ==
  /\ stage = "directory" /\ i = 0
  /\ end \in KernelEnds /\ phys = end
  /\ tables = [t \in 0..(Tables - 1) |-> NULL]
  /\ leftover \in Leftovers /\ page = [n \in Page |-> leftover]
  /\ frames = {}
  /\ heap = HeapBase /\ blocks = {}

----------------------------------------------------------------------------
Stages == {"directory", "heap tables", "identity", "heap frames", "running",
           "out of memory", "heap full"}

\* The types; addresses only grow.
MemoryTypeOK ==
  /\ stage \in Stages /\ i \in Nat
  /\ end \in KernelEnds /\ phys \in Nat /\ phys >= end
  /\ leftover \in Leftovers
  /\ tables \in [0..(Tables - 1) -> Nat]
  /\ page \in [Page -> PageEntry]
  /\ frames \subseteq 0..(Frames - 1)
  /\ heap \in Nat /\ heap >= HeapBase
  /\ blocks \subseteq [base : Nat, size : Nat]

PagingIsOn == stage \in {"running", "heap full"}

(***************************************************************************)
(* "Performs identity mapping of the kernel frames" (mpx/vm.h): when       *)
(* paging goes on, every page of the image, the directory and the page     *)
(* tables, among them those that were made while the loop was mapping, is  *)
(* where it was; but the first, for NULL pointers.  (If the memory was all *)
(* zero: get_page does not clear a table, and new_frame takes an entry     *)
(* with a frame for one that is mapped.)                                   *)
(***************************************************************************)
UsedMemoryStays ==
  PagingIsOn /\ leftover = NotMapped =>
    /\ \A n \in 1..((phys - 1) \div PageSize) :
         page[n] = [present |-> TRUE, frame |-> n]
    /\ ~page[0].present

Made == {t \in DOMAIN tables : tables[t] # NULL}
Directory == Aligned(end)
IsAligned(a) == a % PageSize = 0
Apart(a, b, size) == a + size <= b \/ b + size <= a

(***************************************************************************)
(* The directory and the page tables are page aligned, behind the image    *)
(* and each other; each table is in memory that is in use, where the       *)
(* identity mapping reaches it (kmalloc before paging, get_page).          *)
(***************************************************************************)
TablesApart ==
  stage # "directory" =>
    /\ IsAligned(Directory) /\ end <= Directory
    /\ Directory + 2 * PageSize <= phys
    /\ \A t \in Made : /\ IsAligned(tables[t])
                       /\ Directory + 2 * PageSize <= tables[t]
                       /\ tables[t] + PageSize <= phys
    /\ \A t, u \in Made : t # u => Apart(tables[t], tables[u], PageSize)

(***************************************************************************)
(* No two pages share a frame: the heap and the kernel's own memory are    *)
(* apart although find_free knows nothing but the bits (new_frame).        *)
(***************************************************************************)
FramesApart ==
  ~leftover.present =>
    \A m, n \in Page :
      page[m].present /\ page[n].present =>
        /\ page[m].frame \in frames
        /\ m # n => page[m].frame # page[n].frame

(***************************************************************************)
(* What sys_alloc_mem gives out overlaps nothing it gave out before, and   *)
(* every page of it is mapped: the allocation that does not fit stops the  *)
(* machine, it is never cut short or placed behind the heap (alloc).       *)
(***************************************************************************)
BlocksApart ==
  \A b \in blocks :
    /\ \A c \in blocks : b = c \/ b.base + b.size <= c.base
                              \/ c.base + c.size <= b.base
    /\ leftover = NotMapped =>
       \A n \in (b.base \div PageSize)..((b.base + b.size - 1) \div PageSize) :
         page[n].present

=============================================================================
