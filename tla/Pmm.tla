-------------------------------- MODULE Pmm --------------------------------
(***************************************************************************)
(* The physical page allocator of src/kernel/memory/pmm.c over the memory  *)
(* map that src/kernel/core/multiboot.c reads from the boot loader: one    *)
(* bit per page in a bitmap placed behind the kernel image, and a counter  *)
(* of the pages in use.                                                    *)
(*                                                                         *)
(* Addresses and sizes are in bytes.  A caller frees a page it holds, or   *)
(* one that is free already, or an address beyond the memory; it does not  *)
(* free the kernel's pages or those of another caller.                     *)
(***************************************************************************)
EXTENDS Integers, FiniteSetsExt

CONSTANTS PageSize,     \* 4096
          LeastMemory,  \* 64 MB: a smaller report is taken for this
          MostMemory,   \* 1 GB: a larger one too
          KernelEnd,    \* _kernel_end of the linker script
          AddressWord,  \* number of values of a uint64_t
          Boots         \* what the boot loader may hand over

ASSUME SizeAssumption ==
  /\ PageSize \in Nat \ {0} /\ KernelEnd \in Nat
  /\ LeastMemory \in Nat /\ MostMemory \in Nat /\ LeastMemory <= MostMemory
  /\ AddressWord \in Nat \ {0}

Region == [addr : 0 .. AddressWord - 1, len : 0 .. AddressWord - 1, usable : BOOLEAN]

ASSUME BootAssumption ==
  \A info \in Boots :
    /\ info.magic \in {"mb1", "mb2", "other"}
    /\ info.mbi \in BOOLEAN /\ info.hasMap \in BOOLEAN
    /\ info.entries \subseteq Region

VARIABLES boot,         \* the loader's magic number and its information
          total,        \* total_pages
          used,         \* the pages whose bit is set
          usedPages,    \* used_pages, the counter
          held,         \* the pages callers hold
          panicked      \* panic() has stopped the machine

pmm == <<boot, total, used, usedPages, held, panicked>>

----------------------------------------------------------------------------
\* The entries of the map the magic number announces: none without an
\* information block, or in one of version 1 that has no map.
MapOf(info) ==
  IF info.mbi /\ (info.magic = "mb2" \/ (info.magic = "mb1" /\ info.hasMap))
  THEN info.entries ELSE {}

\* multiboot_memory: where the highest usable region ends, in 64 bits.
Tops(info) == {(e.addr + e.len) % AddressWord : e \in {r \in MapOf(info) : r.usable}}
MultibootMemory(info) == Max(Tops(info) \cup {0})

Clamped(memory) == Max({LeastMemory, Min({MostMemory, memory})})

\* Mutant: a page that is only partly there counts.
PagesUp(memory) == (Clamped(memory) + PageSize - 1) \div PageSize
Pages(memory)   == Clamped(memory) \div PageSize

BitmapStart  == ((KernelEnd + PageSize - 1) \div PageSize) * PageSize
BitmapEnd(n) == BitmapStart + (n + 7) \div 8

\* The pages of the kernel and of the bitmap, and what lies below them.
\* Mutant: the bitmap is forgotten.
KernelOnly(n) == 0 .. BitmapStart \div PageSize - 1
Reserved(n)   == 0 .. BitmapEnd(n) \div PageSize

----------------------------------------------------------------------------
\* pmm_init.
PmmInit ==
  /\ boot \in Boots
  /\ total = Pages(MultibootMemory(boot))
  /\ used = Reserved(total)
  /\ usedPages = BitmapEnd(total) \div PageSize + 1
  /\ held = {}
  /\ panicked = FALSE

\* The pages the search of pmm_alloc_page looks at, first to last.
\* Mutant: all but the last.
AllButLast == 0 .. total - 2
Searched   == 0 .. total - 1

\* set_page.  Mutant: the page's bit is set in another byte of the bitmap.
SetNextByte(page) == used \cup {page + 8}
SetPage(page)     == used \cup {page}

\* pmm_alloc_page: the lowest page whose bit is clear; with none, a panic.
AllocPage ==
  /\ ~panicked
  /\ IF Searched \subseteq used
     THEN panicked' = TRUE /\ UNCHANGED <<used, usedPages, held>>
     ELSE LET page == Min(Searched \ used) IN
          /\ used' = SetPage(page)
          /\ usedPages' = usedPages + 1
          /\ held' = held \cup {page}
          /\ UNCHANGED panicked
  /\ UNCHANGED <<boot, total>>

\* The addresses a caller frees, in the page a free is about.
Freeable == {page \in 0 .. total : page \in held \/ page \notin used}

\* The bits and the counter after pmm_free_page of an address in page.
\* Mutant: a free page is not told from a used one.
ClearedAlways(page)    == used' = used \ {page} /\ usedPages' = usedPages - 1
Cleared(page) ==
  IF page < total /\ page \in used
  THEN used' = used \ {page} /\ usedPages' = usedPages - 1
  ELSE UNCHANGED <<used, usedPages>>

\* pmm_free_page.
FreePage(page) ==
  /\ ~panicked /\ page \in Freeable
  /\ Cleared(page)
  /\ held' = held \ {page}
  /\ UNCHANGED <<boot, total, panicked>>

PmmNext == AllocPage \/ \E page \in 0 .. total : FreePage(page)

PmmSpec == PmmInit /\ [][PmmNext]_pmm

----------------------------------------------------------------------------
PagesTypeOK ==
  /\ boot \in Boots /\ total \in Nat /\ usedPages \in Nat
  /\ used \subseteq Nat /\ held \subseteq 0 .. total - 1 /\ panicked \in BOOLEAN

\* The counter the free command prints is the number of bits set, whatever
\* is freed twice or freed beyond the memory.
CounterMatches == IsFiniteSet(used) /\ usedPages = Cardinality(used)

\* Every page has one owner: the kernel's reserved pages and the callers'
\* pages are the pages in use, and none is both.
OneOwner == used = Reserved(total) \cup held /\ held \cap Reserved(total) = {}

\* The bits, the counter and the owners agree.
PagesSound == PagesTypeOK /\ CounterMatches /\ OneOwner

\* No caller is ever given a page that holds a byte of the kernel image or of
\* the bitmap.
KernelKept == \A page \in held : page * PageSize >= BitmapEnd(total)

\* One usable region reaches from the bitmap to the end of the memory the kernel
\* settled for.
Sound(info) ==
  \E e \in MapOf(info) :
    /\ e.usable /\ e.addr <= BitmapStart
    /\ e.addr + e.len >= Clamped(MultibootMemory(info))

\* On such a machine every page handed out is memory that exists, to its last
\* byte.
PagesExist ==
  Sound(boot) =>
    \A page \in held : \E e \in MapOf(boot) :
      e.usable /\ e.addr <= page * PageSize /\ (page + 1) * PageSize <= e.addr + e.len

\* The allocator panics only when no page is left to give.
PanicIsFull == panicked => 0 .. total - 1 \subseteq used
=============================================================================
