------------------------------- MODULE Paging -------------------------------
(***************************************************************************)
(* FIFO paging of Offline-04 (my-xv6): the table of pages of a process and *)
(* the list of those in memory (proc.h, vm.c), its swap file (fs.c), the   *)
(* page fault (trap.c), and sbrk, fork and exec over them.                 *)
(*                                                                         *)
(* Processes share no page and no file, so one process with pid > 2 is     *)
(* followed, and at a fork either the parent or the child.  A system call  *)
(* is one step: its process makes no access meanwhile.  An exec that fails *)
(* half way, which leaves entries in the table, is not followed.  The      *)
(* sequence list is what next leads to from memoryPagesHead.  A prev that  *)
(* is not the page before matters at the head only (headPrev): a page that *)
(* becomes the head gets the prev 0.  A page is a value, and its address   *)
(* and its offset in the file count pages.                                 *)
(***************************************************************************)
EXTENDS Integers, SequencesExt, FiniteSetsExt

CONSTANTS MAX_PSYC_PAGES, MAX_TOTAL_PAGES,
          Images,      \* pages that exec loads for each program, with its two stack pages
          MaxPages,    \* bound: the process asks for no more
          Val          \* contents of a page; a new one has 0

ASSUME PagingAssumption ==
  /\ MAX_PSYC_PAGES \in Nat /\ MAX_PSYC_PAGES > 1
  /\ MAX_TOTAL_PAGES \in Nat /\ MAX_TOTAL_PAGES > MAX_PSYC_PAGES
  /\ MaxPages \in Nat /\ Images \subseteq 1 .. MaxPages
  /\ 0 \in Val

VARIABLES m,            \* the process
          image,        \* the pages of its program
          copyPanicked  \* copyuvm: page not present

pagingVars == <<m, image, copyPanicked>>

Page == 0 .. MaxPages - 1
Slot == 0 .. MAX_TOTAL_PAGES - 1

NotUsed == [state |-> "NOTUSED", va |-> -1, offset |-> -1]

\* What exec leaves: the pages of the image are in memory and not in the table,
\* which ResetProcPagesData has emptied.
Fresh(n) ==
  [sz |-> n,
   pte |-> [a \in Page |-> IF a < n THEN "P" ELSE "none"],          \* PTE_P, PTE_PG or none
   mem |-> [a \in Page |-> 0],
   table |-> [s \in Slot |-> NotUsed],                              \* pagingMetaData
   list |-> <<>>, headPrev |-> FALSE,   \* memoryPagesHead->prev is not 0
   nmem |-> 0, nfile |-> 0,
   swapFile |-> FALSE, file |-> <<>>,
   \* "overrun": the entry after the table was written to.  "fault": the kernel needs a page
   \* that is not there, and panics or waits for itself.
   stopped |-> "no",
   want |-> [a \in Page |-> 0],         \* history: what the program stored last
   shrunk |-> FALSE]                    \* history: sbrk gave pages back

PagingInit == image \in Images /\ m = Fresh(image) /\ copyPanicked = FALSE

-----------------------------------------------------------------------------
(* vm.c, on the record of the process. *)

WriteAt(file, offset, v) ==
  IF offset < Len(file) THEN [file EXCEPT ![offset + 1] = v] ELSE Append(file, v)

WritePageToFile(r, s) ==
  LET offset == IF r.table[s].offset > -1 THEN r.table[s].offset ELSE r.nfile
  IN [r EXCEPT !.file = WriteAt(@, offset, r.mem[r.table[s].va]),
               !.table[s] = [state |-> "SWAPFILE", va |-> @.va, offset |-> offset],
               !.nfile = @ + 1]

\* The list without the page, which is in it once.
updateListPointers(list, s) == RemoveAt(list, CHOOSE i \in DOMAIN list : list[i] = s)

\* A head with a prev stays the head, and nothing follows it any more.
MemoryToSwapFile(r, s) ==
  LET w == WritePageToFile(r, s)
      va == r.table[s].va
  IN [w EXCEPT !.list = IF r.headPrev THEN <<s>> ELSE updateListPointers(@, s),
               !.headPrev = FALSE, !.nmem = @ - 1, !.pte[va] = "PG", !.mem[va] = 0]

FileToMemory(r, s) ==
  LET va == r.table[s].va
  IN [r EXCEPT !.pte[va] = "P", !.mem[va] = r.file[r.table[s].offset + 1],
               !.nmem = @ + 1, !.nfile = @ - 1,
               !.table[s] = [state |-> "PHYSMEMORY", va |-> va, offset |-> -1],
               !.list = Append(@, s)]

\* mutant: the page that leaves does not take the place of the other in the file
SwapPagesAtEnd(r, va) ==
  LET in == Min({s \in Slot : r.table[s].va = va})
  IN MemoryToSwapFile(FileToMemory(r, in), Head(r.list))

\* The page of the fault and the first of the list change places, also in the file.
SwapPages(r, va) ==
  LET out == Head(r.list)
      in  == Min({s \in Slot : r.table[s].va = va})
  IN MemoryToSwapFile(FileToMemory([r EXCEPT !.table[out].offset = r.table[in].offset], in), out)

\* A freed page lets the first one of the table that is in the file back in.
DeletePage(r, s) ==
  LET paged == {t \in Slot : r.table[t].state = "SWAPFILE"}
      d == [r EXCEPT !.nmem = IF @ > 0 THEN @ - 1 ELSE @, !.table[s] = NotUsed]
      b == IF r.nfile > 0 /\ paged # {} THEN FileToMemory(d, Min(paged)) ELSE d
  IN [b EXCEPT !.list = updateListPointers(@, s)]

\* mutant: num_pages_in_file is not counted down
ShrinkMiscounts(r, a) ==
  LET entries == {s \in Slot : r.table[s].va = a}
      free == [r EXCEPT !.pte[a] = "none", !.mem[a] = 0]
  IN CASE r.pte[a] = "P" -> IF entries = {} THEN free ELSE DeletePage(free, Min(entries))
       [] r.pte[a] = "PG" -> [free EXCEPT !.table[Min(entries)] = NotUsed]
       [] OTHER -> r

\* A round of the loop of deallocuvm.
Shrink(r, a) ==
  LET entries == {s \in Slot : r.table[s].va = a}
      free == [r EXCEPT !.pte[a] = "none", !.mem[a] = 0]
  IN CASE r.pte[a] = "P" -> IF entries = {} THEN free ELSE DeletePage(free, Min(entries))
       [] r.pte[a] = "PG" -> [free EXCEPT !.nfile = @ - 1, !.table[Min(entries)] = NotUsed]
       [] OTHER -> r

\* The list with s at its end.  If s was on it before, what followed s is lost.
LinkLast(list, s) ==
  IF s \in ToSet(list) THEN SubSeq(list, 1, CHOOSE i \in DOMAIN list : list[i] = s)
  ELSE Append(list, s)

\* AddNewPageToPhysicalMemory, InitNewPhyPage: the entry of the page or the first
\* free one, and past the end of the table when there is none.
AddNewPage(r, a) ==
  LET same == {s \in Slot : r.table[s].va = a}
      unused == {s \in Slot : r.table[s].state = "NOTUSED"}
      Add(s) == [r EXCEPT !.table[s] = [state |-> "PHYSMEMORY", va |-> a, offset |-> -1],
                          !.nmem = @ + 1, !.list = LinkLast(@, s),
                          !.headPrev = @ \/ (r.list # <<>> /\ s = Head(r.list))]
  IN CASE r.list = <<>> -> Add(0)
       [] r.list # <<>> /\ same # {} -> Add(Min(same))
       [] r.list # <<>> /\ same = {} /\ unused # {} -> Add(Min(unused))
       [] OTHER -> [r EXCEPT !.stopped = "overrun"]

\* The first half of a round of allocuvm.
MakeRoom(r) ==
  IF r.nmem # MAX_PSYC_PAGES THEN r
  ELSE MemoryToSwapFile(
         IF r.nfile # MAX_TOTAL_PAGES - MAX_PSYC_PAGES /\ ~r.swapFile
         THEN [r EXCEPT !.swapFile = TRUE, !.file = <<>>] ELSE r,
         Head(r.list))

Grow(r, a) ==
  IF r.stopped # "no" THEN r ELSE AddNewPage([MakeRoom(r) EXCEPT !.pte[a] = "P", !.mem[a] = 0], a)

\* The page that has to leave is mapped.  All of the list are, but for those of a new image.
HeadPresent(r) == r.pte[r.table[Head(r.list)].va] = "P"

\* For the page table of a new image: the entry goes to the process all the same, and the
\* page that leaves is written from the old image.
Load(r, a) ==
  CASE r.stopped # "no" -> r
    [] r.stopped = "no" /\ r.nmem = MAX_PSYC_PAGES /\ ~HeadPresent(r) -> [r EXCEPT !.stopped = "fault"]
    [] OTHER -> AddNewPage(MakeRoom(r), a)

\* copyout of the path and the arguments, which are in page a of the old image: if it is in
\* the file the kernel faults, and SwapPages needs its entry and a page to write.
CopyArguments(r, a) ==
  LET entry == r.table[Min({s \in Slot : r.table[s].va = a})]
      had == entry.state = "SWAPFILE" /\ HeadPresent(r)
  IN IF r.stopped # "no" \/ r.pte[a] = "P" \/ had THEN r ELSE [r EXCEPT !.stopped = "fault"]

Pages(from, to) == [i \in 1 .. to - from |-> from + i - 1]

-----------------------------------------------------------------------------
(* What the process does. *)

Runs == ~copyPanicked /\ m.stopped = "no"

Store(a, v) ==
  /\ Runs /\ a < m.sz /\ m.pte[a] = "P"
  /\ m' = [m EXCEPT !.mem[a] = v, !.want[a] = v]
  /\ UNCHANGED <<image, copyPanicked>>

PageFault(a) ==
  /\ Runs /\ a < m.sz /\ m.pte[a] = "PG"
  /\ m' = SwapPages(m, a)
  /\ UNCHANGED <<image, copyPanicked>>

SbrkGrow(n) ==
  /\ Runs /\ m.sz + n <= MaxPages
  /\ m' = [FoldLeft(Grow, m, Pages(m.sz, m.sz + n)) EXCEPT !.sz = @ + n]
  /\ UNCHANGED <<image, copyPanicked>>

\* kalloc fails when k pages of n are there, and allocuvm takes them back.
SbrkFails(n, k) ==
  /\ Runs /\ m.sz + n <= MaxPages
  /\ LET r == FoldLeft(Grow, m, Pages(m.sz, m.sz + k))
     IN m' = IF r.stopped # "no" THEN r
             ELSE [FoldLeft(Shrink, MakeRoom(r), Pages(m.sz, m.sz + n)) EXCEPT
                     !.shrunk = @ \/ k > 0]
  /\ UNCHANGED <<image, copyPanicked>>

\* A program that gives its stack back, the last page of its image, cannot go on and is
\* not followed.
SbrkShrink(n) ==
  /\ Runs /\ m.sz - n >= image
  /\ m' = [FoldLeft(Shrink, m, Pages(m.sz - n, m.sz)) EXCEPT
             !.sz = @ - n, !.shrunk = TRUE,
             !.want = [a \in Page |-> IF a < m.sz - n THEN @[a] ELSE 0]]
  /\ UNCHANGED <<image, copyPanicked>>

\* copyuvm panics over a page that is not present; CopyContentsOfCurrentProcStructs
\* gives the child the table, and an empty file if its parent has one.
Fork ==
  /\ Runs
  /\ IF \E a \in Page : m.pte[a] = "PG"
     THEN copyPanicked' = TRUE /\ UNCHANGED m
     ELSE m' = [m EXCEPT !.file = <<>>] /\ UNCHANGED copyPanicked
  /\ UNCHANGED image

\* The new image, of n pages, is loaded while the table is still that of the old one.
Exec(n, a) ==
  /\ Runs /\ a < m.sz
  /\ LET r == CopyArguments(FoldLeft(Load, m, Pages(0, n)), a)
     IN IF r.stopped = "no" THEN m' = Fresh(n) /\ image' = n ELSE m' = r /\ UNCHANGED image
  /\ UNCHANGED copyPanicked

PagingNext ==
  \/ \E a \in Page : PageFault(a) \/ \E v \in Val : Store(a, v)
  \/ \E n \in 1 .. MaxPages : \/ SbrkGrow(n) \/ SbrkShrink(n)
                              \/ \E k \in 0 .. n - 1 : SbrkFails(n, k)
  \/ Fork
  \/ \E n \in Images, a \in Page : Exec(n, a)

PagingSpec == PagingInit /\ [][PagingNext]_pagingVars

-----------------------------------------------------------------------------
PagingTypeOK ==
  /\ m.sz \in 0 .. MaxPages
  /\ m.pte \in [Page -> {"none", "P", "PG"}] /\ m.mem \in [Page -> Val]
  /\ m.table \in [Slot -> [state : {"NOTUSED", "PHYSMEMORY", "SWAPFILE"},
                           va : Page \cup {-1}, offset : Nat \cup {-1}]]
  /\ m.list \in Seq(Slot) /\ m.nmem \in Nat /\ m.nfile \in Nat
  /\ m.swapFile \in BOOLEAN /\ m.file \in Seq(Val)
  /\ m.want \in [Page -> Val] /\ m.shrunk \in BOOLEAN /\ m.headPrev \in BOOLEAN
  /\ m.stopped \in {"no", "overrun", "fault"} /\ image \in Images
  /\ copyPanicked \in BOOLEAN

In(state) == {s \in Slot : m.table[s].state = state}

\* Between two calls the list, the counters, the page table and the table of pages agree:
\* of the pages that are in the table, at most MAX_PSYC_PAGES are in memory.
TableMatches ==
  m.stopped = "no" =>
    /\ ToSet(m.list) = In("PHYSMEMORY") /\ Len(m.list) = Cardinality(ToSet(m.list))
    /\ m.nmem = Len(m.list) /\ m.nmem <= MAX_PSYC_PAGES
    /\ m.nfile = Cardinality(In("SWAPFILE")) /\ (m.nfile > 0 => m.swapFile /\ m.list # <<>>)
    /\ \A s \in In("PHYSMEMORY") : m.pte[m.table[s].va] = "P" /\ m.table[s].offset = -1
    /\ \A s \in In("SWAPFILE") : m.pte[m.table[s].va] = "PG" /\ m.table[s].offset \in 0 .. Len(m.file) - 1
    /\ \A a \in Page : m.pte[a] = "PG" => \E s \in In("SWAPFILE") : m.table[s].va = a
    /\ \A s, t \in Slot : m.table[s].va = m.table[t].va /\ m.table[s].va # -1 => s = t
    /\ ~m.headPrev
    /\ \A a \in Page : m.pte[a] # "none" <=> a < m.sz

\* The entry past the table is not written to, by sbrk or by exec, before the entries of the
\* table stand for MAX_TOTAL_PAGES different pages.
OverrunOnlyWhenFull ==
  m.stopped = "overrun" =>
    \A s \in Slot : /\ m.table[s].va \in Page
                    /\ \A t \in Slot : m.table[s].va = m.table[t].va => s = t

\* Only an exec that has the old image and the new one in memory at once, and writes to the
\* swap file for that, may need a page that is not there.
FaultOnlyWhenSwapping == m.stopped = "fault" => m.nfile > 0

PagingInv == PagingTypeOK /\ TableMatches /\ OverrunOnlyWhenFull /\ FaultOnlyWhenSwapping

\* Every page holds what was stored in it last, in memory or in the file.
ContentsKept ==
  m.stopped = "no" =>
    /\ \A a \in Page : m.pte[a] = "P" => m.mem[a] = m.want[a]
    /\ \A s \in In("SWAPFILE") : m.file[m.table[s].offset + 1] = m.want[m.table[s].va]

\* It does as long as sbrk has given nothing back: then the offsets in use are
\* the first num_pages_in_file ones, and a new one is free.
UnshrunkKeepsContents == ~m.shrunk => ContentsKept

=============================================================================
