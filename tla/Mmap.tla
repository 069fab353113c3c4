--------------------------------- MODULE Mmap ---------------------------------
(***************************************************************************)
(* p5's memory mappings (proc.c, trap.c, with file.c's reference counts):  *)
(* processes map files and memory, grow mappings by touching the page      *)
(* after them, fork, exec and exit.                                        *)
(*                                                                         *)
(* Addresses and lengths are whole pages.  Left out: what pages contain,   *)
(* prot and offset, the pages of page tables, memory below the area, files *)
(* that are pipes.  The length given to munmap is left out because the     *)
(* code never counts it down to 0.                                         *)
(***************************************************************************)
EXTENDS Integers, FiniteSets

CONSTANTS
    Procs,        \* places in ptable, numbers
    Files,        \* places in ftable, numbers
    NOFILE,       \* descriptors of a process
    NVMA,         \* mappings of a process
    NPages,       \* pages between VMA_START and VMA_END
    NFrames,      \* pages of physical memory for the area
    Lengths,      \* lengths of mappings asked for
    Fixed,        \* addresses asked for with MAP_FIXED
    Kinds,        \* flags of mappings asked for, subsets of AllFlags
    MaxCalls      \* MaxCalls[c]: how often processes do c, in all

AllFlags == {"MAP_ANONYMOUS", "MAP_PRIVATE", "MAP_GROWSUP"}

Counted == {"open", "mmap", "touch", "fork", "exec"}

ASSUME MmapAssumption ==
    /\ Procs \subseteq Nat /\ IsFiniteSet(Procs) /\ Procs # {}
    /\ Files \subseteq Nat \ {0} /\ IsFiniteSet(Files)
    /\ NOFILE \in Nat \ {0} /\ NVMA \in Nat \ {0, 1} /\ NPages \in Nat /\ NFrames \in Nat
    /\ Lengths \subseteq Nat \ {0}
    /\ Fixed \subseteq Nat
    /\ Kinds \subseteq SUBSET AllFlags
    /\ MaxCalls \in [Counted -> Nat]

VARIABLES
    state,     \* state[p]: of a place in ptable
    pages,     \* pages[p]: the pages of the area that p's page table maps
    table,     \* table[p]: there is a page table for the area
    vmas,      \* vmas[p]
    ofile,     \* ofile[p]: the file behind each descriptor, or 0
    ref,       \* ref[f]: the count in ftable
    free,      \* frames kalloc has left
    call,      \* call[p]: the mmap in progress
    over,      \* how the kernel ended
    spoiled,   \* files whose count went wrong (for the properties)
    left       \* left[c]: calls not yet made (a bound)

vars == <<state, pages, table, vmas, ofile, ref, free, call, over, spoiled, left>>

Slots == 0 .. NVMA - 1
Fds == 0 .. NOFILE - 1
Area == 1 .. NPages

(* addr = 0 for a place never used; pf = 0 for none.  own: pf was copied   *)
(* without filedup.                                                        *)
Unused == [addr |-> 0, end |-> 0, flags |-> {}, fd |-> 0, pf |-> 0, next |-> 0,
           valid |-> FALSE, own |-> FALSE]

Idle == [addr |-> 0, len |-> 0, done |-> 0, slot |-> 0, flags |-> {}, fd |-> 0]

Init ==
    /\ \E p \in Procs :
         /\ \A q \in Procs : p <= q
         /\ state = [q \in Procs |-> IF q = p THEN "running" ELSE "unused"]
    /\ pages = [p \in Procs |-> {}]
    /\ table = [p \in Procs |-> FALSE]
    /\ vmas = [p \in Procs |-> [i \in Slots |-> Unused]]
    /\ ofile = [p \in Procs |-> [d \in Fds |-> 0]]
    /\ ref = [f \in Files |-> 0]
    /\ free = NFrames
    /\ call = [p \in Procs |-> Idle]
    /\ over = "no"
    /\ spoiled = {}
    /\ left = MaxCalls

(* p runs in user mode. *)
User(p) == state[p] = "running" /\ call[p] = Idle

Makes(c) == left[c] > 0 /\ left' = [left EXCEPT ![c] = @ - 1]

End(how) ==
    /\ over' = how
    /\ UNCHANGED <<state, pages, table, vmas, ofile, ref, free, call, spoiled>>

First(S) == CHOOSE x \in S : \A y \in S : x <= y

-----------------------------------------------------------------------------
(* Files *)

open(p) ==
    /\ User(p)
    /\ LET fds == { d \in Fds : ofile[p][d] = 0 }
           fs == { f \in Files : ref[f] = 0 }
       IN  /\ fds # {} /\ fs # {}
           /\ ofile' = [ofile EXCEPT ![p][First(fds)] = First(fs)]
           /\ ref' = [ref EXCEPT ![First(fs)] = 1]
    /\ UNCHANGED <<state, pages, table, vmas, free, call, over, spoiled>>

close(p, d) ==
    /\ User(p)
    /\ ofile[p][d] # 0
    /\ \/ /\ ref[ofile[p][d]] >= 1
          /\ ref' = [ref EXCEPT ![ofile[p][d]] = @ - 1]
          /\ ofile' = [ofile EXCEPT ![p][d] = 0]
          /\ UNCHANGED <<state, pages, table, vmas, free, call, over, spoiled>>
       \/ ref[ofile[p][d]] < 1 /\ End("panic")

-----------------------------------------------------------------------------
(* mmap: a free region and a free place first, then page by page.          *)
(* Without MAP_FIXED the lowest region is taken.                           *)

Regions(p, len) == { a \in Area : a .. a + len - 1 \subseteq Area \ pages[p] }

mmap(p) ==
    /\ User(p)
    /\ \E len \in Lengths, flags \in Kinds, d \in Fds : \E addr \in Regions(p, len) :
        LET empty == { i \in Slots : vmas[p][i].addr = 0 }
        IN  /\ addr \in Fixed \/ addr = First(Regions(p, len))
            /\ empty # {}
            /\ "MAP_ANONYMOUS" \in flags => d = 0
            /\ call' = [call EXCEPT ![p] =
                 [addr |-> addr, len |-> len, done |-> 0, slot |-> First(empty),
                  flags |-> flags, fd |-> d]]
    /\ UNCHANGED <<state, pages, table, vmas, ofile, ref, free, over, spoiled>>

(* A variant that frees as many frames as it was asked for. *)
MmapFailsFreesAll(p) ==
    LET c == call[p]
        undone == c.addr .. c.addr + c.done - 1
    IN  /\ c # Idle
        /\ free = 0
        /\ pages' = [pages EXCEPT ![p] = @ \ undone]
        /\ free' = free + c.len
        /\ call' = [call EXCEPT ![p] = Idle]
        /\ UNCHANGED <<state, table, vmas, ofile, ref, over, spoiled>>

MmapFails(p) ==
    LET c == call[p]
        undone == c.addr .. c.addr + c.done - 1
    IN  /\ c # Idle
        /\ free = 0
        /\ pages' = [pages EXCEPT ![p] = @ \ undone]
        /\ free' = free + Cardinality(undone)
        /\ call' = [call EXCEPT ![p] = Idle]
        /\ UNCHANGED <<state, table, vmas, ofile, ref, over, spoiled>>

(* A variant that takes end for the last page. *)
MappingOffByOne(p) ==
    LET c == call[p]
    IN  [addr |-> c.addr, end |-> c.addr + c.len - 1, flags |-> c.flags, fd |-> c.fd,
         pf |-> IF "MAP_ANONYMOUS" \in c.flags THEN 0 ELSE ofile[p][c.fd],
         next |-> 0, valid |-> TRUE, own |-> "MAP_ANONYMOUS" \notin c.flags]

Mapping(p) ==
    LET c == call[p]
    IN  [addr |-> c.addr, end |-> c.addr + c.len, flags |-> c.flags, fd |-> c.fd,
         pf |-> IF "MAP_ANONYMOUS" \in c.flags THEN 0 ELSE ofile[p][c.fd],
         next |-> 0, valid |-> TRUE, own |-> "MAP_ANONYMOUS" \notin c.flags]

(* A descriptor that is not open is used all the same. *)
MmapPage(p) ==
    LET c == call[p]
    IN  /\ c # Idle
        /\ free > 0
        /\ IF "MAP_ANONYMOUS" \notin c.flags /\ ofile[p][c.fd] = 0 THEN End("fault") ELSE
            /\ free' = free - 1
            /\ pages' = [pages EXCEPT ![p] = @ \cup {c.addr + c.done}]
            /\ table' = [table EXCEPT ![p] = TRUE]
            /\ \/ /\ c.done + 1 < c.len
                  /\ call' = [call EXCEPT ![p].done = @ + 1]
                  /\ UNCHANGED vmas
               \/ /\ c.done + 1 = c.len
                  /\ vmas' = [vmas EXCEPT ![p][c.slot] = Mapping(p)]
                  /\ call' = [call EXCEPT ![p] = Idle]
            /\ UNCHANGED <<state, ofile, ref, over, spoiled>>

-----------------------------------------------------------------------------
(* munmap takes the page at addr away, and of a shared file that has grown *)
(* all the pages it grew by: those of the places chained by next, one      *)
(* after the other.                                                        *)

Chained(flags) == "MAP_GROWSUP" \in flags /\ flags \cap {"MAP_ANONYMOUS", "MAP_PRIVATE"} = {}

Shared(flags) == flags \cap {"MAP_ANONYMOUS", "MAP_PRIVATE"} = {}

ChainEnd(p, i) == First({ j \in i .. NVMA - 1 : vmas[p][j].next = 0 \/ j = NVMA - 1 })

Closed(f) == f = 0 \/ ref[f] = 0

(* What stops it: a page that is not there cannot be written back (what    *)
(* the page fault handler makes of the kernel's fault is not followed),    *)
(* nor to a file that is closed; a place chained to itself has no end.     *)
Unmapped(p, addr, i, e) ==
    LET written(j) == IF j = i THEN table[p] /\ Shared(vmas[p][i].flags)
                               ELSE "MAP_ANONYMOUS" \notin vmas[p][j].flags
        bad == { j \in i .. e : written(j) /\ (addr + j - i \notin pages[p] \/ Closed(vmas[p][j].pf)) }
        gone == (addr .. addr + e - i) \cap pages[p]
    IN  IF bad # {} \/ (e > i /\ vmas[p][e].next # 0)
        THEN End("fault")
        ELSE /\ pages' = [pages EXCEPT ![p] = @ \ gone]
             /\ free' = free + Cardinality(gone)
             /\ UNCHANGED <<state, table, vmas, ofile, ref, call, over, spoiled>>

munmap(p) ==
    /\ User(p)
    /\ \E addr \in Area :
        LET found == { i \in Slots : vmas[p][i].valid /\ vmas[p][i].addr <= addr /\ addr < vmas[p][i].end }
            i == First(found)
        IN  IF found = {} THEN End("panic")
            ELSE Unmapped(p, addr, i, IF Chained(vmas[p][i].flags) THEN ChainEnd(p, i) ELSE i)

-----------------------------------------------------------------------------
(* exit closes the descriptors, and in a second step, with ptable.lock     *)
(* held, the files of its mappings: to close the last reference then makes *)
(* it acquire ptable.lock again, and panic.                                *)

Uses(p, f) == Cardinality({ d \in Fds : ofile[p][d] = f })

exit(p) ==
    IF \A f \in Files : ref[f] >= Uses(p, f)
    THEN /\ ref' = [f \in Files |-> ref[f] - Uses(p, f)]
         /\ ofile' = [ofile EXCEPT ![p] = [d \in Fds |-> 0]]
         /\ state' = [state EXCEPT ![p] = "exiting"]
         /\ UNCHANGED <<pages, table, vmas, free, call, over, spoiled>>
    ELSE End("panic")

Exit(p) == User(p) /\ exit(p)

Maps(p, f) == { i \in Slots : vmas[p][i].valid /\ vmas[p][i].pf = f }

clean_vma(p) ==
    /\ state[p] = "exiting"
    /\ IF \A f \in Files : Maps(p, f) # {} => ref[f] > Cardinality(Maps(p, f))
       THEN /\ ref' = [f \in Files |-> ref[f] - Cardinality(Maps(p, f))]
            /\ vmas' = [vmas EXCEPT ![p] =
                 [i \in Slots |-> IF @[i].valid THEN [@[i] EXCEPT !.valid = FALSE, !.pf = 0, !.own = FALSE] ELSE @[i]]]
            /\ spoiled' = spoiled \cup { f \in Files : \E i \in Maps(p, f) : vmas[p][i].own }
            /\ state' = [state EXCEPT ![p] = "zombie"]
            /\ UNCHANGED <<pages, table, ofile, free, call, over>>
       ELSE End("panic")

(* A variant that frees the pages and keeps the page directory. *)
waitKeepsDirectory(p) ==
    /\ state[p] = "zombie"
    /\ state' = [state EXCEPT ![p] = "unused"]
    /\ free' = free + Cardinality(pages[p])
    /\ UNCHANGED <<pages, table, vmas, ofile, ref, call, over, spoiled>>

(* By its parent, or by init. *)
wait(p) ==
    /\ state[p] = "zombie"
    /\ state' = [state EXCEPT ![p] = "unused"]
    /\ pages' = [pages EXCEPT ![p] = {}]
    /\ free' = free + Cardinality(pages[p])
    /\ table' = [table EXCEPT ![p] = FALSE]
    /\ UNCHANGED <<vmas, ofile, ref, call, over, spoiled>>

-----------------------------------------------------------------------------
(* fork copies descriptors and valid mappings, but none of their pages; a  *)
(* place that was used before keeps what else is in it.  exec gives up all *)
(* pages and leaves the mappings.                                          *)

(* A variant that copies the pointer to the file without filedup. *)
forkWithoutDup(p, q) ==
    /\ User(p) /\ state[q] = "unused"
    /\ state' = [state EXCEPT ![q] = "running"]
    /\ ofile' = [ofile EXCEPT ![q] = ofile[p]]
    /\ vmas' = [vmas EXCEPT ![q] =
         [i \in Slots |-> IF vmas[p][i].valid THEN [vmas[p][i] EXCEPT !.own = FALSE] ELSE @[i]]]
    /\ ref' = [f \in Files |-> ref[f] + Uses(p, f)]
    /\ UNCHANGED <<pages, table, free, call, over, spoiled>>

fork(p, q) ==
    /\ User(p)
    /\ state[q] = "unused" /\ \A r \in Procs : state[r] = "unused" => q <= r
    /\ IF \A f \in Files : (Uses(p, f) > 0 \/ Maps(p, f) # {}) => ref[f] >= 1
       THEN /\ state' = [state EXCEPT ![q] = "running"]
            /\ ofile' = [ofile EXCEPT ![q] = ofile[p]]
            /\ vmas' = [vmas EXCEPT ![q] =
                 [i \in Slots |-> IF vmas[p][i].valid THEN [vmas[p][i] EXCEPT !.own = FALSE] ELSE @[i]]]
            /\ ref' = [f \in Files |-> ref[f] + Uses(p, f) + Cardinality(Maps(p, f))]
            /\ UNCHANGED <<pages, table, free, call, over, spoiled>>
       ELSE End("panic")

exec(p) ==
    /\ User(p)
    /\ pages' = [pages EXCEPT ![p] = {}]
    /\ free' = free + Cardinality(pages[p])
    /\ table' = [table EXCEPT ![p] = FALSE]
    /\ UNCHANGED <<state, vmas, ofile, ref, call, over, spoiled>>

-----------------------------------------------------------------------------
(* The page fault handler, when p touches a page it has not mapped.  The   *)
(* search looks at the places in order, and gives up at one that has a     *)
(* valid place two after it.                                               *)

Growing(p, a) ==
    { i \in Slots :
        /\ vmas[p][i].end = a
        /\ "MAP_GROWSUP" \in vmas[p][i].flags
        /\ \A j \in 0 .. i : j < NVMA - 2 => ~vmas[p][j + 2].valid
        /\ \A j \in 0 .. i - 1 : vmas[p][j].end # a }

Grows(p, a) ==
    /\ a - 1 \in pages[p]
    /\ a + 1 \in Area \ pages[p]
    /\ Growing(p, a) # {}
    /\ free > 0

update_vma_structure(p, i, n) ==
    LET grown == [vmas[p] EXCEPT ![i].next = n]
    IN  [grown EXCEPT ![n] = [grown[i] EXCEPT !.addr = @ + 1, !.end = @ + 1, !.next = grown[n].next,
                              !.valid = TRUE, !.own = grown[i].pf # 0]]

PageFault(p, a) ==
    /\ User(p)
    /\ a \notin pages[p]
    /\ \/ ~Grows(p, a) /\ exit(p)
       \/ /\ Grows(p, a)
          /\ \E i \in Growing(p, a) :
              LET n == IF i = NVMA - 1 THEN i ELSE i + 1
                  lost == IF vmas[p][n].valid /\ ~vmas[p][n].own THEN {vmas[p][n].pf} \ {0} ELSE {}
              IN  IF "MAP_ANONYMOUS" \notin vmas[p][i].flags /\ ofile[p][vmas[p][i].fd] = 0
                  THEN End("fault")
                  ELSE /\ free' = free - 1
                       /\ pages' = [pages EXCEPT ![p] = @ \cup {a}]
                       /\ table' = [table EXCEPT ![p] = TRUE]
                       /\ vmas' = [vmas EXCEPT ![p] = update_vma_structure(p, i, n)]
                       /\ spoiled' = spoiled \cup lost
                       /\ UNCHANGED <<state, ofile, ref, call, over>>

-----------------------------------------------------------------------------
Next ==
    /\ over = "no"
    /\ \E p \in Procs :
        \/ Makes("open") /\ open(p)
        \/ Makes("mmap") /\ mmap(p)
        \/ Makes("touch") /\ \E a \in Area : PageFault(p, a)
        \/ Makes("fork") /\ \E q \in Procs : fork(p, q)
        \/ Makes("exec") /\ exec(p)
        \/ /\ \/ \E d \in Fds : close(p, d)
              \/ MmapPage(p) \/ MmapFails(p) \/ munmap(p)
              \/ Exit(p) \/ clean_vma(p) \/ wait(p)
           /\ UNCHANGED left

Spec == Init /\ [][Next]_vars

-----------------------------------------------------------------------------
VMAs == [addr : Nat, end : Nat, flags : SUBSET AllFlags, fd : Fds, pf : Files \cup {0},
         next : Slots, valid : BOOLEAN, own : BOOLEAN]

Calls == [addr : Nat, len : Nat, done : Nat, slot : Slots, flags : SUBSET AllFlags, fd : Fds]

(* Every variable has its type, and pages are only mapped by a page table. *)
TypeOK ==
    /\ state \in [Procs -> {"unused", "running", "exiting", "zombie"}]
    /\ pages \in [Procs -> SUBSET Area]
    /\ table \in [Procs -> BOOLEAN]
    /\ vmas \in [Procs -> [Slots -> VMAs]]
    /\ ofile \in [Procs -> [Fds -> Files \cup {0}]]
    /\ ref \in [Files -> Nat]
    /\ free \in 0 .. NFrames
    /\ call \in [Procs -> Calls]
    /\ \A p \in Procs : call[p] = Idle \/ call[p].done < call[p].len
    /\ over \in {"no", "panic", "fault"}
    /\ spoiled \subseteq Files
    /\ \A p \in Procs : pages[p] # {} => table[p]

(* Every frame is free or mapped once: what a failing mmap, munmap, exec   *)
(* and wait give back is exactly what was taken, also when two processes   *)
(* compete for the last frames.                                            *)
Mapped == { x \in Procs \X Area : x[2] \in pages[x[1]] }

FramesConserved == free + Cardinality(Mapped) = NFrames

(* Who keeps a pointer to f that was counted. *)
Descriptors(f) == { x \in Procs \X Fds : ofile[x[1]][x[2]] = f }

Inherited(f) == { x \in Procs \X Slots :
    x[2] \in Maps(x[1], f) /\ ~vmas[x[1]][x[2]].own }

(* The count of an open file is the number of its descriptors and of the   *)
(* mappings fork copied: what fork takes, close, exit and clean_vma give   *)
(* back.  Mappings made by mmap itself are not counted, so this is lost    *)
(* when a process that made one exits, or one that was counted is          *)
(* overwritten by a mapping that grows.                                    *)
CountsHolders ==
    over = "no" => \A f \in Files \ spoiled :
        ref[f] = Cardinality(Descriptors(f)) + Cardinality(Inherited(f))

(* Without MAP_GROWSUP, munmap finds the mapping of any page that is       *)
(* mapped, after whatever mmap, munmap, fork, exec and the reuse of places *)
(* in ptable, and does not panic with "No vma found".                      *)
MappedIsFound ==
    \A p \in Procs :
        state[p] = "running" /\ (\A i \in Slots : "MAP_GROWSUP" \notin vmas[p][i].flags) =>
            \A a \in pages[p] :
                \/ a \in call[p].addr .. call[p].addr + call[p].done - 1
                \/ \E i \in Slots : vmas[p][i].valid /\ a \in vmas[p][i].addr .. vmas[p][i].end - 1
=============================================================================
