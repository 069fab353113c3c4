------------------------------ MODULE MmapProofs ------------------------------
(***************************************************************************)
(* Proofs about p5's mappings for any number of processes, files, pages    *)
(* and frames, and any calls: frames are conserved, the counts of files    *)
(* are right while nothing spoils them, and what mmap mapped is found.     *)
(***************************************************************************)
EXTENDS Mmap, FiniteSetTheorems, WellFoundedInduction, TLAPS

(* What exit, clean_vma and wait have cleared is clear.                    *)
Emptied ==
    \A p \in Procs :
        /\ state[p] # "running" => \A d \in Fds : ofile[p][d] = 0
        /\ state[p] \in {"zombie", "unused"} => \A i \in Slots : ~vmas[p][i].valid
        /\ state[p] = "unused" => pages[p] = {}

(* A place mmap may take has never been used.                              *)
Places ==
    \A p \in Procs : \A i \in Slots : vmas[p][i].addr = 0 =>
        vmas[p][i].end = 0 /\ ~vmas[p][i].valid /\ vmas[p][i].flags = {}

(* An mmap in progress has mapped what it has done of its region, and      *)
(* nothing else is mapped there.                                           *)
InCall(p) ==
    LET c == call[p] IN
    /\ state[p] = "running"
    /\ c.addr \in Area /\ c.addr + c.len - 1 <= NPages
    /\ \A a \in c.addr .. c.addr + c.len - 1 : a \in pages[p] <=> a < c.addr + c.done
    /\ vmas[p][c.slot].addr = 0

Calling == \A p \in Procs : call[p] = Idle \/ InCall(p)

IInv ==
    /\ TypeOK /\ Emptied /\ Places /\ Calling
    /\ FramesConserved /\ CountsHolders /\ MappedIsFound

-----------------------------------------------------------------------------
(* The smallest number.  (It is what an induction would be used for.) *)
LEMMA FirstIsThere ==
    ASSUME NEW S \in SUBSET Nat, S # {}
    PROVE  First(S) \in S
<1> DEFINE Less == OpToRel(<, Nat)
<1>1. IsWellFoundedOn(Less, Nat)
  BY NatLessThanWellFounded
<1>2. \E x \in S : \A y \in S : <<y, x>> \notin Less
  <2> HIDE DEF Less
  <2> QED BY <1>1, WFMin
<1>3. \A x, y \in Nat : <<y, x>> \notin Less => x <= y
  BY DEF OpToRel
<1>4. \E x \in S : \A y \in S : x <= y
  BY <1>2, <1>3
<1> QED BY <1>4 DEF First

-----------------------------------------------------------------------------
(* Counting pairs: of a process with a page, a descriptor or a place.      *)

LEMMA RowAdded ==
    ASSUME NEW M, IsFiniteSet(M), NEW p, NEW S, IsFiniteSet(S),
           \A s \in S : <<p, s>> \notin M
    PROVE  Cardinality(M \cup ({p} \X S)) = Cardinality(M) + Cardinality(S)
<1>1. IsFiniteSet({p} \X S) /\ Cardinality({p} \X S) = Cardinality(S)
  <2>1. IsFiniteSet({p}) /\ Cardinality({p}) = 1
    BY FS_Singleton
  <2> QED BY <2>1, FS_Product, FS_CardinalityType
<1>2. M \cap ({p} \X S) = {}
  OBVIOUS
<1>3. Cardinality(M \cap ({p} \X S)) = 0
  BY <1>2, FS_EmptySet
<1> HIDE <1>2
<1>4. Cardinality(M \cup ({p} \X S)) = Cardinality(M) + Cardinality({p} \X S) - Cardinality(M \cap ({p} \X S))
  BY <1>1, FS_Union, Zenon
<1> QED BY <1>1, <1>3, <1>4, FS_CardinalityType

LEMMA RowRemoved ==
    ASSUME NEW M, IsFiniteSet(M), NEW p, NEW S, IsFiniteSet(S),
           \A s \in S : <<p, s>> \in M
    PROVE  Cardinality(M \ ({p} \X S)) = Cardinality(M) - Cardinality(S)
<1>1. IsFiniteSet({p} \X S) /\ Cardinality({p} \X S) = Cardinality(S)
  <2>1. IsFiniteSet({p}) /\ Cardinality({p}) = 1
    BY FS_Singleton
  <2> QED BY <2>1, FS_Product, FS_CardinalityType
<1>2. M \cap ({p} \X S) = {p} \X S
  OBVIOUS
<1>3. Cardinality(M \ ({p} \X S)) = Cardinality(M) - Cardinality(M \cap ({p} \X S))
  BY FS_Difference, Zenon
<1> QED BY <1>1, <1>2, <1>3

LEMMA Finite ==
    /\ \A S \in SUBSET Area : IsFiniteSet(S) /\ Cardinality(S) \in Nat
    /\ \A S \in SUBSET Fds : IsFiniteSet(S) /\ Cardinality(S) \in Nat
    /\ \A S \in SUBSET Slots : IsFiniteSet(S) /\ Cardinality(S) \in Nat
    /\ IsFiniteSet(Mapped) /\ Cardinality(Mapped) \in Nat
    /\ \A f : IsFiniteSet(Descriptors(f)) /\ IsFiniteSet(Inherited(f))
<1>1. IsFiniteSet(Area) /\ IsFiniteSet(Fds) /\ IsFiniteSet(Slots)
  BY FS_Interval, MmapAssumption DEF Area, Fds, Slots
<1>2. /\ IsFiniteSet(Procs \X Area) /\ IsFiniteSet(Procs \X Fds)
      /\ IsFiniteSet(Procs \X Slots)
  BY <1>1, FS_Product, MmapAssumption
<1>3. \A S : IsFiniteSet(S) => \A T \in SUBSET S : IsFiniteSet(T) /\ Cardinality(T) \in Nat
  BY FS_Subset, FS_CardinalityType
<1>4. /\ Mapped \in SUBSET (Procs \X Area)
      /\ \A f : Descriptors(f) \in SUBSET (Procs \X Fds)
      /\ \A f : Inherited(f) \in SUBSET (Procs \X Slots)
  BY DEF Mapped, Descriptors, Inherited
<1>5. /\ \A S \in SUBSET Area : IsFiniteSet(S) /\ Cardinality(S) \in Nat
      /\ \A S \in SUBSET Fds : IsFiniteSet(S) /\ Cardinality(S) \in Nat
      /\ \A S \in SUBSET Slots : IsFiniteSet(S) /\ Cardinality(S) \in Nat
  BY <1>1, <1>3
<1> QED BY <1>2, <1>3, <1>4, <1>5

-----------------------------------------------------------------------------
LEMMA CallFields ==
    ASSUME NEW c \in Calls
    PROVE  /\ c.addr \in Nat /\ c.len \in Nat /\ c.done \in Nat /\ c.slot \in Slots
           /\ c.flags \in SUBSET AllFlags /\ c.fd \in Fds
BY DEF Calls

LEMMA VMAFields ==
    ASSUME NEW v \in VMAs
    PROVE  /\ v.addr \in Nat /\ v.end \in Nat /\ v.flags \in SUBSET AllFlags /\ v.fd \in Fds
           /\ v.pf \in Files \cup {0} /\ v.next \in Slots /\ v.valid \in BOOLEAN /\ v.own \in BOOLEAN
BY DEF VMAs

LEMMA VMAIs ==
    ASSUME NEW v \in VMAs
    PROVE  v = [addr |-> v.addr, end |-> v.end, flags |-> v.flags, fd |-> v.fd, pf |-> v.pf,
                next |-> v.next, valid |-> v.valid, own |-> v.own]
BY DEF VMAs

LEMMA IdleIs == Idle \in Calls /\ Idle.addr = 0 /\ Idle.done = 0
BY MmapAssumption DEF Idle, Calls, Slots, Fds

LEMMA InitIInv == Init => IInv
<1> SUFFICES ASSUME Init PROVE IInv
  OBVIOUS
<1> USE MmapAssumption DEF Init
<1>1. PICK p \in Procs : state = [q \in Procs |-> IF q = p THEN "running" ELSE "unused"]
  OBVIOUS
<1>2. 0 \in Slots /\ 0 \in Fds
  BY DEF Slots, Fds
<1>3. TypeOK
  BY <1>1, <1>2 DEF TypeOK, Unused, Idle, VMAs, Calls
<1>4. Emptied /\ Places /\ Calling /\ MappedIsFound
  BY <1>1 DEF Emptied, Places, Calling, MappedIsFound, Unused
<1>5. FramesConserved
  <2>1. Mapped = {}
    BY DEF Mapped
  <2> QED BY <2>1, FS_EmptySet DEF FramesConserved
<1>6. CountsHolders
  <2>1. \A f \in Files : Descriptors(f) = {} /\ Inherited(f) = {}
    BY DEF Descriptors, Inherited, Maps, Unused
  <2>2. \A f \in Files : Cardinality(Descriptors(f)) = 0 /\ Cardinality(Inherited(f)) = 0
    BY <2>1, FS_EmptySet, Zenon
  <2>3. \A f \in Files : ref[f] = 0
    OBVIOUS
  <2> QED BY <2>2, <2>3 DEF CountsHolders
<1> QED BY <1>3, <1>4, <1>5, <1>6 DEF IInv

(* The kernel that ends, by a panic or a fault, changes nothing else.      *)
LEMMA EndIInv ==
    ASSUME IInv, NEW how \in {"panic", "fault"}, End(how)
    PROVE  IInv'
<1> USE DEF IInv, End
<1>1. TypeOK' /\ Emptied' /\ Places' /\ Calling'
  BY DEF TypeOK, Emptied, Places, Calling, InCall
<1>2. FramesConserved' /\ CountsHolders' /\ MappedIsFound'
  BY DEF FramesConserved, Mapped, CountsHolders, MappedIsFound
<1> QED BY <1>1, <1>2

(* Frames taken for pages of p, and given back.                            *)
LEMMA PageTaken ==
    ASSUME TypeOK, NEW p \in Procs, NEW a \in Area \ pages[p],
           pages' = [pages EXCEPT ![p] = @ \cup {a}], free' = free - 1, FramesConserved
    PROVE  FramesConserved'
<1>1. Mapped' = Mapped \cup {<<p, a>>} /\ <<p, a>> \notin Mapped
  BY DEF Mapped, TypeOK
<1>2. Cardinality(Mapped') = Cardinality(Mapped) + 1
  BY <1>1, Finite, FS_AddElement, Zenon
<1> QED BY <1>2, Finite, MmapAssumption DEF FramesConserved, TypeOK

LEMMA PagesGiven ==
    ASSUME TypeOK, NEW p \in Procs, NEW S \in SUBSET pages[p],
           pages' = [pages EXCEPT ![p] = @ \ S], free' = free + Cardinality(S), FramesConserved
    PROVE  FramesConserved' /\ free' \in 0 .. NFrames
<1>1. S \in SUBSET Area
  BY DEF TypeOK
<1>2. Mapped' = Mapped \ ({p} \X S) /\ \A a \in S : <<p, a>> \in Mapped
  BY <1>1 DEF Mapped, TypeOK
<1>3. IsFiniteSet(S) /\ IsFiniteSet(Mapped) /\ Cardinality(S) \in Nat
  BY <1>1, Finite
<1>4. Cardinality(Mapped') = Cardinality(Mapped) - Cardinality(S)
  BY <1>2, <1>3, RowRemoved
<1>5. IsFiniteSet(Mapped') /\ Cardinality(Mapped') \in Nat
  BY <1>2, <1>3, FS_Difference, FS_CardinalityType
<1> QED BY <1>3, <1>4, <1>5, Finite, MmapAssumption DEF FramesConserved, TypeOK

-----------------------------------------------------------------------------
(* Steps that take or give back frames.  None of them touches the counts.  *)

LEMMA CountsKept ==
    ASSUME CountsHolders, UNCHANGED <<vmas, ofile, ref, over, spoiled>>
    PROVE  CountsHolders'
BY DEF CountsHolders, Descriptors, Inherited, Maps

LEMMA mmapIInv ==
    ASSUME IInv, NEW p \in Procs, mmap(p)
    PROVE  IInv'
<1> USE DEF IInv, mmap, User
<1>1. PICK len \in Lengths, flags \in Kinds, d \in Fds : \E addr \in Regions(p, len) :
        LET empty == { i \in Slots : vmas[p][i].addr = 0 }
        IN  /\ empty # {}
            /\ call' = [call EXCEPT ![p] =
                 [addr |-> addr, len |-> len, done |-> 0, slot |-> First(empty),
                  flags |-> flags, fd |-> d]]
  BY Zenon
<1>2. PICK addr \in Regions(p, len) :
        LET empty == { i \in Slots : vmas[p][i].addr = 0 }
        IN  /\ empty # {}
            /\ call' = [call EXCEPT ![p] =
                 [addr |-> addr, len |-> len, done |-> 0, slot |-> First(empty),
                  flags |-> flags, fd |-> d]]
  BY <1>1
<1>3. PICK slot \in Slots :
        /\ vmas[p][slot].addr = 0
        /\ call' = [call EXCEPT ![p] =
             [addr |-> addr, len |-> len, done |-> 0, slot |-> slot, flags |-> flags, fd |-> d]]
  <2> DEFINE empty == { i \in Slots : vmas[p][i].addr = 0 }
  <2>1. First(empty) \in empty
    BY <1>2, FirstIsThere DEF Slots
  <2> QED BY <1>2, <2>1
<1> DEFINE c == [addr |-> addr, len |-> len, done |-> 0, slot |-> slot, flags |-> flags, fd |-> d]
<1>4. /\ addr \in Area /\ len \in Nat \ {0} /\ flags \subseteq AllFlags
      /\ addr .. addr + len - 1 \subseteq Area \ pages[p]
  BY MmapAssumption DEF Regions
<1>5. call' = [call EXCEPT ![p] = c] /\ UNCHANGED <<state, pages, table, vmas, ofile, ref, free, over, spoiled>>
  BY <1>3
<1>6. c \in Calls
  BY <1>3, <1>4 DEF Area, Calls
<1>7. TypeOK'
  BY <1>4, <1>5, <1>6 DEF TypeOK
<1>8. Calling'
  <2>1. addr + len - 1 <= NPages
    BY <1>4, MmapAssumption DEF Area
  <2>2. InCall(p)'
    <3>1. c = call'[p]
      BY <1>5 DEF TypeOK
    <3>2. \A a \in addr .. addr + len - 1 : a \notin pages[p] /\ a \in Int
      BY <1>4
    <3>3. \A a \in addr .. addr + len - 1 : a \in pages[p] <=> a < addr + 0
      BY <1>4, <3>2 DEF Area
    <3>4. c.addr = addr /\ c.len = len /\ c.done = 0 /\ c.slot = slot
      OBVIOUS
    <3> HIDE DEF c
    <3> QED BY <1>3, <1>4, <1>5, <2>1, <3>1, <3>3, <3>4 DEF InCall
  <2>3. \A q \in Procs \ {p} : call'[q] = Idle \/ InCall(q)'
    BY <1>5 DEF Calling, InCall, TypeOK
  <2> QED BY <2>2, <2>3 DEF Calling
<1>9. Emptied' /\ Places' /\ FramesConserved'
  BY <1>5 DEF Emptied, Places, FramesConserved, Mapped
<1>10. CountsHolders'
  BY <1>5, CountsKept
<1>11. MappedIsFound'
  <2>1. call[p].addr = 0 /\ call[p].done = 0
    BY DEF Idle
  <2>2. \A a : a \notin call[p].addr .. call[p].addr + call[p].done - 1
    BY <2>1
  <2>3. \A q \in Procs \ {p} : call'[q] = call[q]
    BY <1>5 DEF TypeOK
  <2> QED BY <1>5, <2>2, <2>3 DEF MappedIsFound
<1> QED BY <1>7, <1>8, <1>9, <1>10, <1>11

LEMMA MmapFailsIInv ==
    ASSUME IInv, NEW p \in Procs, MmapFails(p)
    PROVE  IInv'
<1> DEFINE c == call[p]
           undone == c.addr .. c.addr + c.done - 1
<1> USE DEF IInv
<1>1. /\ c # Idle
      /\ pages' = [pages EXCEPT ![p] = @ \ undone]
      /\ free' = free + Cardinality(undone)
      /\ call' = [call EXCEPT ![p] = Idle]
      /\ UNCHANGED <<state, table, vmas, ofile, ref, over, spoiled>>
  BY DEF MmapFails
<1>2. c \in Calls /\ c.done < c.len
  BY <1>1 DEF TypeOK
<1>3. undone \in SUBSET pages[p]
  <2>1. InCall(p)
    BY <1>1 DEF Calling
  <2>2. c.addr \in Nat /\ c.len \in Nat /\ c.done \in Nat /\ c.done < c.len
    BY <1>2, CallFields
  <2>3. \A a \in undone : a \in c.addr .. c.addr + c.len - 1 /\ a < c.addr + c.done
    BY <2>2
  <2>4. \A a \in c.addr .. c.addr + c.len - 1 : a \in pages[p] <=> a < c.addr + c.done
    BY <2>1 DEF InCall
  <2> QED BY <2>3, <2>4
<1>4. FramesConserved' /\ free' \in 0 .. NFrames
  BY <1>1, <1>3, PagesGiven
<1>6. TypeOK'
  BY <1>1, <1>4, IdleIs DEF TypeOK
<1>7. Emptied' /\ Places' /\ Calling'
  <2>1. \A q \in Procs \ {p} : pages'[q] = pages[q] /\ call'[q] = call[q]
    BY <1>1 DEF TypeOK
  <2>2. pages'[p] \subseteq pages[p] /\ call'[p] = Idle
    BY <1>1 DEF TypeOK
  <2> QED BY <1>1, <2>1, <2>2 DEF Emptied, Places, Calling, InCall
<1>8. CountsHolders'
  BY <1>1, CountsKept
<1>9. MappedIsFound'
  BY <1>1 DEF MappedIsFound, TypeOK
<1> QED BY <1>4, <1>6, <1>7, <1>8, <1>9

LEMMA MmapPageIInv ==
    ASSUME IInv, NEW p \in Procs, MmapPage(p)
    PROVE  IInv'
<1> DEFINE c == call[p]
           last == c.addr + c.done
<1> USE DEF IInv
<1>1. c # Idle /\ free > 0
  BY DEF MmapPage
<1>2. CASE End("fault")
  BY <1>2, EndIInv
<1>3. ASSUME ~End("fault") PROVE IInv'
  <2>1. /\ "MAP_ANONYMOUS" \in c.flags \/ ofile[p][c.fd] # 0
        /\ free' = free - 1
        /\ pages' = [pages EXCEPT ![p] = @ \cup {last}]
        /\ table' = [table EXCEPT ![p] = TRUE]
        /\ UNCHANGED <<state, ofile, ref, over, spoiled>>
    BY <1>3 DEF MmapPage
  <2>2. \/ /\ c.done + 1 < c.len
           /\ call' = [call EXCEPT ![p].done = @ + 1]
           /\ UNCHANGED vmas
        \/ /\ c.done + 1 = c.len
           /\ vmas' = [vmas EXCEPT ![p][c.slot] = Mapping(p)]
           /\ call' = [call EXCEPT ![p] = Idle]
    BY <1>3 DEF MmapPage
  <2>3. /\ c.addr \in Nat /\ c.len \in Nat /\ c.done \in Nat /\ c.slot \in Slots
        /\ c.flags \in SUBSET AllFlags /\ c.fd \in Fds
        /\ c.done < c.len
    BY <1>1, CallFields DEF TypeOK
  <2>4. /\ state[p] = "running" /\ c.addr \in Area /\ c.addr + c.len - 1 <= NPages
        /\ \A a \in c.addr .. c.addr + c.len - 1 : a \in pages[p] <=> a < c.addr + c.done
        /\ vmas[p][c.slot].addr = 0
    BY <1>1 DEF Calling, InCall
  <2>5. last \in Area \ pages[p]
    <3>1. last \in c.addr .. c.addr + c.len - 1 /\ last \in Area
      BY <2>3, <2>4, MmapAssumption DEF Area
    <3> QED BY <2>3, <2>4, <3>1
  <2>6. FramesConserved'
    BY <2>1, <2>5, PageTaken
  <2>7. /\ pages'[p] = pages[p] \cup {last}
        /\ \A q \in Procs \ {p} : /\ pages'[q] = pages[q] /\ vmas'[q] = vmas[q]
                                  /\ call'[q] = call[q]
    BY <2>1, <2>2 DEF TypeOK
  <2>8. CASE c.done + 1 < c.len
    <3> DEFINE d == call'[p]
    <3>0. c \in Calls /\ call \in [Procs -> Calls]
      BY DEF TypeOK
    <3>1. vmas' = vmas /\ call' = [call EXCEPT ![p].done = @ + 1]
      BY <2>2, <2>8, <2>3
    <3>2. /\ d \in Calls /\ call' \in [Procs -> Calls]
          /\ d.addr = c.addr /\ d.len = c.len /\ d.slot = c.slot
          /\ d.done = c.done + 1
      BY <2>3, <3>0, <3>1 DEF Calls
    <3>3. TypeOK'
      BY <1>1, <2>1, <2>5, <2>7, <2>8, <3>1, <3>2, MmapAssumption DEF TypeOK
    <3>4. InCall(p)'
      <4>1. \A a \in c.addr .. c.addr + c.len - 1 : a \in pages'[p] <=> a < c.addr + (c.done + 1)
        BY <2>3, <2>4, <2>7
      <4> QED BY <2>1, <2>4, <3>1, <3>2, <4>1 DEF InCall
    <3>5. Emptied' /\ Places' /\ Calling'
      BY <2>1, <2>4, <2>7, <3>1, <3>4 DEF Emptied, Places, Calling, InCall
    <3>6. CountsHolders'
      BY <2>1, <3>1, CountsKept
    <3>7. MappedIsFound'
      <4>1. \A a \in pages'[p] : a \in pages[p] \/ a \in d.addr .. d.addr + d.done - 1
        BY <2>3, <2>7, <3>2
      <4>2. \A a \in c.addr .. c.addr + c.done - 1 : a \in d.addr .. d.addr + d.done - 1
        BY <2>3, <3>2
      <4> QED BY <2>1, <2>7, <3>1, <4>1, <4>2 DEF MappedIsFound
    <3> QED BY <2>6, <3>3, <3>5, <3>6, <3>7
  <2>9. CASE c.done + 1 = c.len
    <3>1. vmas' = [vmas EXCEPT ![p][c.slot] = Mapping(p)] /\ call' = [call EXCEPT ![p] = Idle]
      BY <2>2, <2>9, <2>3
    <3>2. /\ Mapping(p) \in VMAs
          /\ Mapping(p).addr = c.addr /\ Mapping(p).end = c.addr + c.len
          /\ Mapping(p).valid /\ (Mapping(p).pf # 0 => Mapping(p).own)
      <4>1. ofile[p][c.fd] \in Files \cup {0} /\ 0 \in Slots
        BY <2>3, MmapAssumption DEF TypeOK, Slots
      <4> DEFINE pf == IF "MAP_ANONYMOUS" \in c.flags THEN 0 ELSE ofile[p][c.fd]
                 own == "MAP_ANONYMOUS" \notin c.flags
      <4>2. Mapping(p) = [addr |-> c.addr, end |-> c.addr + c.len, flags |-> c.flags, fd |-> c.fd,
                          pf |-> pf, next |-> 0, valid |-> TRUE, own |-> own]
        BY DEF Mapping
      <4>3. pf \in Files \cup {0} /\ own \in BOOLEAN /\ (pf # 0 => own) /\ c.addr + c.len \in Nat
        BY <2>3, <4>1
      <4> HIDE DEF pf, own
      <4> QED BY <2>3, <4>1, <4>2, <4>3 DEF VMAs
    <3>3. /\ vmas'[p][c.slot] = Mapping(p)
          /\ \A i \in Slots \ {c.slot} : vmas'[p][i] = vmas[p][i]
          /\ vmas' \in [Procs -> [Slots -> VMAs]]
      BY <2>3, <3>1, <3>2 DEF TypeOK
    <3>4. Idle \in Calls
      BY IdleIs
    <3>5. TypeOK'
      BY <1>1, <2>1, <2>5, <2>7, <3>1, <3>3, <3>4, MmapAssumption DEF TypeOK
    <3>6. Emptied' /\ Places' /\ Calling'
      <4>1. Emptied'
        BY <2>1, <2>4, <2>7 DEF Emptied
      <4>2. Places'
        BY <2>4, <2>7, <3>2, <3>3 DEF Places, Area
      <4>3. Calling'
        BY <2>1, <2>7, <3>1 DEF Calling, InCall, TypeOK
      <4> QED BY <4>1, <4>2, <4>3
    <3>7. CountsHolders'
      <4>1. ~vmas[p][c.slot].valid
        BY <2>3, <2>4 DEF Places
      <4>2. \A f \in Files, q \in Procs, i \in Slots :
               i \in Maps(q, f)' /\ ~vmas'[q][i].own <=> i \in Maps(q, f) /\ ~vmas[q][i].own
        BY <2>3, <2>7, <3>2, <3>3, <4>1, MmapAssumption DEF Maps
      <4>3. \A f \in Files : Inherited(f)' = Inherited(f) /\ Descriptors(f)' = Descriptors(f)
        BY <2>1, <4>2 DEF Inherited, Descriptors
      <4> QED BY <2>1, <4>3 DEF CountsHolders
    <3>8. MappedIsFound'
      <4>1. \A a \in c.addr .. c.addr + c.done - 1 : a \in c.addr .. c.addr + c.len - 1
        BY <2>3, <2>9
      <4>2. last \in c.addr .. c.addr + c.len - 1
        BY <2>3, <2>9
      <4>3. ~vmas[p][c.slot].valid /\ vmas[p][c.slot].flags = {}
        BY <2>3, <2>4 DEF Places
      <4>4. ASSUME \A i \in Slots : "MAP_GROWSUP" \notin vmas'[p][i].flags, NEW a \in pages'[p]
            PROVE  \E i \in Slots : vmas'[p][i].valid /\ a \in vmas'[p][i].addr .. vmas'[p][i].end - 1
        <5>1. \A i \in Slots : "MAP_GROWSUP" \notin vmas[p][i].flags
          BY <3>3, <4>3, <4>4
        <5>2. CASE a \in c.addr .. c.addr + c.len - 1
          BY <5>2, <2>3, <3>2, <3>3
        <5>3. CASE a \notin c.addr .. c.addr + c.len - 1
          BY <5>1, <5>3, <2>4, <2>7, <3>3, <4>1, <4>2, <4>3, <4>4 DEF MappedIsFound
        <5> QED BY <5>2, <5>3
      <4> QED BY <2>1, <2>7, <4>4 DEF MappedIsFound
    <3> QED BY <2>6, <3>5, <3>6, <3>7, <3>8
  <2> QED BY <2>2, <2>8, <2>9
<1> QED BY <1>2, <1>3

(* Pages given back to the free frames: of munmap some, of exec and wait   *)
(* all.  A place that wait gives up is clear.                              *)
LEMMA GivenIInv ==
    ASSUME IInv, NEW p \in Procs, call[p] = Idle, NEW S \in SUBSET pages[p],
           pages' = [pages EXCEPT ![p] = @ \ S], free' = free + Cardinality(S),
           \/ UNCHANGED <<state, table>>
           \/ /\ S = pages[p] /\ table' = [table EXCEPT ![p] = FALSE]
              /\ \/ UNCHANGED state
                 \/ state[p] = "zombie" /\ state' = [state EXCEPT ![p] = "unused"],
           UNCHANGED <<vmas, ofile, ref, call, over, spoiled>>
    PROVE  IInv'
<1> USE DEF IInv
<1>1. FramesConserved' /\ free' \in 0 .. NFrames
  BY PagesGiven
<1>2. /\ pages'[p] \subseteq pages[p]
      /\ \A q \in Procs \ {p} : pages'[q] = pages[q] /\ state'[q] = state[q] /\ table'[q] = table[q]
  BY DEF TypeOK
<1>3. TypeOK'
  BY <1>1, <1>2 DEF TypeOK
<1>4. Emptied' /\ Places' /\ Calling'
  BY <1>2 DEF Emptied, Places, Calling, InCall, TypeOK
<1>5. CountsHolders'
  BY CountsKept
<1>6. MappedIsFound'
  <2> SUFFICES ASSUME NEW q \in Procs, state'[q] = "running",
                      \A i \in Slots : "MAP_GROWSUP" \notin vmas[q][i].flags,
                      NEW a \in pages'[q]
               PROVE  \/ a \in call[q].addr .. call[q].addr + call[q].done - 1
                      \/ \E i \in Slots : vmas[q][i].valid /\ a \in vmas[q][i].addr .. vmas[q][i].end - 1
    BY DEF MappedIsFound
  <2>1. a \in pages[q] /\ state[q] = "running"
    BY <1>2 DEF TypeOK
  <2> QED BY ONLY MappedIsFound, <2>1, q \in Procs,
                  \A i \in Slots : "MAP_GROWSUP" \notin vmas[q][i].flags DEF MappedIsFound
<1> QED BY <1>1, <1>3, <1>4, <1>5, <1>6

LEMMA munmapIInv ==
    ASSUME IInv, NEW p \in Procs, munmap(p)
    PROVE  IInv'
<1>1. User(p) /\ \E addr \in Area : \E i, e : End("panic") \/ Unmapped(p, addr, i, e)
  BY DEF munmap
<1>2. PICK addr \in Area : \E i, e : End("panic") \/ Unmapped(p, addr, i, e)
  BY <1>1
<1>3. PICK i, e : End("panic") \/ Unmapped(p, addr, i, e)
  BY <1>2
<1> DEFINE gone == (addr .. addr + e - i) \cap pages[p]
<1>4. \/ End("panic") \/ End("fault")
      \/ /\ pages' = [pages EXCEPT ![p] = @ \ gone]
         /\ free' = free + Cardinality(gone)
         /\ UNCHANGED <<state, table, vmas, ofile, ref, call, over, spoiled>>
  BY <1>3 DEF Unmapped
<1>5. gone \in SUBSET pages[p] /\ call[p] = Idle
  BY <1>1 DEF User
<1> HIDE DEF gone
<1> QED BY <1>4, <1>5, EndIInv, GivenIInv

LEMMA execIInv ==
    ASSUME IInv, NEW p \in Procs, exec(p)
    PROVE  IInv'
<1>1. /\ call[p] = Idle
      /\ pages' = [pages EXCEPT ![p] = @ \ pages[p]]
      /\ free' = free + Cardinality(pages[p])
      /\ table' = [table EXCEPT ![p] = FALSE]
      /\ UNCHANGED <<state, vmas, ofile, ref, call, over, spoiled>>
  BY DEF exec, User
<1> QED BY <1>1, GivenIInv

LEMMA waitIInv ==
    ASSUME IInv, NEW p \in Procs, wait(p)
    PROVE  IInv'
<1>1. /\ state[p] = "zombie" /\ state' = [state EXCEPT ![p] = "unused"]
      /\ pages' = [pages EXCEPT ![p] = @ \ pages[p]]
      /\ free' = free + Cardinality(pages[p])
      /\ table' = [table EXCEPT ![p] = FALSE]
      /\ UNCHANGED <<vmas, ofile, ref, call, over, spoiled>>
  BY DEF wait
<1>2. call[p] = Idle
  BY <1>1 DEF IInv, Calling, InCall
<1> QED BY <1>1, <1>2, GivenIInv

-----------------------------------------------------------------------------
(* Steps that change who holds a file. *)

LEMMA openIInv ==
    ASSUME IInv, NEW p \in Procs, open(p)
    PROVE  IInv'
<1> USE DEF IInv
<1> DEFINE fds == { d \in Fds : ofile[p][d] = 0 }
           fs == { f \in Files : ref[f] = 0 }
<1>1. First(fds) \in fds /\ First(fs) \in fs
  BY FirstIsThere, MmapAssumption DEF open, Fds
<1>2. PICK d \in fds, f \in fs :
        ofile' = [ofile EXCEPT ![p][d] = f] /\ ref' = [ref EXCEPT ![f] = 1]
  BY <1>1 DEF open
<1>3. UNCHANGED <<state, pages, table, vmas, free, call, over, spoiled>> /\ state[p] = "running"
  BY DEF open, User
<1>4. /\ d \in Fds /\ f \in Files /\ ofile[p][d] = 0 /\ ref[f] = 0
      /\ ofile'[p] = [ofile[p] EXCEPT ![d] = f] /\ \A q \in Procs \ {p} : ofile'[q] = ofile[q]
  BY <1>2 DEF TypeOK
<1>5. TypeOK'
  BY <1>2, <1>3, <1>4 DEF TypeOK
<1>6. Emptied' /\ Places' /\ Calling' /\ FramesConserved' /\ MappedIsFound'
  BY <1>3, <1>4 DEF Emptied, Places, Calling, InCall, FramesConserved, Mapped, MappedIsFound
<1>7. CountsHolders'
  <2> SUFFICES ASSUME over = "no", NEW g \in Files \ spoiled
               PROVE  ref'[g] = Cardinality(Descriptors(g)') + Cardinality(Inherited(g)')
    BY <1>3 DEF CountsHolders
  <2>1. ref[g] = Cardinality(Descriptors(g)) + Cardinality(Inherited(g))
    BY DEF CountsHolders
  <2>2. Inherited(g)' = Inherited(g)
    BY <1>3 DEF Inherited, Maps
  <2>3. CASE g = f
    <3>0. ofile[p][d] # g
      BY <1>4, <2>3, MmapAssumption
    <3>1. Descriptors(g)' = Descriptors(g) \cup {<<p, d>>} /\ <<p, d>> \notin Descriptors(g)
      <4>1. /\ ofile'[p][d] = g /\ \A e \in Fds \ {d} : ofile'[p][e] = ofile[p][e]
            /\ \A q \in Procs \ {p} : ofile'[q] = ofile[q]
        BY <1>4, <2>3 DEF TypeOK
      <4>2. <<p, d>> \in Procs \X Fds /\ <<p, d>> \notin Descriptors(g)
        BY <1>4, <3>0 DEF Descriptors
      <4>3. \A x \in Procs \X Fds : x # <<p, d>> => ofile'[x[1]][x[2]] = ofile[x[1]][x[2]]
        BY <4>1
      <4> QED BY <4>1, <4>2, <4>3 DEF Descriptors
    <3>2. Cardinality(Descriptors(g)') = Cardinality(Descriptors(g)) + 1
      BY <3>1, Finite, FS_AddElement, Zenon
    <3>3. Cardinality(Descriptors(g)) \in Nat /\ Cardinality(Inherited(g)) \in Nat
      BY Finite, FS_CardinalityType
    <3> QED BY <1>2, <1>4, <2>1, <2>2, <2>3, <3>2, <3>3 DEF TypeOK
  <2>4. CASE g # f
    <3>1. Descriptors(g)' = Descriptors(g) /\ ref'[g] = ref[g]
      BY <1>2, <1>4, <2>4, MmapAssumption DEF Descriptors, TypeOK
    <3> QED BY <2>1, <2>2, <3>1
  <2> QED BY <2>3, <2>4
<1> QED BY <1>5, <1>6, <1>7

LEMMA closeIInv ==
    ASSUME IInv, NEW p \in Procs, NEW d \in Fds, close(p, d)
    PROVE  IInv'
<1> USE DEF IInv
<1> DEFINE f == ofile[p][d]
<1>1. CASE End("panic")
  BY <1>1, EndIInv
<1>2. ASSUME ~End("panic") PROVE IInv'
  <2>1. /\ f # 0 /\ ref[f] >= 1 /\ state[p] = "running"
        /\ ref' = [ref EXCEPT ![f] = @ - 1]
        /\ ofile' = [ofile EXCEPT ![p][d] = 0]
        /\ UNCHANGED <<state, pages, table, vmas, free, call, over, spoiled>>
    BY <1>2 DEF close, User
  <2>2. /\ f \in Files /\ ref[f] \in Nat
        /\ ofile'[p] = [ofile[p] EXCEPT ![d] = 0] /\ \A q \in Procs \ {p} : ofile'[q] = ofile[q]
    BY <2>1 DEF TypeOK
  <2>3. TypeOK'
    BY <2>1, <2>2 DEF TypeOK
  <2>4. Emptied' /\ Places' /\ Calling' /\ FramesConserved' /\ MappedIsFound'
    BY <2>1, <2>2 DEF Emptied, Places, Calling, InCall, FramesConserved, Mapped, MappedIsFound
  <2>5. CountsHolders'
    <3> SUFFICES ASSUME over = "no", NEW g \in Files \ spoiled
                 PROVE  ref'[g] = Cardinality(Descriptors(g)') + Cardinality(Inherited(g)')
      BY <2>1 DEF CountsHolders
    <3>1. ref[g] = Cardinality(Descriptors(g)) + Cardinality(Inherited(g))
      BY DEF CountsHolders
    <3>2. Inherited(g)' = Inherited(g)
      BY <2>1 DEF Inherited, Maps
    <3>3. CASE g = f
      <4>1. Descriptors(g)' = Descriptors(g) \ {<<p, d>>} /\ <<p, d>> \in Descriptors(g)
        BY <2>1, <2>2, <3>3, MmapAssumption DEF Descriptors, TypeOK
      <4>2. Cardinality(Descriptors(g)') = Cardinality(Descriptors(g)) - 1
        BY <4>1, Finite, FS_RemoveElement, Zenon
      <4>3. Cardinality(Descriptors(g)) \in Nat /\ Cardinality(Inherited(g)) \in Nat
        BY Finite, FS_CardinalityType
      <4> QED BY <2>1, <2>2, <3>1, <3>2, <3>3, <4>2, <4>3 DEF TypeOK
    <3>4. CASE g # f
      <4>1. Descriptors(g)' = Descriptors(g) /\ ref'[g] = ref[g]
        BY <2>1, <2>2, <3>4, MmapAssumption DEF Descriptors, TypeOK
      <4> QED BY <3>1, <3>2, <4>1
    <3> QED BY <3>3, <3>4
  <2> QED BY <2>3, <2>4, <2>5
<1> QED BY <1>1, <1>2

LEMMA exitIInv ==
    ASSUME IInv, NEW p \in Procs, User(p), exit(p)
    PROVE  IInv'
<1> USE DEF IInv
<1> DEFINE used(f) == { d \in Fds : ofile[p][d] = f }
<1>1. CASE End("panic")
  BY <1>1, EndIInv
<1>2. ASSUME ~End("panic") PROVE IInv'
  <2>1. /\ \A f \in Files : ref[f] >= Uses(p, f)
        /\ ref' = [f \in Files |-> ref[f] - Uses(p, f)]
        /\ ofile' = [ofile EXCEPT ![p] = [d \in Fds |-> 0]]
        /\ state' = [state EXCEPT ![p] = "exiting"]
        /\ UNCHANGED <<pages, table, vmas, free, call, over, spoiled>>
        /\ state[p] = "running" /\ call[p] = Idle
    BY <1>2 DEF exit, User
  <2>2. /\ \A d \in Fds : ofile'[p][d] = 0
        /\ \A q \in Procs \ {p} : ofile'[q] = ofile[q] /\ state'[q] = state[q]
        /\ state'[p] = "exiting"
    BY <2>1 DEF TypeOK
  <2>3. \A f \in Files : Uses(p, f) \in Nat /\ Uses(p, f) = Cardinality(used(f)) /\ IsFiniteSet(used(f))
    <3>1. \A f : used(f) \in SUBSET Fds
      OBVIOUS
    <3> QED BY <3>1, Finite DEF Uses
  <2>4. TypeOK'
    <3>0. ASSUME NEW f \in Files PROVE ref[f] - Uses(p, f) \in Nat
      <4>1. ref[f] \in Nat /\ Uses(p, f) \in Nat /\ ref[f] >= Uses(p, f)
        BY <2>1, <2>3 DEF TypeOK
      <4> QED BY <4>1
    <3>1. ref' \in [Files -> Nat]
      BY <2>1, <3>0
    <3> QED BY <2>1, <3>1 DEF TypeOK
  <2>5. Emptied' /\ Places' /\ Calling' /\ FramesConserved' /\ MappedIsFound'
    BY <2>1, <2>2 DEF Emptied, Places, Calling, InCall, FramesConserved, Mapped, MappedIsFound
  <2>6. CountsHolders'
    <3> SUFFICES ASSUME over = "no", NEW g \in Files \ spoiled
                 PROVE  ref'[g] = Cardinality(Descriptors(g)') + Cardinality(Inherited(g)')
      BY <2>1 DEF CountsHolders
    <3>1. ref[g] = Cardinality(Descriptors(g)) + Cardinality(Inherited(g))
      BY DEF CountsHolders
    <3>2. Inherited(g)' = Inherited(g)
      BY <2>1 DEF Inherited, Maps
    <3>3. /\ Descriptors(g)' = Descriptors(g) \ ({p} \X used(g))
          /\ \A d \in used(g) : <<p, d>> \in Descriptors(g)
      BY <2>1, <2>2, MmapAssumption DEF Descriptors
    <3>4. IsFiniteSet(Descriptors(g)) /\ IsFiniteSet(Inherited(g)) /\ IsFiniteSet(used(g))
      BY <2>3, Finite
    <3> HIDE DEF used
    <3>5. Cardinality(Descriptors(g) \ ({p} \X used(g))) = Cardinality(Descriptors(g)) - Cardinality(used(g))
      BY <3>3, <3>4, RowRemoved
    <3>6. Cardinality(Descriptors(g)) \in Nat /\ Cardinality(Inherited(g)) \in Nat
      BY <3>4, FS_CardinalityType
    <3> QED BY <2>1, <2>3, <3>1, <3>2, <3>3, <3>5, <3>6
  <2> QED BY <2>4, <2>5, <2>6
<1> QED BY <1>1, <1>2

LEMMA ExitIInv ==
    ASSUME IInv, NEW p \in Procs, Exit(p)
    PROVE  IInv'
BY exitIInv DEF Exit

(* What is taken from the count of a file is what p inherited, unless one  *)
(* of p's mappings of it was made without counting: then it is spoiled.    *)
LEMMA clean_vmaIInv ==
    ASSUME IInv, NEW p \in Procs, clean_vma(p)
    PROVE  IInv'
<1> USE DEF IInv
<1> DEFINE cleared(v) == IF v.valid THEN [v EXCEPT !.valid = FALSE, !.pf = 0, !.own = FALSE] ELSE v
<1>1. CASE End("panic")
  BY <1>1, EndIInv
<1>2. ASSUME ~End("panic") PROVE IInv'
  <2>1. /\ \A f \in Files : Maps(p, f) # {} => ref[f] > Cardinality(Maps(p, f))
        /\ ref' = [f \in Files |-> ref[f] - Cardinality(Maps(p, f))]
        /\ vmas' = [vmas EXCEPT ![p] = [i \in Slots |-> cleared(vmas[p][i])]]
        /\ spoiled' = spoiled \cup { f \in Files : \E i \in Maps(p, f) : vmas[p][i].own }
        /\ state' = [state EXCEPT ![p] = "zombie"]
        /\ UNCHANGED <<pages, table, ofile, free, call, over>>
        /\ state[p] = "exiting"
    BY <1>2, Zenon DEF clean_vma
  <2>2. \A v \in VMAs : /\ cleared(v) \in VMAs /\ ~cleared(v).valid
                        /\ cleared(v).addr = v.addr /\ cleared(v).end = v.end /\ cleared(v).flags = v.flags
    BY DEF VMAs
  <2>3. /\ \A i \in Slots : vmas[p][i] \in VMAs /\ vmas'[p][i] = cleared(vmas[p][i])
        /\ \A q \in Procs \ {p} : vmas'[q] = vmas[q] /\ state'[q] = state[q]
        /\ state'[p] = "zombie"
    BY <2>1 DEF TypeOK
  <2> HIDE DEF cleared
  <2>4. \A f \in Files : Cardinality(Maps(p, f)) \in Nat /\ IsFiniteSet(Maps(p, f))
    <3>1. \A f : Maps(p, f) \in SUBSET Slots
      BY DEF Maps
    <3> QED BY <3>1, Finite
  <2>5. TypeOK'
    <3>1. ASSUME NEW f \in Files PROVE ref[f] - Cardinality(Maps(p, f)) \in Nat
      <4>1. ref[f] \in Nat /\ Cardinality(Maps(p, f)) \in Nat
        BY <2>4 DEF TypeOK
      <4>2. CASE Maps(p, f) = {}
        <5>1. Cardinality(Maps(p, f)) = 0
          BY <4>2, FS_EmptySet, Zenon
        <5> QED BY <4>1, <5>1
      <4>3. CASE Maps(p, f) # {}
        BY <2>1, <4>1, <4>3
      <4> QED BY <4>2, <4>3
    <3>2. ref' \in [Files -> Nat]
      BY <2>1, <3>1
    <3>3. vmas' \in [Procs -> [Slots -> VMAs]]
      BY <2>1, <2>2, <2>3 DEF TypeOK
    <3> QED BY <2>1, <3>2, <3>3 DEF TypeOK
  <2>6. Emptied' /\ Places' /\ Calling' /\ FramesConserved' /\ MappedIsFound'
    <3>1. Emptied' /\ Places'
      BY <2>1, <2>2, <2>3 DEF Emptied, Places
    <3>2. Calling' /\ FramesConserved'
      BY <2>1, <2>3 DEF Calling, InCall, FramesConserved, Mapped
    <3>3. MappedIsFound'
      BY <2>1, <2>3 DEF MappedIsFound
    <3> QED BY <3>1, <3>2, <3>3
  <2>7. CountsHolders'
    <3> SUFFICES ASSUME over = "no", NEW g \in Files \ spoiled'
                 PROVE  ref'[g] = Cardinality(Descriptors(g)') + Cardinality(Inherited(g)')
      BY <2>1 DEF CountsHolders
    <3>1. ref[g] = Cardinality(Descriptors(g)) + Cardinality(Inherited(g))
      BY <2>1 DEF CountsHolders
    <3>2. Descriptors(g)' = Descriptors(g)
      BY <2>1 DEF Descriptors
    <3>3. \A i \in Maps(p, g) : <<p, i>> \in Inherited(g)
      BY <2>1 DEF Inherited, Maps, TypeOK
    <3>4. Inherited(g)' = Inherited(g) \ ({p} \X Maps(p, g))
      BY <2>2, <2>3 DEF Inherited, Maps
    <3>5. IsFiniteSet(Inherited(g)) /\ IsFiniteSet(Descriptors(g)) /\ IsFiniteSet(Maps(p, g))
      BY <2>4, Finite
    <3>6. Cardinality(Inherited(g) \ ({p} \X Maps(p, g))) = Cardinality(Inherited(g)) - Cardinality(Maps(p, g))
      BY <3>3, <3>5, RowRemoved
    <3>7. Cardinality(Descriptors(g)) \in Nat /\ Cardinality(Inherited(g)) \in Nat
      BY <3>5, FS_CardinalityType
    <3> QED BY <2>1, <2>4, <3>1, <3>2, <3>4, <3>6, <3>7
  <2> QED BY <2>5, <2>6, <2>7
<1> QED BY <1>1, <1>2

(* A child starts without descriptors, mappings or pages: what it copies   *)
(* is all it has.                                                          *)
LEMMA forkIInv ==
    ASSUME IInv, NEW p \in Procs, NEW q \in Procs, fork(p, q)
    PROVE  IInv'
<1> USE DEF IInv
<1> DEFINE copy(i) == IF vmas[p][i].valid THEN [vmas[p][i] EXCEPT !.own = FALSE] ELSE vmas[q][i]
           used(f) == { d \in Fds : ofile[p][d] = f }
<1>1. CASE End("panic")
  BY <1>1, EndIInv
<1>2. ASSUME ~End("panic") PROVE IInv'
  <2>1. /\ state' = [state EXCEPT ![q] = "running"]
        /\ ofile' = [ofile EXCEPT ![q] = ofile[p]]
        /\ vmas' = [vmas EXCEPT ![q] = [i \in Slots |-> copy(i)]]
        /\ ref' = [f \in Files |-> ref[f] + Uses(p, f) + Cardinality(Maps(p, f))]
        /\ UNCHANGED <<pages, table, free, call, over, spoiled>>
        /\ state[p] = "running" /\ state[q] = "unused"
    BY <1>2, Zenon DEF fork, User
  <2>2. \A v \in VMAs : LET w == [v EXCEPT !.own = FALSE] IN
          /\ w \in VMAs /\ w.addr = v.addr /\ w.end = v.end /\ w.flags = v.flags
          /\ w.pf = v.pf /\ w.valid = v.valid /\ ~w.own
    BY DEF VMAs
  <2>3. \A i \in Slots :
          /\ vmas[p][i] \in VMAs /\ vmas[q][i] \in VMAs /\ vmas'[q][i] = copy(i) /\ copy(i) \in VMAs
          /\ vmas[p][i].valid => /\ copy(i).addr = vmas[p][i].addr /\ copy(i).pf = vmas[p][i].pf
                                 /\ copy(i).valid /\ ~copy(i).own
          /\ ~vmas[p][i].valid => copy(i) = vmas[q][i]
    BY <2>1, <2>2 DEF TypeOK
  <2> HIDE DEF copy
  <2>4. /\ \A r \in Procs \ {q} : vmas'[r] = vmas[r] /\ ofile'[r] = ofile[r] /\ state'[r] = state[r]
        /\ ofile'[q] = ofile[p] /\ state'[q] = "running" /\ call[q] = Idle
    BY <2>1 DEF TypeOK, Calling, InCall
  <2>5. /\ \A d \in Fds : ofile[q][d] = 0
        /\ \A i \in Slots : ~vmas[q][i].valid
        /\ pages[q] = {}
    BY <2>1 DEF Emptied
  <2>6. \A f \in Files : /\ Uses(p, f) = Cardinality(used(f)) /\ Uses(p, f) \in Nat /\ IsFiniteSet(used(f))
                         /\ Cardinality(Maps(p, f)) \in Nat /\ IsFiniteSet(Maps(p, f))
    <3>1. \A f : Maps(p, f) \in SUBSET Slots /\ used(f) \in SUBSET Fds
      BY DEF Maps
    <3> QED BY <3>1, Finite DEF Uses
  <2>7. TypeOK'
    <3>0. ASSUME NEW f \in Files PROVE ref[f] + Uses(p, f) + Cardinality(Maps(p, f)) \in Nat
      <4>1. ref[f] \in Nat /\ Uses(p, f) \in Nat /\ Cardinality(Maps(p, f)) \in Nat
        BY <2>6 DEF TypeOK
      <4> QED BY <4>1
    <3>1. ref' \in [Files -> Nat]
      BY <2>1, <3>0
    <3>2. vmas' \in [Procs -> [Slots -> VMAs]]
      BY <2>1, <2>3 DEF TypeOK
    <3> QED BY <2>1, <3>1, <3>2 DEF TypeOK
  <2>8. Emptied' /\ Places' /\ Calling' /\ FramesConserved' /\ MappedIsFound'
    <3>1. Emptied'
      BY <2>1, <2>4 DEF Emptied
    <3>2. Places'
      BY <2>3, <2>4 DEF Places
    <3>3. Calling' /\ FramesConserved'
      BY <2>1, <2>4 DEF Calling, InCall, FramesConserved, Mapped
    <3>4. MappedIsFound'
      BY <2>1, <2>4, <2>5 DEF MappedIsFound
    <3> QED BY <3>1, <3>2, <3>3, <3>4
  <2>9. CountsHolders'
    <3> SUFFICES ASSUME over = "no", NEW g \in Files \ spoiled
                 PROVE  ref'[g] = Cardinality(Descriptors(g)') + Cardinality(Inherited(g)')
      BY <2>1 DEF CountsHolders
    <3>1. ref[g] = Cardinality(Descriptors(g)) + Cardinality(Inherited(g)) /\ g # 0
      BY MmapAssumption DEF CountsHolders
    <3>2. /\ Descriptors(g)' = Descriptors(g) \cup ({q} \X used(g))
          /\ \A d \in used(g) : <<q, d>> \notin Descriptors(g)
      BY <2>4, <2>5, <3>1 DEF Descriptors
    <3>3. /\ Inherited(g)' = Inherited(g) \cup ({q} \X Maps(p, g))
          /\ \A i \in Maps(p, g) : <<q, i>> \notin Inherited(g)
      BY <2>1, <2>3, <2>4, <2>5 DEF Inherited, Maps
    <3>4. IsFiniteSet(Descriptors(g)) /\ IsFiniteSet(Inherited(g))
      BY Finite
    <3> HIDE DEF used
    <3>5. Cardinality(Descriptors(g) \cup ({q} \X used(g))) = Cardinality(Descriptors(g)) + Cardinality(used(g))
      BY <2>6, <3>2, <3>4, RowAdded, ZenonT(60)
    <3>6. Cardinality(Inherited(g) \cup ({q} \X Maps(p, g))) = Cardinality(Inherited(g)) + Cardinality(Maps(p, g))
      BY <2>6, <3>3, <3>4, RowAdded, ZenonT(60)
    <3>7. Cardinality(Descriptors(g)) \in Nat /\ Cardinality(Inherited(g)) \in Nat
      BY <3>4, FS_CardinalityType
    <3> QED BY <2>1, <2>6, <3>1, <3>2, <3>3, <3>5, <3>6, <3>7
  <2> QED BY <2>7, <2>8, <2>9
<1> QED BY <1>1, <1>2

(* A mapping that grows over one fork copied spoils the file of that one,  *)
(* and is not counted itself.                                              *)
LEMMA GrowIInv ==
    ASSUME IInv, NEW p \in Procs, NEW a \in Area \ pages[p], NEW i \in Slots, NEW n \in Slots,
           User(p), Grows(p, a), i \in Growing(p, a),
           free' = free - 1, pages' = [pages EXCEPT ![p] = @ \cup {a}],
           table' = [table EXCEPT ![p] = TRUE],
           vmas' = [vmas EXCEPT ![p] = update_vma_structure(p, i, n)],
           spoiled' = spoiled \cup
             (IF vmas[p][n].valid /\ ~vmas[p][n].own THEN {vmas[p][n].pf} \ {0} ELSE {}),
           UNCHANGED <<state, ofile, ref, call, over>>
    PROVE  IInv'
<1> DEFINE v == vmas[p][i]
           grown == [vmas[p] EXCEPT ![i].next = n]
           w == [grown[i] EXCEPT !.addr = @ + 1, !.end = @ + 1, !.next = grown[n].next,
                                 !.valid = TRUE, !.own = grown[i].pf # 0]
<1> USE DEF IInv
<1>1. /\ v.end = a /\ "MAP_GROWSUP" \in v.flags /\ free > 0
      /\ state[p] = "running" /\ call[p] = Idle
  BY DEF Grows, Growing, User
<1>2. v.addr # 0
  BY <1>1, MmapAssumption DEF Places, Area
<1>3. /\ grown \in [Slots -> VMAs]
      /\ grown[i].addr = v.addr /\ grown[i].end = v.end /\ grown[i].flags = v.flags
      /\ grown[i].pf = v.pf /\ grown[i].valid = v.valid /\ grown[i].own = v.own
      /\ \A j \in Slots \ {i} : grown[j] = vmas[p][j]
  <2>1. vmas[p] \in [Slots -> VMAs]
    BY DEF TypeOK
  <2> QED BY <2>1 DEF VMAs
<1>4. /\ w \in VMAs
      /\ w.addr = v.addr + 1 /\ w.flags = v.flags /\ (w.pf # 0 => w.own) /\ w.valid
  <2> HIDE DEF grown
  <2> DEFINE counted == grown[i].pf # 0
  <2>1. grown[n].next \in Slots /\ grown[i] \in VMAs
    BY <1>3, VMAFields
  <2>2. w = [grown[i] EXCEPT !.addr = @ + 1, !.end = @ + 1, !.next = grown[n].next,
                             !.valid = TRUE, !.own = counted]
    OBVIOUS
  <2>3. counted \in BOOLEAN /\ (grown[i].pf # 0 => counted)
    OBVIOUS
  <2> HIDE DEF counted, w
  <2>4. /\ w.addr = grown[i].addr + 1 /\ w.end = grown[i].end + 1 /\ w.flags = grown[i].flags
        /\ w.pf = grown[i].pf /\ w.own = counted /\ w.valid /\ w \in VMAs
    <3> DEFINE g == grown[i]  m == grown[n].next
    <3>1. g \in VMAs /\ m \in Slots
      BY <2>1
    <3>2. w = [g EXCEPT !.addr = @ + 1, !.end = @ + 1, !.next = m, !.valid = TRUE, !.own = counted]
      BY <2>2
    <3> HIDE DEF g, m
    <3>3. g = [addr |-> g.addr, end |-> g.end, flags |-> g.flags, fd |-> g.fd, pf |-> g.pf,
               next |-> g.next, valid |-> g.valid, own |-> g.own]
      BY <3>1, VMAIs
    <3>4. w = [addr |-> g.addr + 1, end |-> g.end + 1, flags |-> g.flags, fd |-> g.fd, pf |-> g.pf,
               next |-> m, valid |-> TRUE, own |-> counted]
      BY <3>2, <3>3, Zenon
    <3>5. g.addr + 1 \in Nat /\ g.end + 1 \in Nat
      BY <3>1, VMAFields
    <3>6. w \in VMAs
      BY <2>3, <3>1, <3>4, <3>5, VMAFields DEF VMAs
    <3> QED BY <3>4, <3>6 DEF g
  <2> QED BY <1>3, <2>3, <2>4
<1>5. /\ vmas' = [vmas EXCEPT ![p] = [grown EXCEPT ![n] = w]]
      /\ vmas'[p] = [grown EXCEPT ![n] = w]
      /\ \A q \in Procs \ {p} : vmas'[q] = vmas[q] /\ pages'[q] = pages[q]
      /\ pages'[p] = pages[p] \cup {a}
  BY DEF update_vma_structure, TypeOK
<1> HIDE DEF grown, w
<1>6. /\ vmas'[p][n] = w /\ \A j \in Slots \ {n} : vmas'[p][j] = grown[j]
      /\ vmas'[p] \in [Slots -> VMAs] /\ vmas' \in [Procs -> [Slots -> VMAs]]
  <2>1. [grown EXCEPT ![n] = w] \in [Slots -> VMAs]
    BY <1>3, <1>4
  <2>2. vmas' \in [Procs -> [Slots -> VMAs]]
    BY <1>5, <2>1 DEF TypeOK
  <2> QED BY <1>3, <1>5, <2>1, <2>2
<1>7. "MAP_GROWSUP" \in vmas'[p][n].flags
  BY <1>1, <1>4, <1>6
<1>8. FramesConserved'
  BY PageTaken
<1>9. spoiled' \subseteq Files
  <2>1. vmas[p][n].pf \in Files \cup {0}
    BY VMAFields DEF TypeOK
  <2> QED BY <2>1 DEF TypeOK
<1>10. TypeOK'
  BY <1>1, <1>5, <1>6, <1>9, MmapAssumption DEF TypeOK
<1>11. Emptied' /\ Places' /\ Calling'
  <2>1. Emptied'
    BY <1>1, <1>5 DEF Emptied
  <2>2. v.addr \in Nat
    BY VMAFields DEF TypeOK
  <2>3. \A j \in Slots : vmas'[p][j].addr = 0 => j # n /\ j # i
    BY <1>2, <1>3, <1>4, <1>6, <2>2
  <2>4. Places'
    BY <1>3, <1>5, <1>6, <2>3 DEF Places
  <2>5. Calling'
    BY <1>1, <1>5 DEF Calling, InCall
  <2> QED BY <2>1, <2>4, <2>5
<1>12. CountsHolders'
  <2> SUFFICES ASSUME over = "no", NEW g \in Files \ spoiled'
               PROVE  ref'[g] = Cardinality(Descriptors(g)') + Cardinality(Inherited(g)')
    BY DEF CountsHolders
  <2>1. g # 0 /\ g \notin spoiled /\ ~(vmas[p][n].valid /\ ~vmas[p][n].own /\ vmas[p][n].pf = g)
    BY MmapAssumption
  <2>2. \A j \in Slots : j \in Maps(p, g)' /\ ~vmas'[p][j].own <=> j \in Maps(p, g) /\ ~vmas[p][j].own
    <3>1. ASSUME NEW j \in Slots \ {n}
          PROVE  /\ vmas'[p][j].valid = vmas[p][j].valid
                 /\ vmas'[p][j].own = vmas[p][j].own /\ vmas'[p][j].pf = vmas[p][j].pf
      BY <1>3, <1>6
    <3> QED BY <1>4, <1>6, <2>1, <3>1 DEF Maps
  <2>3. Inherited(g)' = Inherited(g)
    BY <1>5, <2>2 DEF Inherited, Maps
  <2>4. Descriptors(g)' = Descriptors(g)
    BY DEF Descriptors
  <2> QED BY <2>1, <2>3, <2>4 DEF CountsHolders
<1>13. MappedIsFound'
  BY <1>5, <1>7 DEF MappedIsFound
<1> QED BY <1>8, <1>10, <1>11, <1>12, <1>13

LEMMA PageFaultIInv ==
    ASSUME IInv, NEW p \in Procs, NEW a \in Area, PageFault(p, a)
    PROVE  IInv'
<1>1. CASE exit(p)
  BY <1>1, exitIInv DEF PageFault
<1>2. CASE End("fault")
  BY <1>2, EndIInv
<1>3. ASSUME ~exit(p), ~End("fault") PROVE IInv'
  <2>1. User(p) /\ a \in Area \ pages[p] /\ Grows(p, a)
    BY <1>3 DEF PageFault
  <2>2. PICK i \in Growing(p, a) :
          LET n == IF i = NVMA - 1 THEN i ELSE i + 1
              lost == IF vmas[p][n].valid /\ ~vmas[p][n].own THEN {vmas[p][n].pf} \ {0} ELSE {}
          IN  /\ free' = free - 1
              /\ pages' = [pages EXCEPT ![p] = @ \cup {a}]
              /\ table' = [table EXCEPT ![p] = TRUE]
              /\ vmas' = [vmas EXCEPT ![p] = update_vma_structure(p, i, n)]
              /\ spoiled' = spoiled \cup lost
              /\ UNCHANGED <<state, ofile, ref, call, over>>
    BY <1>3, Zenon DEF PageFault
  <2>3. i \in Slots
    BY DEF Growing
  <2> DEFINE n == IF i = NVMA - 1 THEN i ELSE i + 1
  <2>4. n \in Slots
    BY <2>3, MmapAssumption DEF Slots
  <2>5. /\ free' = free - 1
        /\ pages' = [pages EXCEPT ![p] = @ \cup {a}]
        /\ table' = [table EXCEPT ![p] = TRUE]
        /\ vmas' = [vmas EXCEPT ![p] = update_vma_structure(p, i, n)]
        /\ spoiled' = spoiled \cup
             (IF vmas[p][n].valid /\ ~vmas[p][n].own THEN {vmas[p][n].pf} \ {0} ELSE {})
        /\ UNCHANGED <<state, ofile, ref, call, over>>
    BY <2>2
  <2> HIDE DEF n
  <2> QED BY <2>1, <2>3, <2>4, <2>5, GrowIInv
<1> QED BY <1>1, <1>2, <1>3

-----------------------------------------------------------------------------
LEMMA StepIInv == IInv /\ [Next]_vars => IInv'
<1> SUFFICES ASSUME IInv, [Next]_vars PROVE IInv'
  OBVIOUS
<1>1. CASE UNCHANGED vars
  <2> USE <1>1 DEF vars, IInv
  <2>1. TypeOK' /\ Emptied' /\ Places' /\ Calling'
    BY DEF TypeOK, Emptied, Places, Calling, InCall
  <2>2. FramesConserved' /\ CountsHolders' /\ MappedIsFound'
    BY DEF FramesConserved, Mapped, CountsHolders, Descriptors, Inherited, Maps, MappedIsFound
  <2> QED BY <2>1, <2>2
<1>2. CASE Next
  <2>1. PICK p \in Procs :
          \/ open(p) \/ mmap(p) \/ exec(p)
          \/ \E a \in Area : PageFault(p, a)
          \/ \E q \in Procs : fork(p, q)
          \/ \E d \in Fds : close(p, d)
          \/ MmapPage(p) \/ MmapFails(p) \/ munmap(p)
          \/ Exit(p) \/ clean_vma(p) \/ wait(p)
    BY <1>2, Zenon DEF Next
  <2>2. CASE open(p) \/ mmap(p) \/ exec(p)
    BY <2>2, openIInv, mmapIInv, execIInv
  <2>3. CASE \E a \in Area : PageFault(p, a)
    BY <2>3, PageFaultIInv
  <2>4. CASE \E q \in Procs : fork(p, q)
    BY <2>4, forkIInv
  <2>5. CASE \E d \in Fds : close(p, d)
    BY <2>5, closeIInv
  <2>6. CASE MmapPage(p) \/ MmapFails(p) \/ munmap(p)
    BY <2>6, MmapPageIInv, MmapFailsIInv, munmapIInv
  <2>7. CASE Exit(p) \/ clean_vma(p) \/ wait(p)
    BY <2>7, ExitIInv, clean_vmaIInv, waitIInv
  <2> QED BY <2>1, <2>2, <2>3, <2>4, <2>5, <2>6, <2>7
<1> QED BY <1>1, <1>2

LEMMA Invariance == Spec => []IInv
<1> QED BY InitIInv, StepIInv, PTL DEF Spec

(* Every variable has its type: mmap fills a region of the area page by    *)
(* page, and no more frames are given back than there are.                 *)
THEOREM TypeCorrect == Spec => []TypeOK
<1>1. IInv => TypeOK
  BY DEF IInv
<1> QED BY <1>1, Invariance, PTL

(* No frame is lost and none is given back twice by mmap, its failure,     *)
(* munmap, growth, exec and wait, however processes interleave.            *)
THEOREM FramesAreConserved == Spec => []FramesConserved
<1>1. IInv => FramesConserved
  BY DEF IInv
<1> QED BY <1>1, Invariance, PTL

(* The count of an open file is the number of its descriptors and of the   *)
(* mappings fork copied, until a mapping that was made without counting is *)
(* cleaned up or one that was counted is overwritten.                      *)
THEOREM CountsAreRight == Spec => []CountsHolders
<1>1. IInv => CountsHolders
  BY DEF IInv
<1> QED BY <1>1, Invariance, PTL

(* munmap finds the mapping of every page that a process without growing   *)
(* mappings has mapped.                                                    *)
THEOREM MappedPagesAreFound == Spec => []MappedIsFound
<1>1. IInv => MappedIsFound
  BY DEF IInv
<1> QED BY <1>1, Invariance, PTL
=============================================================================
