------------------------------ MODULE BlockStore ------------------------------
(***************************************************************************)
(* What p5/xv6-public/bio.c promises its callers: between bread and brelse *)
(* a process has a block to itself, and sees what was written to it last,  *)
(* by whatever process.                                                    *)
(***************************************************************************)
CONSTANTS Procs, Blocks, Values, NoView

VARIABLES
    store,   \* store[n]: what was last written to block n
    view     \* view[p]: the block p has locked, and its contents

vars == <<store, view>>

Init ==
    /\ store \in [Blocks -> Values]
    /\ view = [p \in Procs |-> NoView]

Has(p, n) == view[p] # NoView /\ view[p].block = n

Read(p, n) ==
    /\ view[p] = NoView
    /\ \A q \in Procs : ~Has(q, n)
    /\ view' = [view EXCEPT ![p] = [block |-> n, contents |-> store[n]]]
    /\ UNCHANGED store

Write(p, n, v) ==
    /\ Has(p, n)
    /\ store' = [store EXCEPT ![n] = v]
    /\ view' = [view EXCEPT ![p].contents = v]

Release(p) ==
    /\ view[p] # NoView
    /\ view' = [view EXCEPT ![p] = NoView]
    /\ UNCHANGED store

Next == \E p \in Procs, n \in Blocks :
    Read(p, n) \/ (\E v \in Values : Write(p, n, v)) \/ Release(p)

Spec == Init /\ [][Next]_vars
=============================================================================
