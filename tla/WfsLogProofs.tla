----------------------------- MODULE WfsLogProofs -----------------------------
(***************************************************************************)
(* Proofs about p7's file system for any names, paths, workload and disk:  *)
(* nothing below the head is lost, directories stay where they were made,  *)
(* and while nothing is removed or killed the log is the tree of paths it  *)
(* stands for.                                                             *)
(***************************************************************************)
EXTENDS WfsLog, WellFoundedInduction, TLAPS

-----------------------------------------------------------------------------
(* The smallest and the largest number of a set.  A property of numbers is *)
(* given as the set of those that have it: induction over a set takes no   *)
(* operator as a parameter.                                                *)

LEMMA Least ==
    ASSUME NEW S \in SUBSET Nat, S # {}
    PROVE  \E x \in S : \A y \in S : x <= y
<1> DEFINE Less == OpToRel(<, Nat)
<1>1. IsWellFoundedOn(Less, Nat)
  BY NatLessThanWellFounded
<1>2. \E x \in S : \A y \in S : <<y, x>> \notin Less
  <2> HIDE DEF Less
  <2> QED BY <1>1, WFMin
<1>3. \A x, y \in Nat : <<y, x>> \notin Less => x <= y
  BY DEF OpToRel
<1> QED BY <1>2, <1>3

LEMMA Greatest ==
    ASSUME NEW B \in Nat, NEW S \in SUBSET (0 .. B), S # {}
    PROVE  \E x \in S : \A y \in S : y <= x
<1> DEFINE T == { n \in Nat : B - n \in S }
<1>1. PICK s \in S : TRUE
  OBVIOUS
<1>2. B - s \in T
  OBVIOUS
<1>3. PICK m \in T : \A n \in T : m <= n
  BY <1>2, Least
<1>4. \A y \in S : B - y \in T
  OBVIOUS
<1>5. B - m \in S /\ \A y \in S : y <= B - m
  BY <1>3, <1>4
<1> QED BY <1>5

LEMMA MinIsThere ==
    ASSUME NEW S \in SUBSET Nat, S # {}
    PROVE  Min(S) \in S /\ \A y \in S : Min(S) <= y
BY Least DEF Min

LEMMA MaxIsThere ==
    ASSUME NEW B \in Nat, NEW S \in SUBSET (0 .. B), S # {}
    PROVE  Max(S) \in S /\ \A y \in S : y <= Max(S)
<1>1. \E x \in S : \A y \in S : x >= y
  BY Greatest
<1>2. Max(S) \in S /\ \A y \in S : Max(S) >= y
  BY <1>1 DEF Max
<1> QED BY <1>2

LEMMA Induction ==
    ASSUME NEW N \in Nat, NEW S, 0 \in S, \A n \in 1 .. N : n - 1 \in S => n \in S
    PROVE  \A n \in 0 .. N : n \in S
<1> DEFINE bad == { n \in 0 .. N : n \notin S }
<1> SUFFICES ASSUME bad # {} PROVE FALSE
  OBVIOUS
<1>1. bad \in SUBSET Nat
  OBVIOUS
<1>2. PICK m \in bad : \A n \in bad : m <= n
  <2> HIDE DEF bad
  <2> QED BY <1>1, Least
<1>3. m \in 0 .. N /\ m \notin S
  OBVIOUS
<1>4. m \in 1 .. N /\ m - 1 \in 0 .. N /\ m - 1 \notin bad
  <2>1. m # 0
    BY <1>3
  <2> HIDE DEF bad
  <2> QED BY <1>2, <1>3, <2>1
<1> QED BY <1>3, <1>4

Computes(f, N, S, a, G) ==
    f \in [0 .. N -> S] /\ f[0] = a /\ \A n \in 1 .. N : f[n] = G[n][f[n - 1]]

LEMMA Recursion ==
    ASSUME NEW N \in Nat, NEW S, NEW a \in S, NEW G \in [1 .. N -> [S -> S]]
    PROVE  \E f : Computes(f, N, S, a, G)
<1> DEFINE is(m, f) == f[0] = a /\ \A n \in 1 .. m : f[n] = G[n][f[n - 1]]
           good == { m \in 0 .. N : \E f \in [0 .. m -> S] : is(m, f) }
<1>1. 0 \in good
  <2> DEFINE g == [n \in 0 .. 0 |-> a]
  <2>1. is(0, g) /\ g \in [0 .. 0 -> S] /\ 0 \in 0 .. N
    OBVIOUS
  <2> HIDE DEF g, is
  <2> QED BY <2>1
<1>2. ASSUME NEW m \in 1 .. N, m - 1 \in good PROVE m \in good
  <2>1. PICK f \in [0 .. m - 1 -> S] : is(m - 1, f)
    BY <1>2
  <2> DEFINE g == [n \in 0 .. m |-> IF n = m THEN G[m][f[m - 1]] ELSE f[n]]
  <2>2. g \in [0 .. m -> S]
    OBVIOUS
  <2>3. g[0] = a /\ \A n \in 1 .. m - 1 : g[n] = f[n] /\ g[n - 1] = f[n - 1]
    BY <2>1
  <2>4. g[m] = G[m][f[m - 1]] /\ g[m - 1] = f[m - 1]
    OBVIOUS
  <2>5. \A n \in 1 .. m : n = m \/ n \in 1 .. m - 1
    OBVIOUS
  <2> HIDE DEF g
  <2>6. is(m, g)
    BY <2>1, <2>3, <2>4, <2>5
  <2> QED BY <2>2, <2>6
<1>3. N \in good
  <2> HIDE DEF good
  <2>1. \A m \in 0 .. N : m \in good
    BY <1>1, <1>2, Induction
  <2> QED BY <2>1
<1> QED BY <1>3 DEF Computes

(* Two functions that agree at 0, and at n if they agree at n - 1. *)
LEMMA Agree ==
    ASSUME NEW N \in Nat, NEW f, NEW g, f[0] = g[0],
           \A n \in 1 .. N : f[n - 1] = g[n - 1] => f[n] = g[n]
    PROVE  \A n \in 0 .. N : f[n] = g[n]
<1> DEFINE good == { n \in 0 .. N : f[n] = g[n] }
<1>1. 0 \in good /\ \A n \in 1 .. N : n - 1 \in good => n \in good
  OBVIOUS
<1>2. \A n \in 0 .. N : n \in good
  <2> HIDE DEF good
  <2> QED BY <1>1, Induction
<1> QED BY <1>2

-----------------------------------------------------------------------------
(* What the searches find. *)

Logged == log \in Seq(Entries)

Found(k, ino) == log[k].ino = ino /\ ~log[k].deleted

LEMMA EntryFields ==
    ASSUME NEW e \in Entries
    PROVE  /\ e.ino \in Nat /\ e.deleted \in BOOLEAN /\ e.kind \in {"dir", "file"}
           /\ e.dents \in Seq([name : Names, ino : Nat]) /\ e.data \in Seq(Contents)
BY DEF Entries

Fields ==
    \A k \in 1 .. Len(log) :
        /\ log[k] \in Entries /\ log[k].ino \in Nat
        /\ log[k].dents \in Seq([name : Names, ino : Nat])
        /\ log[k].data \in Seq(Contents)

LEMMA LogFields == Logged => Fields
<1>1. Logged => \A k \in 1 .. Len(log) : log[k] \in Entries
  BY DEF Logged
<1> QED BY <1>1, EntryFields DEF Fields

LEMMA SizeIs ==
    ASSUME NEW e \in Entries
    PROVE  Size(e) \in Nat \ {0}
<1>1. e.dents \in Seq([name : Names, ino : Nat]) /\ e.data \in Seq(Contents)
  BY EntryFields
<1>2. Len(e.dents) \in Nat /\ Len(e.data) \in Nat
  BY <1>1
<1>3. \A a, b \in Nat : 1 + a + b \in Nat \ {0}
  OBVIOUS
<1>4. Size(e) = 1 + Len(e.dents) + Len(e.data)
  BY DEF Size
<1> QED BY <1>2, <1>3, <1>4

LastFound ==
    \A ino \in Int :
        /\ get_log_entry[ino] \in 0 .. Len(log)
        /\ get_log_entry[ino] # 0 => Found(get_log_entry[ino], ino)
        /\ \A j \in 1 .. Len(log) : Found(j, ino) => j <= get_log_entry[ino]

LEMMA EntryIs == Logged => LastFound
<1> SUFFICES ASSUME Logged, NEW ino \in Int
             PROVE  /\ get_log_entry[ino] \in 0 .. Len(log)
                    /\ get_log_entry[ino] # 0 => Found(get_log_entry[ino], ino)
                    /\ \A j \in 1 .. Len(log) : Found(j, ino) => j <= get_log_entry[ino]
  BY DEF LastFound
<1> DEFINE last(k) == (k = 0 \/ Found(k, ino)) /\ \A j \in k + 1 .. Len(log) : ~Found(j, ino)
<1>1. get_log_entry[ino] = CHOOSE k \in 0 .. Len(log) : last(k)
  BY DEF get_log_entry, Found
<1>2. \E k \in 0 .. Len(log) : last(k)
  <2> DEFINE S == { k \in 1 .. Len(log) : Found(k, ino) }
  <2>0. Len(log) \in Nat
    BY DEF Logged
  <2>1. CASE S = {}
    BY <2>0, <2>1
  <2>2. CASE S # {}
    <3>1. S \in SUBSET (0 .. Len(log))
      OBVIOUS
    <3>2. PICK k \in S : \A j \in S : j <= k
      <4> HIDE DEF S
      <4> QED BY <2>0, <2>2, <3>1, Greatest
    <3>3. k \in 0 .. Len(log) /\ Found(k, ino)
      OBVIOUS
    <3>4. \A j \in k + 1 .. Len(log) : j \in 1 .. Len(log) /\ ~(j <= k)
      BY <2>0, <3>3
    <3>5. \A j \in k + 1 .. Len(log) : ~Found(j, ino)
      BY <3>2, <3>4
    <3> QED BY <3>3, <3>5
  <2> QED BY <2>1, <2>2
<1> DEFINE k == get_log_entry[ino]
<1>3. k \in 0 .. Len(log) /\ last(k)
  <2> HIDE DEF last, k
  <2>1. k = CHOOSE j \in 0 .. Len(log) : last(j)
    BY <1>1 DEF k
  <2> QED BY <1>2, <2>1, Zenon
<1> HIDE DEF k
<1>4. \A j \in 1 .. Len(log) : Found(j, ino) => j <= k
  BY <1>3 DEF Logged
<1> QED BY <1>3, <1>4 DEF k

(* There is only one last entry of an inode number. *)
LEMMA EntryUnique == Logged =>
    \A ino \in Int, k \in 1 .. Len(log) :
        Found(k, ino) /\ (\A j \in k + 1 .. Len(log) : ~Found(j, ino)) => get_log_entry[ino] = k
<1> SUFFICES ASSUME Logged, NEW ino \in Int, NEW k \in 1 .. Len(log),
                    Found(k, ino), \A j \in k + 1 .. Len(log) : ~Found(j, ino)
             PROVE  get_log_entry[ino] = k
  OBVIOUS
<1> DEFINE e == get_log_entry[ino]
<1>1. e \in 0 .. Len(log) /\ (e # 0 => Found(e, ino)) /\ k <= e
  BY EntryIs DEF LastFound
<1> HIDE DEF e
<1>2. e \in 0 .. Len(log) /\ ~(e > k)
  BY <1>1 DEF Logged
<1> QED BY <1>1, <1>2 DEF e

FirstFound ==
    \A name \in Names, k \in 0 .. Len(log) :
        \/ /\ get_inode_number(name, k) = -1
           /\ k # 0 => \A a \in 1 .. Len(log[k].dents) : log[k].dents[a].name # name
        \/ /\ k # 0
           /\ \E a \in 1 .. Len(log[k].dents) :
                /\ log[k].dents[a].name = name /\ get_inode_number(name, k) = log[k].dents[a].ino
                /\ \A b \in 1 .. a - 1 : log[k].dents[b].name # name

LEMMA NumberIs == Logged => FirstFound
<1> SUFFICES ASSUME Logged, NEW name \in Names, NEW k \in 0 .. Len(log), k # 0
             PROVE  \/ /\ get_inode_number(name, k) = -1
                       /\ k # 0 => \A a \in 1 .. Len(log[k].dents) : log[k].dents[a].name # name
                    \/ \E a \in 1 .. Len(log[k].dents) :
                        /\ log[k].dents[a].name = name /\ get_inode_number(name, k) = log[k].dents[a].ino
                        /\ \A b \in 1 .. a - 1 : log[k].dents[b].name # name
  BY DEF get_inode_number, FirstFound
<1> DEFINE dents == log[k].dents
           named == { a \in DOMAIN dents : dents[a].name = name }
<1>1. dents \in Seq([name : Names, ino : Nat])
  <2>1. k \in 1 .. Len(log)
    BY DEF Logged
  <2> QED BY <2>1, LogFields DEF Fields
<1>2. get_inode_number(name, k) = IF named = {} THEN -1 ELSE dents[Min(named)].ino
  BY DEF get_inode_number
<1> HIDE DEF dents
<1>3. CASE named = {}
  BY <1>1, <1>2, <1>3 DEF dents
<1>4. CASE named # {}
  <2>1. named \in SUBSET Nat
    BY <1>1
  <2> DEFINE a == Min(named)
  <2>2. a \in named /\ \A b \in named : a <= b
    <3> HIDE DEF named
    <3> QED BY <1>4, <2>1, MinIsThere
  <2> HIDE DEF a
  <2>3. a \in 1 .. Len(dents) /\ dents[a].name = name
    BY <1>1, <2>2
  <2>4. \A b \in 1 .. a - 1 : b \in DOMAIN dents /\ ~(a <= b)
    BY <1>1, <2>3
  <2>5. \A b \in 1 .. a - 1 : dents[b].name # name
    BY <2>2, <2>4
  <2>6. get_inode_number(name, k) = dents[a].ino
    BY <1>2, <1>4 DEF a
  <2> QED BY <2>3, <2>5, <2>6 DEF dents
<1> QED BY <1>3, <1>4

NumbersTyped ==
    \A name \in Names, k \in 0 .. Len(log) : get_inode_number(name, k) \in Nat \cup {-1}

LEMMA NumberType == Logged => NumbersTyped
<1> SUFFICES ASSUME Logged, NEW name \in Names, NEW k \in 0 .. Len(log)
             PROVE  get_inode_number(name, k) \in Nat \cup {-1}
  BY DEF NumbersTyped
<1>1. ASSUME NEW a \in 1 .. Len(log[k].dents), k # 0 PROVE log[k].dents[a].ino \in Nat
  <2>1. k \in 1 .. Len(log)
    BY <1>1 DEF Logged
  <2>2. log[k].dents \in Seq([name : Names, ino : Nat])
    BY <2>1, LogFields DEF Fields
  <2>3. log[k].dents[a] \in [name : Names, ino : Nat]
    <3> DEFINE dents == log[k].dents  D == [name : Names, ino : Nat]
    <3> HIDE DEF dents, D
    <3>1. dents \in Seq(D) /\ a \in 1 .. Len(dents)
      BY <2>2 DEF dents, D
    <3>2. dents[a] \in D
      BY <3>1
    <3> QED BY <3>2 DEF dents, D
  <2> QED BY <2>3
<1> QED BY <1>1, NumberIs DEF FirstFound

LEMMA PathIs == Logged =>
    \A path \in Paths :
        /\ Len(path) \in Nat /\ \A n \in 1 .. Len(path) : path[n] \in Names
        /\ \E at \in [0 .. Len(path) -> 0 .. Len(log)] :
             /\ at[0] = get_log_entry[0]
             /\ \A n \in 1 .. Len(path) : at[n] = get_log_entry[get_inode_number(path[n], at[n - 1])]
             /\ path_to_log_entry(path) = at[Len(path)]
<1> SUFFICES ASSUME Logged, NEW path \in Paths
             PROVE  /\ Len(path) \in Nat /\ \A n \in 1 .. Len(path) : path[n] \in Names
                    /\ \E at \in [0 .. Len(path) -> 0 .. Len(log)] :
                         /\ at[0] = get_log_entry[0]
                         /\ \A n \in 1 .. Len(path) :
                              at[n] = get_log_entry[get_inode_number(path[n], at[n - 1])]
                         /\ path_to_log_entry(path) = at[Len(path)]
  OBVIOUS
<1>1. Len(path) \in Nat /\ \A n \in 1 .. Len(path) : path[n] \in Names
  BY WfsLogAssumption DEF Paths
<1> DEFINE N == Len(path)
           S == 0 .. Len(log)
           step(n, k) == get_log_entry[get_inode_number(path[n], k)]
           G == [n \in 1 .. N |-> [k \in S |-> step(n, k)]]
           is(f) == f = [n \in 0 .. N |-> IF n = 0 THEN get_log_entry[0] ELSE step(n, f[n - 1])]
<1>2. \A n \in 1 .. N, k \in S : step(n, k) \in S
  BY <1>1, NumberType, EntryIs DEF LastFound, NumbersTyped
<1>3. get_log_entry[0] \in S
  BY EntryIs DEF LastFound
<1>4. PICK at \in [0 .. N -> S] : is(at)
  <2> HIDE DEF S, step
  <2>1. G \in [1 .. N -> [S -> S]]
    BY <1>2
  <2> HIDE DEF G
  <2>2. PICK f \in [0 .. N -> S] : f[0] = get_log_entry[0] /\ \A n \in 1 .. N : f[n] = G[n][f[n - 1]]
    <3> DEFINE a == get_log_entry[0]
    <3> HIDE DEF N, a
    <3>1. a \in S /\ N \in Nat
      BY <1>1, <1>3 DEF N, a
    <3>2. \E f : Computes(f, N, S, a, G)
      BY <2>1, <3>1, Recursion
    <3> QED BY <3>2 DEF a, Computes
  <2>3. \A n \in 1 .. N : G[n][f[n - 1]] = step(n, f[n - 1])
    <3>1. \A n \in 1 .. N : f[n - 1] \in S
      BY <1>1
    <3> QED BY <3>1 DEF G
  <2>4. f = [n \in 0 .. N |-> IF n = 0 THEN get_log_entry[0] ELSE step(n, f[n - 1])]
    BY <1>1, <2>2, <2>3
  <2> QED BY <2>4
<1>5. path_to_log_entry(path) = (CHOOSE f : is(f))[N]
  BY DEF path_to_log_entry
<1>6. is(CHOOSE f : is(f))
  <2> HIDE DEF is
  <2> QED BY <1>4, Zenon
<1> DEFINE f == CHOOSE f : is(f)
<1>7. f \in [0 .. N -> S] /\ f[0] = get_log_entry[0] /\ \A n \in 1 .. N : f[n] = step(n, f[n - 1])
  <2> HIDE DEF f, step, S
  <2>1. is(f)
    BY <1>6 DEF f
  <2>2. f[0] = at[0] /\ \A n \in 1 .. N : f[n - 1] = at[n - 1] => f[n] = at[n]
    <3>1. f[0] = get_log_entry[0] /\ \A n \in 1 .. N : f[n] = step(n, f[n - 1])
      BY <1>1, <2>1
    <3>2. at[0] = get_log_entry[0] /\ \A n \in 1 .. N : at[n] = step(n, at[n - 1])
      BY <1>1, <1>4
    <3> HIDE DEF is
    <3> QED BY <3>1, <3>2
  <2>3. \A n \in 0 .. N : f[n] = at[n]
    <3> HIDE DEF is, G, N
    <3>1. N \in Nat
      BY <1>1 DEF N
    <3> QED BY <2>2, <3>1, Agree, ZenonT(60)
  <2>4. f = at
    <3>1. f = [n \in 0 .. N |-> f[n]]
      BY <2>1
    <3>2. at = [n \in 0 .. N |-> at[n]]
      OBVIOUS
    <3> HIDE DEF is
    <3> QED BY <2>3, <3>1, <3>2
  <2> QED BY <1>1, <1>4, <2>4
<1> QED BY <1>1, <1>5, <1>7

-----------------------------------------------------------------------------
(* The head. *)

HeadSums ==
    \E up \in [0 .. Len(log) -> Nat] :
        /\ up[0] = 0 /\ \A k \in 1 .. Len(log) : up[k] = up[k - 1] + Size(log[k])
        /\ head = up[Len(log)]

LEMMA HeadIs == Logged => HeadSums
<1> SUFFICES ASSUME Logged
             PROVE  \E up \in [0 .. Len(log) -> Nat] :
                      /\ up[0] = 0 /\ \A k \in 1 .. Len(log) : up[k] = up[k - 1] + Size(log[k])
                      /\ head = up[Len(log)]
  BY DEF HeadSums
<1> DEFINE N == Len(log)
           G == [n \in 1 .. N |-> [x \in Nat |-> x + Size(log[n])]]
           is(f) == f = [k \in 0 .. N |-> IF k = 0 THEN 0 ELSE f[k - 1] + Size(log[k])]
<1>1. N \in Nat
  BY DEF Logged
<1>2. \A n \in 1 .. N : Size(log[n]) \in Nat
  BY LogFields, SizeIs DEF Fields
<1>3. PICK up \in [0 .. N -> Nat] : is(up)
  <2>1. G \in [1 .. N -> [Nat -> Nat]]
    BY <1>2
  <2> HIDE DEF G
  <2>2. PICK f \in [0 .. N -> Nat] : f[0] = 0 /\ \A n \in 1 .. N : f[n] = G[n][f[n - 1]]
    <3> HIDE DEF N
    <3>1. 0 \in Nat
      OBVIOUS
    <3>2. \E f : Computes(f, N, Nat, 0, G)
      BY <1>1, <2>1, <3>1, Recursion, Zenon
    <3> QED BY <3>2 DEF Computes
  <2>3. \A n \in 1 .. N : G[n][f[n - 1]] = f[n - 1] + Size(log[n])
    <3>1. \A n \in 1 .. N : f[n - 1] \in Nat
      BY <1>1
    <3> QED BY <3>1 DEF G
  <2>4. f = [k \in 0 .. N |-> IF k = 0 THEN 0 ELSE f[k - 1] + Size(log[k])]
    BY <1>1, <2>2, <2>3
  <2> QED BY <2>4
<1>4. head = (CHOOSE f : is(f))[N]
  BY DEF head
<1>5. is(CHOOSE f : is(f))
  <2> HIDE DEF is
  <2> QED BY <1>3, Zenon
<1> DEFINE f == CHOOSE f : is(f)
<1>6. f = up
  <2> HIDE DEF f
  <2>1. is(f)
    BY <1>5 DEF f
  <2>2. f[0] = up[0] /\ \A n \in 1 .. N : f[n - 1] = up[n - 1] => f[n] = up[n]
    <3>1. f[0] = 0 /\ \A n \in 1 .. N : f[n] = f[n - 1] + Size(log[n])
      BY <1>1, <2>1
    <3>2. up[0] = 0 /\ \A n \in 1 .. N : up[n] = up[n - 1] + Size(log[n])
      BY <1>1, <1>3
    <3> HIDE DEF is
    <3> QED BY <3>1, <3>2
  <2>3. \A n \in 0 .. N : f[n] = up[n]
    <3> HIDE DEF is, G, N
    <3>1. N \in Nat
      BY <1>1 DEF N
    <3> QED BY <2>2, <3>1, Agree, ZenonT(60)
  <2>4. f = [n \in 0 .. N |-> f[n]]
    BY <2>1
  <2>5. up = [n \in 0 .. N |-> up[n]]
    OBVIOUS
  <2> HIDE DEF is
  <2> QED BY <2>3, <2>4, <2>5
<1>7. head = up[N]
  BY <1>4, <1>6
<1>8. up \in [0 .. N -> Nat] /\ up[0] = 0 /\ \A k \in 1 .. N : up[k] = up[k - 1] + Size(log[k])
  BY <1>1, <1>3
<1> HIDE DEF f, is, G
<1> QED BY <1>7, <1>8

-----------------------------------------------------------------------------
(* Paths, one name at a time. *)

LEMMA PathParts ==
    /\ <<>> \in Paths
    /\ \A p \in Paths : Len(p) \in 0 .. MaxDepth /\ p \in [1 .. Len(p) -> Names]
    /\ \A p \in Paths \ {<<>>} :
         /\ Len(p) \in 1 .. MaxDepth
         /\ Last(p) \in Names /\ Last(p) = p[Len(p)]
         /\ Front(p) \in Paths /\ Len(Front(p)) = Len(p) - 1
         /\ \A n \in 1 .. Len(p) - 1 : Front(p)[n] = p[n]
<1>1. <<>> \in [1 .. 0 -> Names]
  OBVIOUS
<1>2. <<>> \in Paths
  BY <1>1, WfsLogAssumption DEF Paths
<1>3. ASSUME NEW p \in Paths
      PROVE  Len(p) \in 0 .. MaxDepth /\ p \in [1 .. Len(p) -> Names]
  BY WfsLogAssumption DEF Paths
<1>4. ASSUME NEW p \in Paths, p # <<>>
      PROVE  /\ Len(p) \in 1 .. MaxDepth
             /\ Last(p) \in Names /\ Last(p) = p[Len(p)]
             /\ Front(p) \in Paths /\ Len(Front(p)) = Len(p) - 1
             /\ \A n \in 1 .. Len(p) - 1 : Front(p)[n] = p[n]
  <2>1. PICK N \in 0 .. MaxDepth : p \in [1 .. N -> Names]
    BY DEF Paths
  <2>2. p \in Seq(Names) /\ Len(p) = N /\ MaxDepth \in Nat
    BY <2>1, WfsLogAssumption
  <2>3. N # 0
    BY <1>4, <2>2
  <2>4. Front(p) = [n \in 1 .. N - 1 |-> p[n]]
    BY <2>2, <2>3 DEF Front
  <2>5. Front(p) \in [1 .. N - 1 -> Names] /\ N - 1 \in 0 .. MaxDepth
    BY <2>1, <2>2, <2>3, <2>4
  <2>6. Front(p) \in Paths
    BY <2>5 DEF Paths
  <2>7. Len(Front(p)) = N - 1
    BY <2>2, <2>3, <2>4
  <2>8. Last(p) = p[N] /\ p[N] \in Names
    BY <2>1, <2>2, <2>3 DEF Last
  <2> QED BY <2>2, <2>3, <2>4, <2>6, <2>7, <2>8
<1> QED BY <1>2, <1>3, <1>4

LEMMA PathEqual ==
    ASSUME NEW p \in Paths \ {<<>>}, NEW q \in Paths \ {<<>>},
           Front(p) = Front(q), Last(p) = Last(q)
    PROVE  p = q
<1>1. /\ Len(p) \in 1 .. MaxDepth /\ p \in [1 .. Len(p) -> Names]
      /\ Len(q) \in 1 .. MaxDepth /\ q \in [1 .. Len(q) -> Names]
      /\ Len(p) - 1 = Len(q) - 1
      /\ p[Len(p)] = q[Len(q)]
      /\ \A n \in 1 .. Len(p) - 1 : p[n] = q[n]
  BY PathParts
<1>2. Len(p) = Len(q)
  <2>1. Len(p) \in Int /\ Len(q) \in Int
    BY <1>1, WfsLogAssumption
  <2>2. \A m, n \in Int : m - 1 = n - 1 => m = n
    OBVIOUS
  <2> QED BY <1>1, <2>1, <2>2
<1>3. \A n \in 1 .. Len(p) : p[n] = q[n]
  BY <1>1, <1>2, WfsLogAssumption
<1> QED BY <1>1, <1>2, <1>3

(* Induction over paths. *)
LEMMA PathInduction ==
    ASSUME NEW S, <<>> \in S, \A p \in Paths \ {<<>>} : Front(p) \in S => p \in S
    PROVE  \A p \in Paths : p \in S
<1> DEFINE good == { n \in 0 .. MaxDepth : \A p \in Paths : Len(p) = n => p \in S }
<1>1. 0 \in good
  <2>1. \A p \in Paths : Len(p) = 0 => p = <<>>
    BY PathParts
  <2> QED BY <2>1, WfsLogAssumption
<1>2. ASSUME NEW n \in 1 .. MaxDepth, n - 1 \in good PROVE n \in good
  <2> SUFFICES ASSUME NEW p \in Paths, Len(p) = n PROVE p \in S
    OBVIOUS
  <2>1. p # <<>>
    OBVIOUS
  <2>2. Front(p) \in Paths /\ Len(Front(p)) = n - 1
    BY <2>1, PathParts
  <2> QED BY <1>2, <2>1, <2>2
<1>3. \A n \in 0 .. MaxDepth : n \in good
  <2> HIDE DEF good
  <2> QED BY <1>1, <1>2, Induction, WfsLogAssumption
<1> QED BY <1>3, PathParts

(* Paths of short names. *)
LEMMA ShortParts ==
    /\ <<>> \in ShortPaths /\ ShortPaths \subseteq Paths
    /\ \A p \in ShortPaths \ {<<>>} :
         Front(p) \in ShortPaths /\ Last(p) \in Names \ LongNames
<1>1. \A p \in Paths : DOMAIN p = 1 .. Len(p)
  BY PathParts
<1>2. ASSUME NEW p \in ShortPaths \ {<<>>}
      PROVE  Front(p) \in ShortPaths /\ Last(p) \in Names \ LongNames
  <2>1. /\ p \in Paths /\ Len(p) \in 1 .. MaxDepth /\ Last(p) = p[Len(p)] /\ Last(p) \in Names
        /\ Front(p) \in Paths /\ Len(Front(p)) = Len(p) - 1
        /\ \A n \in 1 .. Len(p) - 1 : Front(p)[n] = p[n]
    BY PathParts DEF ShortPaths
  <2>2. \A n \in 1 .. Len(p) : p[n] \notin LongNames
    BY <1>1, <2>1 DEF ShortPaths
  <2>3. DOMAIN Front(p) = 1 .. Len(p) - 1 /\ Len(p) \in 1 .. Len(p)
        /\ \A n \in 1 .. Len(p) - 1 : n \in 1 .. Len(p)
    BY <1>1, <2>1, WfsLogAssumption
  <2>4. \A n \in DOMAIN Front(p) : Front(p)[n] \notin LongNames
    BY <2>1, <2>2, <2>3
  <2> QED BY <2>1, <2>2, <2>3, <2>4 DEF ShortPaths
<1>3. <<>> \in ShortPaths
  BY PathParts DEF ShortPaths
<1> QED BY <1>2, <1>3 DEF ShortPaths

LEMMA ShortInduction ==
    ASSUME NEW S, <<>> \in S, \A p \in ShortPaths \ {<<>>} : Front(p) \in S => p \in S
    PROVE  \A p \in ShortPaths : p \in S
<1> DEFINE T == { p \in Paths : p \in ShortPaths => p \in S }
<1>1. <<>> \in T
  BY PathParts
<1>2. ASSUME NEW p \in Paths \ {<<>>}, Front(p) \in T PROVE p \in T
  BY <1>2, ShortParts
<1>3. \A p \in Paths : p \in T
  <2> HIDE DEF T
  <2> QED BY <1>1, <1>2, PathInduction
<1> QED BY <1>3, ShortParts

StepByStep ==
    /\ path_to_log_entry(<<>>) = get_log_entry[0]
    /\ \A p \in Paths \ {<<>>} :
         path_to_log_entry(p) =
           get_log_entry[get_inode_number(Last(p), path_to_log_entry(Front(p)))]

LEMMA PathStep == Logged => StepByStep
<1> SUFFICES ASSUME Logged
             PROVE  /\ path_to_log_entry(<<>>) = get_log_entry[0]
                    /\ \A p \in Paths \ {<<>>} :
                         path_to_log_entry(p) =
                           get_log_entry[get_inode_number(Last(p), path_to_log_entry(Front(p)))]
  BY DEF StepByStep
<1>1. path_to_log_entry(<<>>) = get_log_entry[0]
  <2>1. Len(<<>>) = 0
    OBVIOUS
  <2> QED BY <2>1, PathIs, PathParts
<1>2. ASSUME NEW p \in Paths \ {<<>>}
      PROVE  path_to_log_entry(p) =
               get_log_entry[get_inode_number(Last(p), path_to_log_entry(Front(p)))]
  <2> DEFINE N == Len(p)
  <2>1. /\ N \in Nat \ {0} /\ Last(p) = p[N] /\ Front(p) \in Paths /\ Len(Front(p)) = N - 1
        /\ \A n \in 1 .. N - 1 : Front(p)[n] = p[n]
    BY PathParts, WfsLogAssumption
  <2>2. PICK at \in [0 .. N -> 0 .. Len(log)] :
          /\ at[0] = get_log_entry[0]
          /\ \A n \in 1 .. N : at[n] = get_log_entry[get_inode_number(p[n], at[n - 1])]
          /\ path_to_log_entry(p) = at[N]
    BY PathIs
  <2>3. PICK f \in [0 .. N - 1 -> 0 .. Len(log)] :
          /\ f[0] = get_log_entry[0]
          /\ \A n \in 1 .. N - 1 : f[n] = get_log_entry[get_inode_number(Front(p)[n], f[n - 1])]
          /\ path_to_log_entry(Front(p)) = f[N - 1]
    BY <2>1, PathIs
  <2>4. \A n \in 1 .. N - 1 : f[n - 1] = at[n - 1] => f[n] = at[n]
    BY <2>1, <2>2, <2>3, SMTT(30)
  <2>5. \A n \in 0 .. N - 1 : f[n] = at[n]
    <3> DEFINE M == N - 1
    <3>1. M \in Nat /\ f[0] = at[0] /\ \A n \in 1 .. M : f[n - 1] = at[n - 1] => f[n] = at[n]
      BY <2>1, <2>2, <2>3, <2>4
    <3> HIDE DEF M
    <3>2. \A n \in 0 .. M : f[n] = at[n]
      <4> DEFINE good == { n \in 0 .. M : f[n] = at[n] }
      <4>1. 0 \in good /\ \A n \in 1 .. M : n - 1 \in good => n \in good
        BY <3>1
      <4>2. \A n \in 0 .. M : n \in good
        <5> HIDE DEF good
        <5> QED BY <3>1, <4>1, Induction
      <4> QED BY <4>2
    <3> QED BY <3>2 DEF M
  <2>6. f[N - 1] = at[N - 1] /\ N \in 1 .. N
    BY <2>1, <2>5
  <2> QED BY <2>1, <2>2, <2>3, <2>6
<1> QED BY <1>1, <1>2

(* What a path leads to is the entry of its inode number. *)
PathsFound ==
    \A p \in Paths :
        /\ path_to_log_entry(p) \in 0 .. Len(log)
        /\ path_to_log_entry(p) # 0 =>
             /\ ~log[path_to_log_entry(p)].deleted
             /\ get_log_entry[log[path_to_log_entry(p)].ino] = path_to_log_entry(p)

LEMMA PathFound == Logged => PathsFound
<1> SUFFICES ASSUME Logged, NEW p \in Paths
             PROVE  /\ path_to_log_entry(p) \in 0 .. Len(log)
                    /\ path_to_log_entry(p) # 0 =>
                         /\ ~log[path_to_log_entry(p)].deleted
                         /\ get_log_entry[log[path_to_log_entry(p)].ino] = path_to_log_entry(p)
  BY DEF PathsFound
<1>1. path_to_log_entry(Front(p)) \in 0 .. Len(log) \/ p = <<>>
  <2> SUFFICES ASSUME p # <<>> PROVE path_to_log_entry(Front(p)) \in 0 .. Len(log)
    OBVIOUS
  <2>1. Front(p) \in Paths
    BY PathParts
  <2>2. Len(Front(p)) \in 0 .. Len(Front(p))
    BY <2>1, PathIs
  <2> QED BY <2>1, <2>2, PathIs
<1>2. \E n \in Int : path_to_log_entry(p) = get_log_entry[n]
  <2>1. CASE p = <<>>
    BY <2>1, PathStep DEF StepByStep
  <2>2. CASE p # <<>>
    <3>1. get_inode_number(Last(p), path_to_log_entry(Front(p))) \in Int
      BY <1>1, <2>2, NumberType, PathParts DEF NumbersTyped
    <3> QED BY <2>2, <3>1, PathStep DEF StepByStep
  <2> QED BY <2>1, <2>2
<1>3. PICK n \in Int : path_to_log_entry(p) = get_log_entry[n]
  BY <1>2
<1> QED BY <1>3, EntryIs DEF Found, LastFound

-----------------------------------------------------------------------------
(* The largest number in use. *)

LEMMA Bounded ==
    ASSUME NEW N \in Nat, NEW f, \A n \in 1 .. N : f[n] \in Nat
    PROVE  \E B \in Nat : \A n \in 1 .. N : f[n] <= B
<1> DEFINE good == { m \in 0 .. N : \E B \in Nat : \A n \in 1 .. m : f[n] <= B }
<1>1. 0 \in good
  OBVIOUS
<1>2. ASSUME NEW m \in 1 .. N, m - 1 \in good PROVE m \in good
  <2>1. PICK B \in Nat : \A n \in 1 .. m - 1 : f[n] <= B
    BY <1>2
  <2> DEFINE C == IF f[m] <= B THEN B ELSE f[m]
  <2>2. C \in Nat /\ B <= C /\ f[m] <= C
    OBVIOUS
  <2> HIDE DEF C
  <2>3. \A n \in 1 .. m : f[n] <= C
    <3> SUFFICES ASSUME NEW n \in 1 .. m PROVE f[n] <= C
      OBVIOUS
    <3>1. f[n] \in Nat /\ (n = m \/ n \in 1 .. m - 1)
      OBVIOUS
    <3> QED BY <2>1, <2>2, <3>1
  <2> QED BY <2>2, <2>3
<1>3. N \in good
  <2> HIDE DEF good
  <2>1. \A m \in 0 .. N : m \in good
    BY <1>1, <1>2, Induction
  <2> QED BY <2>1
<1> QED BY <1>3

LargestFound ==
    /\ Max_InodeNum \in Nat
    /\ \A k \in 1 .. Len(log) : ~log[k].deleted => log[k].ino <= Max_InodeNum
    /\ \/ Max_InodeNum = 0
       \/ \E k \in 1 .. Len(log) : ~log[k].deleted /\ log[k].ino = Max_InodeNum

LEMMA MaxIs == Logged => LargestFound
<1> SUFFICES ASSUME Logged
             PROVE  /\ Max_InodeNum \in Nat
                    /\ \A k \in 1 .. Len(log) : ~log[k].deleted => log[k].ino <= Max_InodeNum
                    /\ \/ Max_InodeNum = 0
                       \/ \E k \in 1 .. Len(log) : ~log[k].deleted /\ log[k].ino = Max_InodeNum
  BY DEF LargestFound
<1> DEFINE f == [k \in 1 .. Len(log) |-> log[k].ino]
           numbers == {0} \cup { log[k].ino : k \in { j \in DOMAIN log : ~log[j].deleted } }
<1>1. Len(log) \in Nat /\ DOMAIN log = 1 .. Len(log)
  BY DEF Logged
<1>2. \A k \in 1 .. Len(log) : f[k] = log[k].ino /\ f[k] \in Nat
  BY LogFields DEF Fields
<1> HIDE DEF f
<1>3. PICK B \in Nat : \A k \in 1 .. Len(log) : f[k] <= B
  BY <1>1, <1>2, Bounded
<1>4. numbers \in SUBSET (0 .. B)
  BY <1>1, <1>2, <1>3
<1>5. Max_InodeNum = Max(numbers)
  BY DEF Max_InodeNum
<1>6. 0 \in numbers /\ \A k \in 1 .. Len(log) : ~log[k].deleted => log[k].ino \in numbers
  BY <1>1
<1>7. \A n \in numbers : n = 0 \/ \E k \in 1 .. Len(log) : ~log[k].deleted /\ log[k].ino = n
  BY <1>1
<1> HIDE DEF numbers
<1>8. Max(numbers) \in numbers /\ \A n \in numbers : n <= Max(numbers)
  BY <1>4, <1>6, MaxIsThere
<1>9. Max_InodeNum \in numbers /\ Max_InodeNum \in Nat
  <2>1. Max_InodeNum \in numbers
    BY <1>5, <1>8, Zenon
  <2> QED BY <1>4, <2>1
<1>10. Max_InodeNum = 0 \/ \E k \in 1 .. Len(log) : ~log[k].deleted /\ log[k].ino = Max_InodeNum
  BY <1>7, <1>9
<1> QED BY <1>5, <1>6, <1>8, <1>9, <1>10

-----------------------------------------------------------------------------
(* The head moves by the size of what is appended, and not otherwise. *)

LEMMA HeadType == Logged => head \in Nat
<1> SUFFICES ASSUME Logged PROVE head \in Nat
  OBVIOUS
<1>1. PICK up \in [0 .. Len(log) -> Nat] : head = up[Len(log)]
  BY HeadIs DEF HeadSums
<1>2. Len(log) \in 0 .. Len(log)
  BY DEF Logged
<1> QED BY <1>1, <1>2

LEMMA HeadAppend ==
    ASSUME Logged, NEW e \in Entries, log' = Append(log, e)
    PROVE  Logged' /\ head \in Nat /\ head' = head + Size(e)
<1> DEFINE N == Len(log)
<1>1. /\ Logged' /\ N \in Nat /\ Len(log') = N + 1 /\ log'[N + 1] = e
      /\ \A k \in 1 .. N : log'[k] = log[k]
  BY DEF Logged
<1>2. PICK up \in [0 .. N -> Nat] :
        /\ up[0] = 0 /\ \A k \in 1 .. N : up[k] = up[k - 1] + Size(log[k])
        /\ head = up[N]
  BY HeadIs DEF HeadSums
<1>3. HeadSums'
  BY <1>1, HeadIs, PTL
<1>4. PICK f \in [0 .. N + 1 -> Nat] :
        /\ f[0] = 0 /\ \A k \in 1 .. N + 1 : f[k] = f[k - 1] + Size(log'[k])
        /\ head' = f[N + 1]
  BY <1>1, <1>3 DEF HeadSums
<1>5. \A n \in 0 .. N : f[n] = up[n]
  <2> DEFINE good == { n \in 0 .. N : f[n] = up[n] }
  <2>1. 0 \in good
    BY <1>1, <1>2, <1>4
  <2>2. ASSUME NEW n \in 1 .. N, n - 1 \in good PROVE n \in good
    <3>1. n \in 1 .. N + 1 /\ log'[n] = log[n] /\ f[n - 1] = up[n - 1]
      BY <1>1, <2>2
    <3>2. f[n] = f[n - 1] + Size(log[n]) /\ up[n] = up[n - 1] + Size(log[n])
      BY <1>2, <1>4, <3>1
    <3> QED BY <3>1, <3>2
  <2>3. \A n \in 0 .. N : n \in good
    <3> HIDE DEF good
    <3> QED BY <1>1, <2>1, <2>2, Induction
  <2> QED BY <2>3
<1>6. N + 1 \in 1 .. N + 1 /\ N \in 0 .. N /\ (N + 1) - 1 = N
  BY <1>1
<1>7. f[N + 1] = f[N] + Size(e)
  BY <1>1, <1>4, <1>6
<1> QED BY <1>1, <1>2, <1>4, <1>5, <1>6, <1>7

LEMMA HeadSame ==
    ASSUME Logged, Logged', Len(log') = Len(log),
           \A k \in 1 .. Len(log) : Size(log'[k]) = Size(log[k])
    PROVE  head \in Nat /\ head' = head
<1> DEFINE N == Len(log)
<1>1. N \in Nat
  BY DEF Logged
<1>2. PICK up \in [0 .. N -> Nat] :
        /\ up[0] = 0 /\ \A k \in 1 .. N : up[k] = up[k - 1] + Size(log[k])
        /\ head = up[N]
  BY HeadIs DEF HeadSums
<1>3. HeadSums'
  BY HeadIs, PTL
<1>4. PICK f \in [0 .. N -> Nat] :
        /\ f[0] = 0 /\ \A k \in 1 .. N : f[k] = f[k - 1] + Size(log'[k])
        /\ head' = f[N]
  BY <1>3 DEF HeadSums
<1>5. \A n \in 0 .. N : f[n] = up[n]
  <2> DEFINE good == { n \in 0 .. N : f[n] = up[n] }
  <2>1. 0 \in good
    BY <1>1, <1>2, <1>4
  <2>2. ASSUME NEW n \in 1 .. N, n - 1 \in good PROVE n \in good
    <3>1. f[n - 1] = up[n - 1]
      BY <2>2
    <3>2. f[n] = f[n - 1] + Size(log[n]) /\ up[n] = up[n - 1] + Size(log[n])
      BY <1>2, <1>4
    <3> QED BY <3>1, <3>2
  <2>3. \A n \in 0 .. N : n \in good
    <3> HIDE DEF good
    <3> QED BY <1>1, <2>1, <2>2, Induction
  <2> QED BY <2>3
<1>6. N \in 0 .. N
  BY <1>1
<1> QED BY <1>2, <1>4, <1>5, <1>6

-----------------------------------------------------------------------------
(* The log, whatever is done to it. *)

OnDisk == head <= DiskSize /\ stale \subseteq head + 1 .. DiskSize

(* What a death leaves: the log, and something past its end perhaps.       *)
Died ==
    /\ UNCHANGED <<log, creating, ret>> /\ proc' = "dead" /\ fault' \in {"space", "list", "crash"}
    /\ OnDisk'

(* The log and the disk stay. *)
Stayed ==
    /\ UNCHANGED <<log, stale, creating>>
    /\ ret' \in {"OK", "EEXIST"} /\ fault' \in {"none", "space", "list", "crash"}

Root == 1 \in DOMAIN log /\ log[1].ino = 0 /\ log[1].kind = "dir"

(* Only files are removed, and they have no dentries. *)
Removable ==
    \A k \in 1 .. Len(log) :
        /\ log[k].kind = "dir" => ~log[k].deleted
        /\ log[k].kind = "file" => log[k].dents = <<>>

(* The entries of an inode have one kind, and its dentries only become     *)
(* more.  (A number may be used again once all its entries are removed.)   *)
Extends(d, e) == Len(d) <= Len(e) /\ \A n \in 1 .. Len(d) : e[n] = d[n]

Versions ==
    \A j, k \in 1 .. Len(log) :
        ~log[j].deleted /\ ~log[k].deleted /\ log[j].ino = log[k].ino =>
            /\ log[j].kind = log[k].kind
            /\ j <= k => Extends(log[j].dents, log[k].dents)

(* The inode of a creation has a number no other has.                      *)
NewNumber ==
    /\ creating = NewInode(creating.ino, creating.kind)
    /\ proc = "creating" => \A k \in 1 .. Len(log) : ~log[k].deleted => log[k].ino < creating.ino

IInv == TypeOK /\ Root /\ Removable /\ Versions /\ NewNumber

LEMMA NewInodeIs ==
    ASSUME NEW n \in Nat, NEW kind \in {"dir", "file"}
    PROVE  /\ NewInode(n, kind) \in Entries
           /\ NewInode(n, kind).ino = n /\ NewInode(n, kind).kind = kind
           /\ NewInode(n, kind).dents = <<>> /\ NewInode(n, kind).data = <<>>
           /\ ~NewInode(n, kind).deleted
           /\ Size(NewInode(n, kind)) = 1
BY DEF NewInode, Entries, Size

LEMMA InitIInv == Init => IInv
<1> SUFFICES ASSUME Init PROVE IInv
  OBVIOUS
<1> DEFINE r == NewInode(0, "dir")
<1>1. r \in Entries /\ r.ino = 0 /\ r.kind = "dir" /\ r.dents = <<>> /\ ~r.deleted /\ Size(r) = 1
  BY NewInodeIs
<1>2. log = <<r>> /\ stale = {} /\ creating = r /\ proc = "running" /\ ret = "OK" /\ fault = "none"
  BY DEF Init
<1> HIDE DEF r
<1>3. Logged /\ Len(log) = 1 /\ log[1] = r
  BY <1>1, <1>2 DEF Logged
<1>4. head = 1
  <2>1. PICK up \in [0 .. 1 -> Nat] :
          /\ up[0] = 0 /\ \A k \in 1 .. 1 : up[k] = up[k - 1] + Size(log[k])
          /\ head = up[1]
    BY <1>3, HeadIs DEF HeadSums
  <2>2. up[1] = up[0] + Size(log[1])
    BY <2>1
  <2> QED BY <1>1, <1>3, <2>1, <2>2
<1>5. TypeOK
  BY <1>1, <1>2, <1>3, <1>4, WfsLogAssumption DEF TypeOK, Logged
<1>6. Root /\ Removable /\ Versions
  BY <1>1, <1>2, <1>3 DEF Root, Removable, Versions, Extends
<1>7. NewNumber
  BY <1>1, <1>2 DEF NewNumber, r
<1> QED BY <1>5, <1>6, <1>7 DEF IInv

LEMMA SameHead ==
    ASSUME UNCHANGED log
    PROVE  head' = head /\ (UNCHANGED stale /\ OnDisk => OnDisk')
<1>1. head' = head
  BY DEF head, Size
<1> QED BY <1>1 DEF OnDisk

LEMMA DeathIs ==
    ASSUME IInv, NEW e \in Entries, DieAppending(e)
    PROVE  Died
<1> DEFINE top == Min({head + Size(e), DiskSize})
<1>1. head \in Nat /\ Size(e) \in Nat /\ DiskSize \in Nat /\ OnDisk
  BY HeadType, SizeIs, WfsLogAssumption DEF IInv, TypeOK, Logged, OnDisk
<1>2. top \in Nat /\ top <= DiskSize
  BY <1>1, MinIsThere
<1> HIDE DEF top
<1>3. PICK written \in SUBSET (head + 1 .. top) :
        DieHaving(written, "space") \/ DieHaving(written, "crash")
  BY DEF DieAppending, top
<1>4. UNCHANGED <<log, creating, ret>> /\ proc' = "dead" /\ fault' \in {"space", "crash"}
      /\ stale' = stale \cup written
  BY <1>3 DEF DieHaving
<1>5. head' = head
  BY <1>4, SameHead
<1>6. OnDisk'
  BY <1>1, <1>2, <1>4, <1>5 DEF OnDisk
<1> QED BY <1>4, <1>6 DEF Died

LEMMA DeathIdle ==
    ASSUME IInv, NEW reason \in {"list", "crash"}, Die(reason)
    PROVE  Died
<1>1. UNCHANGED <<log, stale, creating, ret>> /\ proc' = "dead" /\ fault' = reason
  BY DEF Die, DieHaving
<1> QED BY <1>1, SameHead DEF Died, IInv, TypeOK, OnDisk

LEMMA DiedIInv == IInv /\ Died => IInv'
BY DEF Died, OnDisk, IInv, TypeOK, Root, Removable, Versions, NewNumber

LEMMA StayedIInv ==
    ASSUME IInv, Stayed, proc' \in {"running", "dead"} \/ UNCHANGED proc
    PROVE  IInv'
<1>1. OnDisk'
  BY SameHead DEF Stayed, IInv, TypeOK, OnDisk
<1> QED BY <1>1 DEF Stayed, OnDisk, IInv, TypeOK, Root, Removable, Versions, NewNumber

LEMMA AppendIInv ==
    ASSUME IInv, NEW e \in Entries, ~e.deleted, AppendEntry(e), head + Size(e) <= DiskSize,
           e.kind = "file" => e.dents = <<>>,
           \A k \in 1 .. Len(log) : ~log[k].deleted /\ log[k].ino = e.ino =>
               log[k].kind = e.kind /\ Extends(log[k].dents, e.dents)
    PROVE  Logged' /\ OnDisk' /\ Root' /\ Removable' /\ Versions'
<1> DEFINE N == Len(log)
<1> USE DEF IInv
<1>1. Logged /\ N \in Nat /\ N >= 1 /\ log' = Append(log, e)
  BY DEF TypeOK, Logged, Root, AppendEntry
<1>2. Logged' /\ OnDisk'
  <2>1. Logged' /\ head \in Nat /\ head' = head + Size(e) /\ Size(e) \in Nat
    BY <1>1, HeadAppend, SizeIs
  <2>2. stale' = stale \ (1 .. head') /\ stale \subseteq head + 1 .. DiskSize
    BY <2>1 DEF AppendEntry, TypeOK
  <2>3. DiskSize \in Nat /\ head' <= DiskSize
    BY <2>1, WfsLogAssumption
  <2>4. stale' \subseteq head' + 1 .. DiskSize
    <3>1. head' \in Nat
      BY <2>1
    <3> SUFFICES ASSUME NEW u \in stale' PROVE u \in head' + 1 .. DiskSize
      OBVIOUS
    <3>2. u \in head + 1 .. DiskSize /\ u \notin 1 .. head'
      BY <2>2
    <3> QED BY <2>1, <2>3, <3>1, <3>2
  <2> QED BY <2>1, <2>3, <2>4 DEF OnDisk
<1>3. /\ Len(log') = N + 1 /\ DOMAIN log' = 1 .. N + 1 /\ log'[N + 1] = e
      /\ \A k \in 1 .. N : log'[k] = log[k]
      /\ \A k \in 1 .. N + 1 : k \in 1 .. N \/ k = N + 1
  BY <1>1 DEF Logged
<1>4. Root'
  BY <1>1, <1>3 DEF Root
<1>5. Removable'
  BY <1>1, <1>3 DEF Removable
<1>6. Versions'
  <2>1. Extends(e.dents, e.dents)
    BY EntryFields DEF Extends
  <2>2. \A j \in 1 .. N : ~(N + 1 <= j)
    BY <1>1
  <2> QED BY <1>1, <1>3, <2>1, <2>2 DEF Versions
<1> QED BY <1>2, <1>4, <1>5, <1>6

(* The last entry of a number has the dentries of all that came before.    *)
LEMMA LastExtends ==
    ASSUME IInv, NEW k \in 1 .. Len(log), ~log[k].deleted, get_log_entry[log[k].ino] = k,
           NEW dents, Extends(log[k].dents, dents)
    PROVE  \A j \in 1 .. Len(log) : ~log[j].deleted /\ log[j].ino = log[k].ino =>
               log[j].kind = log[k].kind /\ Extends(log[j].dents, dents)
<1> SUFFICES ASSUME NEW j \in 1 .. Len(log), ~log[j].deleted, log[j].ino = log[k].ino
             PROVE  log[j].kind = log[k].kind /\ Extends(log[j].dents, dents)
  OBVIOUS
<1>1. Logged /\ log[k].ino \in Nat
  BY LogFields DEF IInv, TypeOK, Logged, Fields
<1>2. j <= k
  BY <1>1, EntryIs DEF LastFound, Found
<1>3. log[j].kind = log[k].kind /\ Extends(log[j].dents, log[k].dents)
  BY <1>2 DEF IInv, Versions
<1>4. /\ log[j].dents \in Seq([name : Names, ino : Nat])
      /\ log[k].dents \in Seq([name : Names, ino : Nat])
  BY <1>1, LogFields DEF Fields
<1>5. Len(log[j].dents) \in Nat /\ Len(log[k].dents) \in Nat
  BY <1>4
<1>6. Extends(log[j].dents, dents)
  <2> DEFINE a == Len(log[j].dents)  b == Len(log[k].dents)
  <2>1. a <= b /\ a \in Nat /\ b \in Nat
    BY <1>3, <1>5 DEF Extends
  <2>2. \A n \in 1 .. a : n \in 1 .. b
    BY <2>1
  <2>3. b <= Len(dents) /\ \A n \in 1 .. a : dents[n] = log[j].dents[n]
    BY <1>3, <2>2 DEF Extends
  <2>4. a <= Len(dents)
    BY <2>1, <2>3 DEF Extends
  <2> QED BY <2>3, <2>4 DEF Extends
<1> QED BY <1>3, <1>6

(* A parent with a new dentry. *)
Copied(k, e, name, n) ==
    /\ k \in 1 .. Len(log) /\ ~log[k].deleted /\ get_log_entry[log[k].ino] = k
    /\ log[k].kind = "dir"
    /\ e \in Entries /\ ~e.deleted /\ e.kind = "dir" /\ e.ino = log[k].ino
    /\ e.dents = Append(log[k].dents, [name |-> name, ino |-> Stored(name, n)])
    /\ Extends(log[k].dents, e.dents)

LEMMA StoredIs ==
    ASSUME NEW name, NEW n \in Nat
    PROVE  Stored(name, n) \in Nat /\ (name \notin LongNames => Stored(name, n) = n)
<1>1. n % 256 \in 0 .. 255 /\ n - (n % 256) \in Nat
  BY SMTT(30)
<1> QED BY <1>1 DEF Stored

LEMMA ParentIs ==
    ASSUME IInv, NEW path \in Paths \ {<<>>}, NEW n \in Nat, Is("dir", path_to_log_entry(Front(path)))
    PROVE  Copied(path_to_log_entry(Front(path)),
                  WithDentry(path_to_log_entry(Front(path)), Last(path), n), Last(path), n)
<1> DEFINE k == path_to_log_entry(Front(path))
           e == WithDentry(k, Last(path), n)
<1>1. Logged
  BY DEF IInv, TypeOK, Logged
<1>2. Front(path) \in Paths /\ Last(path) \in Names
  BY PathParts
<1>3. /\ k \in 1 .. Len(log) /\ ~log[k].deleted /\ get_log_entry[log[k].ino] = k
      /\ log[k].kind = "dir"
  BY <1>1, <1>2, PathFound DEF PathsFound, Is, Logged
<1> HIDE DEF k
<1> DEFINE d == [name |-> Last(path), ino |-> Stored(Last(path), n)]
           D == [name : Names, ino : Nat]
           dents == log[k].dents
<1>4. log[k] \in Entries /\ dents \in Seq(D) /\ d \in D
  BY <1>1, <1>2, <1>3, LogFields, StoredIs DEF Fields
<1>5. e = [log[k] EXCEPT !.dents = Append(dents, d)]
  BY DEF WithDentry
<1>6. Append(dents, d) \in Seq(D) /\ Extends(dents, Append(dents, d))
  <2> HIDE DEF d, D, dents
  <2> QED BY <1>4 DEF Extends
<1>7. /\ e \in Entries /\ e.deleted = log[k].deleted /\ e.kind = log[k].kind /\ e.ino = log[k].ino
      /\ e.dents = Append(dents, d)
  <2> HIDE DEF d, dents, e
  <2> QED BY <1>4, <1>5, <1>6 DEF Entries
<1>8. Copied(k, e, Last(path), n)
  <2> HIDE DEF e
  <2> QED BY <1>3, <1>6, <1>7 DEF Copied
<1> QED BY <1>8 DEF k

LEMMA CreateIInv ==
    ASSUME IInv, NEW path \in Paths \ {<<>>}, NEW kind \in {"dir", "file"}, Create(path, kind)
    PROVE  IInv'
<1> DEFINE k == path_to_log_entry(Front(path))
           n == Max_InodeNum + 1
           e == WithDentry(k, Last(path), n)
<1>1. /\ proc = "running" /\ Is("dir", k)
      /\ \/ Return("EEXIST") /\ UNCHANGED <<log, stale, creating>>
         \/ /\ Fits(e) /\ AppendEntry(e)
            /\ creating' = NewInode(n, kind)
            /\ proc' = "creating" /\ UNCHANGED <<ret, fault>>
         \/ DieAppending(e)
  BY DEF Create
<1>2. Logged
  BY DEF IInv, TypeOK, Logged
<1>3. Max_InodeNum \in Nat /\ n \in Nat
  BY <1>2, MaxIs DEF LargestFound
<1>4. Copied(k, e, Last(path), n)
  BY <1>1, <1>3, ParentIs
<1>5. CASE /\ Fits(e) /\ AppendEntry(e)
           /\ creating' = NewInode(n, kind)
           /\ proc' = "creating" /\ UNCHANGED <<ret, fault>>
  <2>1. Copied(k, e, Last(path), n) /\ log' = Append(log, e)
    BY <1>4, <1>5 DEF AppendEntry
  <2> HIDE DEF e, k, n
  <2>2. \A j \in 1 .. Len(log) : ~log[j].deleted /\ log[j].ino = e.ino =>
               log[j].kind = e.kind /\ Extends(log[j].dents, e.dents)
    BY <2>1, LastExtends DEF Copied
  <2>3. head + Size(e) <= DiskSize
    BY <1>5 DEF Fits
  <2>4. Logged' /\ OnDisk' /\ Root' /\ Removable' /\ Versions'
    BY <1>5, <2>1, <2>2, <2>3, AppendIInv DEF Copied
  <2>5. /\ creating' \in Entries /\ creating'.ino = n /\ creating'.kind = kind
    BY <1>3, <1>5, NewInodeIs
  <2>6. \A j \in 1 .. Len(log') : ~log'[j].deleted => log'[j].ino < n
    <3>1. \A j \in 1 .. Len(log) : ~log[j].deleted => log[j].ino <= Max_InodeNum /\ log[j].ino \in Nat
      BY <1>2, MaxIs, LogFields DEF LargestFound, Fields
    <3>2. \A j \in 1 .. Len(log') :
            \/ j \in 1 .. Len(log) /\ log'[j] = log[j]
            \/ log'[j] = e
      BY <1>2, <1>5, <2>1 DEF Logged, Copied
    <3>3. e.ino <= Max_InodeNum /\ e.ino \in Nat
      BY <2>1, <3>1 DEF Copied
    <3> QED BY <1>3, <3>1, <3>2, <3>3 DEF n
  <2>7. NewNumber'
    BY <1>5, <2>5, <2>6 DEF NewNumber
  <2>8. TypeOK'
    BY <1>5, <2>4, <2>5 DEF TypeOK, OnDisk, Logged, IInv
  <2> QED BY <2>4, <2>7, <2>8 DEF IInv
<1>6. CASE Return("EEXIST") /\ UNCHANGED <<log, stale, creating>>
  BY <1>6, StayedIInv DEF Return, Stayed, IInv, TypeOK
<1>7. CASE DieAppending(e)
  <2> HIDE DEF e
  <2> QED BY <1>4, <1>7, DeathIs, DiedIInv DEF Copied
<1> QED BY <1>1, <1>5, <1>6, <1>7

LEMMA AppendInodeIInv ==
    ASSUME IInv, AppendInode
    PROVE  IInv'
<1>1. Logged /\ creating \in Entries /\ creating.ino \in Nat
  BY EntryFields DEF IInv, TypeOK, Logged
<1>2. CASE Fits(creating) /\ AppendEntry(creating) /\ Return("OK") /\ UNCHANGED creating
  <2>1. ~creating.deleted /\ creating.dents = <<>>
    <3>1. creating.kind \in {"dir", "file"}
      BY <1>1, EntryFields
    <3> QED BY <1>1, <3>1, NewInodeIs DEF IInv, NewNumber
  <2>2. \A k \in 1 .. Len(log) : ~log[k].deleted => log[k].ino # creating.ino
    <3>1. \A k \in 1 .. Len(log) : ~log[k].deleted => log[k].ino < creating.ino
      BY DEF AppendInode, IInv, NewNumber
    <3>2. \A k \in 1 .. Len(log) : log[k].ino \in Nat
      BY <1>1, LogFields DEF Fields
    <3> QED BY <1>1, <3>1, <3>2
  <2>3. Logged' /\ OnDisk' /\ Root' /\ Removable' /\ Versions'
    BY <1>1, <1>2, <2>1, <2>2, AppendIInv DEF Fits
  <2>4. TypeOK' /\ NewNumber'
    BY <1>1, <1>2, <2>3 DEF TypeOK, OnDisk, Logged, NewNumber, Return, IInv
  <2> QED BY <2>3, <2>4 DEF IInv
<1>3. CASE DieAppending(creating)
  BY <1>1, <1>3, DeathIs, DiedIInv
<1> QED BY <1>2, <1>3 DEF AppendInode

(* A file with other blocks. *)
LEMMA WrittenIs ==
    ASSUME NEW data \in Seq(Contents), NEW off \in Offsets, NEW b \in Blocks
    PROVE  Written(data, off, b) \in Seq(Contents)
<1> DEFINE N == IF off >= Len(data) THEN off + 1 ELSE Len(data)
<1>1. N \in Nat
  BY WfsLogAssumption
<1>2. Written(data, off, b) =
        [k \in 1 .. N |-> IF k = off + 1 THEN b ELSE IF k <= Len(data) THEN data[k] ELSE Gap(k)]
  BY DEF Written
<1>3. \A k \in 1 .. N : Gap(k) \in Contents /\ (k <= Len(data) => data[k] \in Contents)
  BY <1>1 DEF Gap, Contents
<1> HIDE DEF N
<1>4. Written(data, off, b) \in [1 .. N -> Contents]
  BY <1>2, <1>3 DEF Contents
<1> QED BY <1>1, <1>4

Rewritten(k, e, off, b) ==
    /\ k \in 1 .. Len(log) /\ ~log[k].deleted /\ get_log_entry[log[k].ino] = k
    /\ log[k].kind = "file" /\ log[k].dents = <<>>
    /\ e \in Entries /\ ~e.deleted /\ e.kind = "file" /\ e.ino = log[k].ino
    /\ e.dents = <<>> /\ e.data = Written(log[k].data, off, b)

LEMMA FileIs ==
    ASSUME IInv, NEW path \in Paths, Is("file", path_to_log_entry(path)),
           NEW off \in Offsets, NEW b \in Blocks
    PROVE  Rewritten(path_to_log_entry(path),
                     [log[path_to_log_entry(path)] EXCEPT !.data = Written(@, off, b)], off, b)
<1> DEFINE k == path_to_log_entry(path)
           data == Written(log[k].data, off, b)
           e == [log[k] EXCEPT !.data = data]
<1>1. Logged
  BY DEF IInv, TypeOK, Logged
<1>2. k \in 1 .. Len(log) /\ ~log[k].deleted /\ get_log_entry[log[k].ino] = k /\ log[k].kind = "file"
  BY <1>1, PathFound DEF PathsFound, Is, Logged
<1> HIDE DEF k
<1>3. log[k] \in Entries /\ log[k].data \in Seq(Contents) /\ log[k].dents = <<>>
  BY <1>1, <1>2, LogFields DEF Fields, IInv, Removable
<1>4. data \in Seq(Contents)
  BY <1>3, WrittenIs
<1>5. /\ e \in Entries /\ e.deleted = log[k].deleted /\ e.kind = log[k].kind /\ e.ino = log[k].ino
      /\ e.dents = log[k].dents /\ e.data = data
  <2> HIDE DEF data
  <2> QED BY <1>3, <1>4 DEF Entries
<1>6. Rewritten(k, e, off, b)
  <2> HIDE DEF e
  <2> QED BY <1>2, <1>3, <1>5 DEF Rewritten
<1> QED BY <1>6 DEF k

LEMMA WriteIInv ==
    ASSUME IInv, NEW path \in Paths, NEW off \in Offsets, NEW b \in Blocks, my_write(path, off, b)
    PROVE  IInv'
<1> DEFINE k == path_to_log_entry(path)
           e == [log[k] EXCEPT !.data = Written(@, off, b)]
<1>1. /\ proc = "running" /\ Is("file", k)
      /\ \/ Fits(e) /\ AppendEntry(e) /\ Return("OK") /\ UNCHANGED creating
         \/ DieAppending(e)
  BY DEF my_write
<1>2. Logged
  BY DEF IInv, TypeOK, Logged
<1>3. Rewritten(k, e, off, b)
  BY <1>1, FileIs
<1> HIDE DEF k, e
<1>4. CASE Fits(e) /\ AppendEntry(e) /\ Return("OK") /\ UNCHANGED creating
  <2>1. \A j \in 1 .. Len(log) : ~log[j].deleted /\ log[j].ino = e.ino =>
               log[j].kind = e.kind /\ Extends(log[j].dents, e.dents)
    <3>1. Extends(log[k].dents, e.dents)
      BY <1>3 DEF Rewritten, Extends
    <3> QED BY <1>3, <3>1, LastExtends DEF Rewritten
  <2>2. Logged' /\ OnDisk' /\ Root' /\ Removable' /\ Versions'
    BY <1>3, <1>4, <2>1, AppendIInv DEF Fits, Rewritten
  <2>3. TypeOK' /\ NewNumber'
    <3>1. log' = Append(log, e)
      BY <1>4 DEF AppendEntry
    <3> QED BY <1>1, <1>4, <2>2, <3>1 DEF TypeOK, OnDisk, Logged, NewNumber, Return, IInv
  <2> QED BY <2>2, <2>3 DEF IInv
<1>5. CASE DieAppending(e)
  BY <1>3, <1>5, DeathIs, DiedIInv DEF Rewritten
<1> QED BY <1>1, <1>4, <1>5

(* A file's entry marked deleted. *)
LEMMA MarkIs ==
    ASSUME Logged, NEW k \in 1 .. Len(log), log' = [log EXCEPT ![k].deleted = TRUE]
    PROVE  /\ Logged' /\ Len(log') = Len(log) /\ DOMAIN log' = DOMAIN log
           /\ log'[k].deleted
           /\ [log'[k] EXCEPT !.deleted = FALSE] = [log[k] EXCEPT !.deleted = FALSE]
           /\ \A j \in 1 .. Len(log) : j # k => log'[j] = log[j]
           /\ \A j \in 1 .. Len(log) :
                /\ log'[j].ino = log[j].ino /\ log'[j].kind = log[j].kind
                /\ log'[j].dents = log[j].dents /\ log'[j].data = log[j].data
<1> DEFINE e == [log[k] EXCEPT !.deleted = TRUE]
<1>1. log[k] \in Entries /\ Len(log) \in Nat /\ DOMAIN log = 1 .. Len(log)
  BY LogFields DEF Fields, Logged
<1>2. /\ e \in Entries /\ e.deleted = TRUE /\ e.ino = log[k].ino /\ e.kind = log[k].kind
      /\ e.dents = log[k].dents /\ e.data = log[k].data
      /\ [e EXCEPT !.deleted = FALSE] = [log[k] EXCEPT !.deleted = FALSE]
  BY <1>1 DEF Entries
<1>3. log' = [log EXCEPT ![k] = e]
  OBVIOUS
<1> HIDE DEF e
<1>4. log' \in Seq(Entries) /\ Len(log') = Len(log) /\ DOMAIN log' = DOMAIN log
  <2> DEFINE N == Len(log)
  <2>1. log \in [1 .. N -> Entries] /\ N \in Nat
    BY <1>1 DEF Logged
  <2>2. log' \in [1 .. N -> Entries]
    BY <1>2, <1>3, <2>1
  <2> QED BY <2>1, <2>2
<1>5. log'[k] = e /\ \A j \in 1 .. Len(log) : j # k => log'[j] = log[j]
  BY <1>1, <1>3
<1> QED BY <1>2, <1>4, <1>5 DEF Logged

LEMMA UnlinkIInv ==
    ASSUME IInv, NEW path \in Paths, wfs_unlink(path)
    PROVE  IInv'
<1> DEFINE k == path_to_log_entry(path)
<1>1. Is("file", k) /\ log' = [log EXCEPT ![k].deleted = TRUE] /\ Return("OK")
      /\ UNCHANGED <<stale, creating>>
  BY DEF wfs_unlink
<1>2. Logged
  BY DEF IInv, TypeOK, Logged
<1>3. k \in 1 .. Len(log) /\ log[k].kind = "file"
  BY <1>1, <1>2, PathFound DEF PathsFound, Is, Logged
<1> HIDE DEF k
<1>4. /\ Logged' /\ Len(log') = Len(log) /\ DOMAIN log' = DOMAIN log
      /\ log'[k].deleted
      /\ \A j \in 1 .. Len(log) : j # k => log'[j] = log[j]
      /\ \A j \in 1 .. Len(log) :
           /\ log'[j].ino = log[j].ino /\ log'[j].kind = log[j].kind
           /\ log'[j].dents = log[j].dents /\ log'[j].data = log[j].data
  BY <1>1, <1>2, <1>3, MarkIs
<1>5. OnDisk'
  <2>1. \A j \in 1 .. Len(log) : Size(log'[j]) = Size(log[j])
    BY <1>4 DEF Size
  <2>2. head' = head
    BY <1>2, <1>4, <2>1, HeadSame
  <2> QED BY <1>1, <2>2 DEF IInv, TypeOK, OnDisk
<1>6. Root' /\ Removable'
  BY <1>2, <1>3, <1>4 DEF IInv, Root, Removable, Logged
<1>7. \A j \in 1 .. Len(log') : ~log'[j].deleted => ~log[j].deleted
  BY <1>4
<1>8. Versions'
  BY <1>4, <1>7 DEF IInv, Versions
<1>9. TypeOK' /\ NewNumber'
  BY <1>1, <1>4, <1>5, <1>7 DEF IInv, TypeOK, OnDisk, Logged, NewNumber, Return
<1> QED BY <1>6, <1>8, <1>9 DEF IInv

LEMMA StepIInv == IInv /\ [Next]_vars => IInv'
<1> SUFFICES ASSUME IInv, [Next]_vars PROVE IInv'
  OBVIOUS
<1>1. ASSUME NEW path \in Paths \ {<<>>}, my_mknod(path) PROVE IInv'
  BY <1>1, CreateIInv DEF my_mknod
<1>2. ASSUME NEW path \in Paths \ {<<>>}, my_mkdir(path) PROVE IInv'
  BY <1>2, CreateIInv DEF my_mkdir
<1>3. ASSUME NEW path \in Paths \ {<<>>}, wfs_unlink(path) PROVE IInv'
  BY <1>3, UnlinkIInv
<1>4. ASSUME NEW path \in Paths \ {<<>>}, NEW off \in Offsets, NEW b \in Blocks, my_write(path, off, b)
      PROVE  IInv'
  BY <1>4, WriteIInv
<1>5. CASE AppendInode
  BY <1>5, AppendInodeIInv
<1>6. ASSUME NEW path \in Paths, my_readdir(path) PROVE IInv'
  <2>1. CASE Return("OK") /\ UNCHANGED <<log, stale, creating>>
    BY <2>1, StayedIInv DEF Return, Stayed, IInv, TypeOK
  <2>2. CASE Die("list")
    BY <2>2, DeathIdle, DiedIInv
  <2> QED BY <1>6, <2>1, <2>2 DEF my_readdir
<1>7. CASE Crash
  BY <1>7, DeathIdle, DiedIInv DEF Crash
<1>8. CASE Mount
  BY <1>8, StayedIInv DEF Mount, Stayed, IInv, TypeOK
<1>9. CASE UNCHANGED vars
  BY <1>9, StayedIInv DEF vars, Stayed, IInv, TypeOK
<1> QED BY <1>1, <1>2, <1>3, <1>4, <1>5, <1>6, <1>7, <1>8, <1>9 DEF Next

LEMMA Invariance == Spec => []IInv
BY InitIInv, StepIInv, PTL DEF Spec

(* The variables have their types whatever is created, written, removed    *)
(* and killed: what is logged are entries, and they fit on the disk.       *)
THEOREM TypeCorrect == Spec => []TypeOK
<1>1. IInv => TypeOK
  BY DEF IInv
<1> QED BY <1>1, Invariance, PTL

-----------------------------------------------------------------------------
(* What a step keeps. *)

Kept ==
    \A k \in DOMAIN log :
        /\ k \in DOMAIN log'
        /\ [log'[k] EXCEPT !.deleted = FALSE] = [log[k] EXCEPT !.deleted = FALSE]
        /\ log[k].deleted => log'[k].deleted

KeptFields ==
    \A k \in 1 .. Len(log) :
        /\ k \in 1 .. Len(log')
        /\ log'[k].ino = log[k].ino /\ log'[k].kind = log[k].kind /\ log'[k].dents = log[k].dents

LEMMA LogSteps ==
    ASSUME IInv, [Next]_vars
    PROVE  \/ UNCHANGED log
           \/ \E e : log' = Append(log, e)
           \/ \E k \in 1 .. Len(log) : log' = [log EXCEPT ![k].deleted = TRUE]
<1>1. ASSUME NEW path \in Paths \ {<<>>}, my_mknod(path) \/ my_mkdir(path)
      PROVE  UNCHANGED log \/ \E e : log' = Append(log, e)
  BY <1>1 DEF my_mknod, my_mkdir, Create, AppendEntry, DieAppending, DieHaving
<1>2. ASSUME NEW path \in Paths \ {<<>>}, wfs_unlink(path)
      PROVE  \E k \in 1 .. Len(log) : log' = [log EXCEPT ![k].deleted = TRUE]
  <2>1. Logged
    BY DEF IInv, TypeOK, Logged
  <2>2. path_to_log_entry(path) \in 1 .. Len(log)
    BY <1>2, <2>1, PathFound DEF PathsFound, wfs_unlink, Is, Logged
  <2> QED BY <1>2, <2>2 DEF wfs_unlink
<1>3. ASSUME NEW path \in Paths \ {<<>>}, NEW off \in Offsets, NEW b \in Blocks, my_write(path, off, b)
      PROVE  UNCHANGED log \/ \E e : log' = Append(log, e)
  BY <1>3 DEF my_write, AppendEntry, DieAppending, DieHaving
<1>4. CASE AppendInode
  BY <1>4 DEF AppendInode, AppendEntry, DieAppending, DieHaving
<1>5. ASSUME NEW path \in Paths, my_readdir(path) PROVE UNCHANGED log
  BY <1>5 DEF my_readdir, Die, DieHaving
<1>6. CASE Crash \/ Mount \/ UNCHANGED vars
  BY <1>6 DEF Crash, Mount, Die, DieHaving, vars
<1> QED BY <1>1, <1>2, <1>3, <1>4, <1>5, <1>6 DEF Next

LEMMA StepKept ==
    ASSUME IInv, [Next]_vars
    PROVE  Kept /\ KeptFields
<1>1. Logged /\ Len(log) \in Nat /\ DOMAIN log = 1 .. Len(log)
  BY DEF IInv, TypeOK, Logged
<1>2. CASE UNCHANGED log
  BY <1>1, <1>2 DEF Kept, KeptFields
<1>3. ASSUME NEW e, log' = Append(log, e) PROVE Kept /\ KeptFields
  BY <1>1, <1>3 DEF Kept, KeptFields, Logged
<1>4. ASSUME NEW k \in 1 .. Len(log), log' = [log EXCEPT ![k].deleted = TRUE] PROVE Kept /\ KeptFields
  <2>1. /\ Len(log') = Len(log) /\ DOMAIN log' = DOMAIN log
        /\ log'[k].deleted
        /\ [log'[k] EXCEPT !.deleted = FALSE] = [log[k] EXCEPT !.deleted = FALSE]
        /\ \A j \in 1 .. Len(log) : j # k => log'[j] = log[j]
        /\ \A j \in 1 .. Len(log) :
             /\ log'[j].ino = log[j].ino /\ log'[j].kind = log[j].kind /\ log'[j].dents = log[j].dents
    BY <1>1, <1>4, MarkIs
  <2>2. KeptFields
    BY <2>1 DEF KeptFields
  <2>3. Kept
    BY <1>1, <2>1, Zenon DEF Kept
  <2> QED BY <2>2, <2>3
<1> QED BY <1>2, <1>3, <1>4, LogSteps

(* What was written is kept: every entry below the head stays as it is, but *)
(* that a file's may be marked deleted, once and for all.                   *)
THEOREM HistoryIsKept == Spec => HistoryKept
<1>1. IInv /\ [Next]_vars => [Kept]_vars
  BY StepKept
<1>2. HistoryKept <=> [][Kept]_vars
  BY DEF HistoryKept, Kept
<1> QED BY <1>1, <1>2, Invariance, PTL DEF Spec

(* The directory of an entry is found in the next state, with the dentries *)
(* it had, and perhaps more.                                               *)
LEMMA DirectoryKept ==
    ASSUME IInv, IInv', KeptFields, NEW k \in 1 .. Len(log), log[k].kind = "dir"
    PROVE  \E j \in 1 .. Len(log') :
             /\ get_log_entry'[log[k].ino] = j
             /\ log'[j].ino = log[k].ino /\ log'[j].kind = "dir"
             /\ Extends(log[k].dents, log'[j].dents)
<1> DEFINE ino == log[k].ino
           j == get_log_entry'[ino]
<1>1. Logged /\ Logged' /\ Removable' /\ Versions'
  BY DEF IInv, TypeOK, Logged
<1>2. k \in 1 .. Len(log') /\ log'[k].ino = ino /\ log'[k].kind = "dir" /\ log'[k].dents = log[k].dents
  BY DEF KeptFields
<1>3. ino \in Int /\ ~log'[k].deleted
  BY <1>1, <1>2, LogFields DEF Fields, Removable
<1>4. LastFound'
  BY <1>1, EntryIs, PTL
<1>5. j \in 0 .. Len(log') /\ (j # 0 => log'[j].ino = ino /\ ~log'[j].deleted) /\ k <= j
  BY <1>2, <1>3, <1>4 DEF LastFound, Found
<1>6. j \in 1 .. Len(log') /\ log'[j].ino = ino /\ ~log'[j].deleted
  <2>1. j # 0
    BY <1>2, <1>5
  <2> HIDE DEF j
  <2> QED BY <1>1, <1>5, <2>1 DEF Logged
<1>7. log'[j].kind = "dir" /\ Extends(log[k].dents, log'[j].dents)
  <2> HIDE DEF j, ino
  <2> QED BY <1>1, <1>2, <1>3, <1>5, <1>6 DEF Versions
<1> QED BY <1>6, <1>7

(* A name keeps its number. *)
LEMMA NumberKept ==
    ASSUME Logged, Logged', NEW name \in Names, NEW k \in 1 .. Len(log), NEW j \in 1 .. Len(log'),
           Extends(log[k].dents, log'[j].dents), get_inode_number(name, k) # -1
    PROVE  get_inode_number(name, j)' = get_inode_number(name, k)
<1>1. FirstFound'
  BY NumberIs, PTL
<1>2. PICK a \in 1 .. Len(log[k].dents) :
        /\ log[k].dents[a].name = name /\ get_inode_number(name, k) = log[k].dents[a].ino
        /\ \A b \in 1 .. a - 1 : log[k].dents[b].name # name
  BY NumberIs DEF FirstFound
<1> DEFINE d == log[k].dents
           e == log'[j].dents
<1>3. d \in Seq([name : Names, ino : Nat])
  BY LogFields DEF Fields
<1>4. e \in Seq([name : Names, ino : Nat])
  <2>1. Fields'
    BY LogFields, PTL
  <2> QED BY <2>1 DEF Fields
<1>5. Len(d) \in Nat /\ Len(e) \in Nat
  BY <1>3, <1>4
<1>6. /\ Len(d) <= Len(e) /\ \A n \in 1 .. Len(d) : e[n] = d[n]
  BY DEF Extends
<1>7. \/ get_inode_number(name, j)' = -1 /\ \A c \in 1 .. Len(e) : e[c].name # name
      \/ \E c \in 1 .. Len(e) :
           /\ e[c].name = name /\ get_inode_number(name, j)' = e[c].ino
           /\ \A b \in 1 .. c - 1 : e[b].name # name
  BY <1>1, SMTT(30) DEF FirstFound
<1> HIDE DEF d, e
<1>8. a \in 1 .. Len(d) /\ d[a].name = name /\ get_inode_number(name, k) = d[a].ino
      /\ \A b \in 1 .. a - 1 : d[b].name # name
  BY <1>2 DEF d
<1>9. a \in 1 .. Len(e) /\ e[a] = d[a] /\ \A b \in 1 .. a - 1 : e[b] = d[b]
  BY <1>5, <1>6, <1>8
<1>10. PICK c \in 1 .. Len(e) :
           /\ e[c].name = name /\ get_inode_number(name, j)' = e[c].ino
           /\ \A b \in 1 .. c - 1 : e[b].name # name
  BY <1>7, <1>8, <1>9
<1>11. c = a
  <2>1. ~(c < a)
    <3>1. c < a => c \in 1 .. a - 1
      BY <1>5
    <3> QED BY <1>8, <1>9, <1>10, <3>1
  <2>2. ~(a < c)
    <3>1. a < c => a \in 1 .. c - 1
      BY <1>5
    <3> QED BY <1>8, <1>9, <1>10, <3>1
  <2> QED BY <1>5, <2>1, <2>2
<1> QED BY <1>8, <1>9, <1>10, <1>11

LEMMA StepDirectories ==
    ASSUME IInv, IInv', KeptFields, NEW p \in Paths, Is("dir", path_to_log_entry(p))
    PROVE  Is("dir", path_to_log_entry(p))'
<1> DEFINE P(q) == path_to_log_entry(q)
           stays(q) == P(q) # 0 /\ log[P(q)].kind = "dir" =>
                           /\ P(q)' \in 1 .. Len(log') /\ log'[P(q)'].kind = "dir"
                           /\ log'[P(q)'].ino = log[P(q)].ino
                           /\ Extends(log[P(q)].dents, log'[P(q)'].dents)
           S == { q \in Paths : stays(q) }
<1>1. Logged /\ Logged'
  BY DEF IInv, TypeOK, Logged
<1>2. StepByStep /\ StepByStep' /\ LastFound /\ PathsFound
  BY <1>1, PathStep, EntryIs, PathFound, PTL
<1>3. <<>> \in S
  <2>1. P(<<>>) = get_log_entry[0] /\ P(<<>>)' = get_log_entry'[0]
    BY <1>2 DEF StepByStep
  <2>2. SUFFICES ASSUME P(<<>>) # 0, log[P(<<>>)].kind = "dir"
                 PROVE  /\ P(<<>>)' \in 1 .. Len(log') /\ log'[P(<<>>)'].kind = "dir"
                        /\ log'[P(<<>>)'].ino = log[P(<<>>)].ino
                        /\ Extends(log[P(<<>>)].dents, log'[P(<<>>)'].dents)
    BY PathParts
  <2>3. P(<<>>) \in 1 .. Len(log) /\ log[P(<<>>)].ino = 0
    BY <1>1, <1>2, <2>1, <2>2 DEF LastFound, Found, Logged
  <2> QED BY <2>1, <2>2, <2>3, DirectoryKept
<1>4. ASSUME NEW q \in Paths \ {<<>>}, Front(q) \in S PROVE q \in S
  <2> DEFINE k == P(q)
             f == P(Front(q))
             g == P(Front(q))'
             n == get_inode_number(Last(q), f)
  <2> SUFFICES ASSUME k # 0, log[k].kind = "dir"
               PROVE  /\ P(q)' \in 1 .. Len(log') /\ log'[P(q)'].kind = "dir"
                      /\ log'[P(q)'].ino = log[k].ino
                      /\ Extends(log[k].dents, log'[P(q)'].dents)
    OBVIOUS
  <2>1. Front(q) \in Paths /\ Last(q) \in Names
    BY PathParts
  <2>2. k = get_log_entry[n] /\ P(q)' = get_log_entry'[get_inode_number(Last(q), P(Front(q)))']
    BY <1>2 DEF StepByStep
  <2>3. f \in 0 .. Len(log) /\ k \in 1 .. Len(log)
    BY <1>1, <1>2, <2>1 DEF PathsFound, Logged
  <2>4. n \in Int /\ k = get_log_entry[n]
    BY <1>1, <2>1, <2>2, <2>3, NumberType DEF NumbersTyped
  <2>5. log[k].ino = n
    BY <1>2, <2>4 DEF LastFound, Found
  <2>6. log[k].ino \in Nat
    BY <1>1, <2>3, LogFields DEF Fields
  <2>7. n # -1
    BY <2>5, <2>6
  <2>8. f \in 1 .. Len(log) /\ log[f].dents # <<>>
    <3>1. f # 0 /\ \E a \in 1 .. Len(log[f].dents) : TRUE
      BY <1>1, <2>1, <2>3, <2>7, NumberIs DEF FirstFound
    <3> QED BY <1>1, <2>3, <3>1 DEF Logged
  <2>9. log[f].kind = "dir"
    BY <1>1, <2>8, LogFields, EntryFields DEF IInv, Removable, Fields
  <2>10. g \in 1 .. Len(log') /\ Extends(log[f].dents, log'[g].dents)
    BY <1>4, <2>8, <2>9
  <2>11. get_inode_number(Last(q), P(Front(q)))' = n
    BY <1>1, <2>1, <2>7, <2>8, <2>10, NumberKept
  <2>12. P(q)' = get_log_entry'[log[k].ino]
    BY <2>2, <2>5, <2>11
  <2> QED BY <2>3, <2>12, DirectoryKept
<1>5. p \in S
  <2> HIDE DEF S
  <2> QED BY <1>3, <1>4, PathInduction
<1> QED BY <1>1, <1>5 DEF Is, Logged

(* A directory stays where it was made: whatever is removed, written or    *)
(* created, and wherever the program dies, the path that led to it leads   *)
(* to a directory.                                                         *)
THEOREM DirectoriesAlwaysStay == Spec => DirectoriesStay
<1> DEFINE Stay == \A p \in Paths : Is("dir", path_to_log_entry(p)) => (Is("dir", path_to_log_entry(p)))'
<1>1. IInv /\ IInv' /\ [Next]_vars => [Stay]_vars
  BY StepKept, StepDirectories
<1>2. DirectoriesStay <=> [][Stay]_vars
  BY DEF DirectoriesStay
<1> QED BY <1>1, <1>2, Invariance, PTL DEF Spec

-----------------------------------------------------------------------------
(* While nothing is removed and no signal kills the program. *)

Calm == Workload \cap {"unlink", "crash"} = {}

Whole == \A k \in 1 .. Len(log) : ~log[k].deleted

(* A creation is between its two appends, or was when the disk was full.   *)
Pending == proc = "creating" \/ head = DiskSize

(* The dentries whose number is what my_mknod stored.                      *)
Short(k, a) == log[k].dents[a].name \notin LongNames

(* A dentry names an inode that is there, or the one that is created.      *)
Resolved ==
    /\ \A k \in 1 .. Len(log) : \A a \in 1 .. Len(log[k].dents) : Short(k, a) =>
         /\ log[k].dents[a].ino > 0
         /\ \/ get_log_entry[log[k].dents[a].ino] # 0
            \/ log[k].dents[a].ino = Max_InodeNum + 1 /\ Pending
    /\ proc = "creating" => creating.ino = Max_InodeNum + 1

(* A number is in one place of one directory.                              *)
OneParent ==
    \A j, k \in 1 .. Len(log) :
        \A a \in 1 .. Len(log[j].dents), b \in 1 .. Len(log[k].dents) :
            Short(j, a) /\ Short(k, b) /\ log[j].dents[a].ino = log[k].dents[b].ino => log[j].ino = log[k].ino /\ a = b

TreeInv == IInv /\ Whole /\ Resolved /\ OneParent

(* What an append changes in what is found. *)
LEMMA AppendFinds ==
    ASSUME Logged, NEW e \in Entries, ~e.deleted, log' = Append(log, e)
    PROVE  /\ \A n \in Int : n # e.ino => get_log_entry'[n] = get_log_entry[n]
           /\ get_log_entry'[e.ino] = Len(log) + 1
           /\ Max_InodeNum' = IF e.ino <= Max_InodeNum THEN Max_InodeNum ELSE e.ino
<1> DEFINE N == Len(log)
<1>1. /\ Logged' /\ N \in Nat /\ Len(log') = N + 1 /\ log'[N + 1] = e
      /\ \A k \in 1 .. N : log'[k] = log[k]
      /\ \A k \in 1 .. N + 1 : k \in 1 .. N \/ k = N + 1
  BY DEF Logged
<1>2. e.ino \in Nat
  BY EntryFields
<1>3. LastFound /\ LastFound' /\ LargestFound /\ LargestFound'
  BY <1>1, EntryIs, MaxIs, PTL
<1> HIDE DEF N
<1>4. ASSUME NEW n \in Int, n # e.ino PROVE get_log_entry'[n] = get_log_entry[n]
  <2> DEFINE g == get_log_entry[n]
             h == get_log_entry'[n]
  <2>1. /\ g \in 0 .. N /\ (g # 0 => log[g].ino = n /\ ~log[g].deleted)
        /\ \A j \in 1 .. N : log[j].ino = n /\ ~log[j].deleted => j <= g
    BY <1>3 DEF LastFound, Found, N
  <2>2. /\ h \in 0 .. N + 1 /\ (h # 0 => log'[h].ino = n /\ ~log'[h].deleted)
        /\ \A j \in 1 .. N + 1 : log'[j].ino = n /\ ~log'[j].deleted => j <= h
    BY <1>1, <1>3 DEF LastFound, Found
  <2> HIDE DEF g, h
  <2>3. h # N + 1
    BY <1>1, <1>4, <2>2
  <2>4. h # 0 => h \in 1 .. N /\ h <= g
    BY <1>1, <2>1, <2>2, <2>3
  <2>5. g # 0 => g \in 1 .. N /\ g <= h
    BY <1>1, <2>1, <2>2
  <2>6. g = h
    BY <1>1, <2>1, <2>2, <2>4, <2>5
  <2> QED BY <2>6 DEF g, h
<1>5. get_log_entry'[e.ino] = N + 1
  <2> DEFINE h == get_log_entry'[e.ino]
  <2>1. h \in 0 .. N + 1 /\ N + 1 <= h
    BY <1>1, <1>2, <1>3 DEF LastFound, Found
  <2> HIDE DEF h
  <2>2. h = N + 1
    BY <1>1, <2>1
  <2> QED BY <2>2 DEF h
<1>6. Max_InodeNum' = IF e.ino <= Max_InodeNum THEN Max_InodeNum ELSE e.ino
  <2> DEFINE m == Max_InodeNum
             x == Max_InodeNum'
  <2>1. /\ m \in Nat /\ \A k \in 1 .. N : ~log[k].deleted => log[k].ino <= m
        /\ m = 0 \/ \E k \in 1 .. N : ~log[k].deleted /\ log[k].ino = m
    BY <1>3 DEF LargestFound, N
  <2>2. /\ x \in Nat /\ \A k \in 1 .. N + 1 : ~log'[k].deleted => log'[k].ino <= x
        /\ x = 0 \/ \E k \in 1 .. N + 1 : ~log'[k].deleted /\ log'[k].ino = x
    BY <1>1, <1>3 DEF LargestFound
  <2> HIDE DEF m, x
  <2>3. e.ino <= x /\ m <= x
    BY <1>1, <2>1, <2>2
  <2>4. x <= m \/ x = e.ino
    BY <1>1, <2>1, <2>2
  <2>5. x = IF e.ino <= m THEN m ELSE e.ino
    BY <1>2, <2>1, <2>2, <2>3, <2>4
  <2> QED BY <2>5 DEF m, x
<1> QED BY <1>4, <1>5, <1>6 DEF N

Numbered ==
    /\ \A n \in Int : get_log_entry[n] # 0 => n <= Max_InodeNum
    /\ \A k \in 1 .. Len(log) :
         /\ log[k].ino <= Max_InodeNum
         /\ \A a \in 1 .. Len(log[k].dents) :
              log[k].dents[a].ino \in Nat /\ log[k].dents[a].name \in Names

LEMMA NumbersAre == Logged /\ Whole => Numbered
<1> SUFFICES ASSUME Logged, Whole PROVE Numbered
  OBVIOUS
<1>1. ASSUME NEW n \in Int, get_log_entry[n] # 0 PROVE n <= Max_InodeNum
  <2> DEFINE k == get_log_entry[n]
  <2>1. k \in 0 .. Len(log) /\ log[k].ino = n /\ ~log[k].deleted
    BY <1>1, EntryIs DEF LastFound, Found
  <2> HIDE DEF k
  <2>2. k \in 1 .. Len(log)
    BY <1>1, <2>1 DEF k, Logged
  <2> QED BY <2>1, <2>2, MaxIs DEF LargestFound
<1>2. ASSUME NEW k \in 1 .. Len(log) PROVE log[k].ino <= Max_InodeNum
  BY MaxIs DEF LargestFound, Whole
<1>3. ASSUME NEW k \in 1 .. Len(log), NEW a \in 1 .. Len(log[k].dents)
      PROVE  log[k].dents[a].ino \in Nat /\ log[k].dents[a].name \in Names
  <2> DEFINE d == log[k].dents  D == [name : Names, ino : Nat]
  <2>1. d \in Seq(D) /\ a \in 1 .. Len(d)
    BY LogFields DEF Fields
  <2>2. d[a] \in D
    <3> HIDE DEF d, D
    <3> QED BY <2>1
  <2> QED BY <2>2
<1> QED BY <1>1, <1>2, <1>3 DEF Numbered

(* Where an append fits, no creation was left half done. *)
LEMMA NothingPending ==
    ASSUME TreeInv, proc # "creating", NEW e \in Entries, head + Size(e) <= DiskSize
    PROVE  \A k \in 1 .. Len(log) : \A a \in 1 .. Len(log[k].dents) : Short(k, a) =>
               /\ get_log_entry[log[k].dents[a].ino] # 0
               /\ log[k].dents[a].ino \in Nat /\ log[k].dents[a].ino <= Max_InodeNum
<1>1. Logged /\ head \in Nat /\ DiskSize \in Nat /\ Size(e) \in Nat \ {0}
  BY HeadType, SizeIs, WfsLogAssumption DEF TreeInv, IInv, TypeOK, Logged
<1>2. head # DiskSize
  BY <1>1
<1>3. \A k \in 1 .. Len(log) : \A a \in 1 .. Len(log[k].dents) : Short(k, a) =>
          get_log_entry[log[k].dents[a].ino] # 0
  BY <1>2 DEF TreeInv, Resolved, Pending
<1>4. \A k \in 1 .. Len(log) : \A a \in 1 .. Len(log[k].dents) : log[k].dents[a].ino \in Nat
  BY <1>1, NumbersAre DEF Numbered, TreeInv
<1>5. \A n \in Nat : get_log_entry[n] # 0 => n <= Max_InodeNum
  BY <1>1, NumbersAre DEF Numbered, TreeInv
<1> QED BY <1>3, <1>4, <1>5

LEMMA SameTree ==
    ASSUME TreeInv, UNCHANGED log, Pending => Pending', proc' # "creating"
    PROVE  Whole' /\ OneParent' /\ Resolved'
<1>1. get_log_entry' = get_log_entry
  BY DEF get_log_entry
<1>2. Max_InodeNum' = Max_InodeNum
  BY DEF Max_InodeNum
<1>3. Whole' /\ OneParent'
  BY DEF TreeInv, Whole, OneParent, Short
<1> QED BY <1>1, <1>2, <1>3 DEF TreeInv, Resolved, Short

LEMMA DeathTree ==
    ASSUME TreeInv, proc = "running", NEW e \in Entries, DieAppending(e)
    PROVE  Whole' /\ OneParent' /\ Resolved'
<1>1. Died
  BY DeathIs DEF TreeInv
<1>2. head' = head
  BY <1>1, SameHead DEF Died
<1> QED BY <1>1, <1>2, SameTree DEF Died, Pending

LEMMA AppendIs ==
    ASSUME Logged, NEW e \in Entries, log' = Append(log, e)
    PROVE  /\ Logged' /\ Len(log) \in Nat /\ Len(log') = Len(log) + 1 /\ log'[Len(log) + 1] = e
           /\ Len(log) + 1 # 0
           /\ \A k \in 1 .. Len(log) : k \in 1 .. Len(log') /\ log'[k] = log[k]
           /\ \A k \in 1 .. Len(log') : k = Len(log) + 1 \/ (k \in 1 .. Len(log) /\ log'[k] = log[k])
BY DEF Logged

(* An entry without dentries. *)
LEMMA LeafTree ==
    ASSUME TreeInv, NEW e \in Entries, ~e.deleted, e.dents = <<>>, log' = Append(log, e)
    PROVE  Whole' /\ OneParent'
<1>1. /\ Len(log) \in Nat /\ Len(log') = Len(log) + 1 /\ log'[Len(log) + 1] = e
      /\ \A k \in 1 .. Len(log) : log'[k] = log[k]
      /\ \A k \in 1 .. Len(log) + 1 : k \in 1 .. Len(log) \/ k = Len(log) + 1
  BY DEF TreeInv, IInv, TypeOK
<1>2. Whole'
  BY <1>1 DEF TreeInv, Whole
<1>3. \A k \in 1 .. Len(log') : \A a \in 1 .. Len(log'[k].dents) : k \in 1 .. Len(log)
  BY <1>1
<1>4. OneParent'
  BY <1>1, <1>3 DEF TreeInv, OneParent, Short
<1> QED BY <1>2, <1>4

LEMMA WriteTree ==
    ASSUME TreeInv, NEW path \in Paths, NEW off \in Offsets, NEW b \in Blocks, my_write(path, off, b)
    PROVE  Whole' /\ OneParent' /\ Resolved'
<1> DEFINE k == path_to_log_entry(path)
           e == [log[k] EXCEPT !.data = Written(@, off, b)]
<1>1. /\ proc = "running" /\ Is("file", k)
      /\ \/ Fits(e) /\ AppendEntry(e) /\ Return("OK") /\ UNCHANGED creating
         \/ DieAppending(e)
  BY DEF my_write
<1>2. Logged /\ Whole
  BY DEF TreeInv, IInv, TypeOK, Logged
<1>3. Rewritten(k, e, off, b)
  BY <1>1, FileIs DEF TreeInv
<1> HIDE DEF k, e
<1>0. AppendEntry(e) => log' = Append(log, e)
  BY DEF AppendEntry
<1>4. CASE Fits(e) /\ AppendEntry(e) /\ Return("OK") /\ UNCHANGED creating
  <2>1. Whole' /\ OneParent'
    BY <1>0, <1>3, <1>4, LeafTree DEF Rewritten
  <2>2. /\ \A j \in 1 .. Len(log') : \A a \in 1 .. Len(log'[j].dents) :
             /\ j \in 1 .. Len(log) /\ log'[j] = log[j]
      /\ Len(log) + 1 # 0
    <3>1. \A j \in 1 .. Len(log') : log'[j] = e \/ (j \in 1 .. Len(log) /\ log'[j] = log[j])
      BY <1>0, <1>2, <1>3, <1>4, AppendIs DEF Rewritten
    <3>2. \A a \in 1 .. Len(e.dents) : FALSE
      BY <1>3 DEF Rewritten
    <3>3. Len(log) + 1 # 0
      BY <1>2 DEF Logged
    <3> QED BY <3>1, <3>2, <3>3
  <2>3. \A j \in 1 .. Len(log) : \A a \in 1 .. Len(log[j].dents) : Short(j, a) =>
             get_log_entry[log[j].dents[a].ino] # 0 /\ log[j].dents[a].ino \in Nat
    BY <1>1, <1>3, <1>4, NothingPending DEF Rewritten, Fits
  <2>4. \A n \in Nat : get_log_entry[n] # 0 => get_log_entry'[n] # 0
    BY <1>0, <1>2, <1>3, <1>4, <2>2, AppendFinds DEF Rewritten
  <2>5. proc' # "creating"
    BY <1>4 DEF Return
  <2>6. \A j \in 1 .. Len(log) : \A a \in 1 .. Len(log[j].dents) :
             Short(j, a) => log[j].dents[a].ino > 0
    BY DEF TreeInv, Resolved
  <2>7. Resolved'
    BY <2>2, <2>3, <2>4, <2>5, <2>6 DEF Resolved, Short
  <2> QED BY <2>1, <2>7
<1>5. CASE DieAppending(e)
  BY <1>1, <1>3, <1>5, DeathTree DEF Rewritten
<1> QED BY <1>1, <1>4, <1>5

LEMMA AppendInodeTree ==
    ASSUME Calm, TreeInv, AppendInode
    PROVE  Whole' /\ OneParent' /\ Resolved'
<1>1. /\ Logged /\ Whole /\ creating \in Entries /\ creating.ino \in Nat /\ Max_InodeNum \in Nat
      /\ creating.ino = Max_InodeNum + 1
  BY EntryFields, MaxIs DEF TreeInv, IInv, TypeOK, Logged, LargestFound, Resolved, AppendInode
<1>2. ~creating.deleted /\ creating.dents = <<>> /\ Size(creating) = 1
  <2>1. creating.kind \in {"dir", "file"}
    BY <1>1, EntryFields
  <2> QED BY <1>1, <2>1, NewInodeIs DEF TreeInv, IInv, NewNumber
<1>3. CASE Fits(creating) /\ AppendEntry(creating) /\ Return("OK") /\ UNCHANGED creating
  <2>0. log' = Append(log, creating)
    BY <1>3 DEF AppendEntry
  <2>1. Whole' /\ OneParent'
    BY <1>1, <1>2, <2>0, LeafTree
  <2>2. /\ \A j \in 1 .. Len(log') : \A a \in 1 .. Len(log'[j].dents) :
             /\ j \in 1 .. Len(log) /\ log'[j] = log[j]
      /\ Len(log) + 1 # 0
    <3>1. \A j \in 1 .. Len(log') : log'[j] = creating \/ (j \in 1 .. Len(log) /\ log'[j] = log[j])
      <4> DEFINE e == creating
      <4>1. log' = Append(log, e) /\ e \in Entries
        BY <1>1, <2>0
      <4> HIDE DEF e
      <4>2. \A j \in 1 .. Len(log') : log'[j] = e \/ (j \in 1 .. Len(log) /\ log'[j] = log[j])
        BY <1>1, <4>1, AppendIs
      <4> QED BY <4>2 DEF e
    <3>2. \A a \in 1 .. Len(creating.dents) : FALSE
      BY <1>2
    <3>3. Len(log) + 1 # 0
      BY <1>1 DEF Logged
    <3> QED BY <3>1, <3>2, <3>3
  <2>3. \A j \in 1 .. Len(log) : \A a \in 1 .. Len(log[j].dents) : Short(j, a) =>
             /\ log[j].dents[a].ino > 0 /\ log[j].dents[a].ino \in Nat
             /\ get_log_entry[log[j].dents[a].ino] # 0 \/ log[j].dents[a].ino = creating.ino
    BY <1>1, NumbersAre DEF Numbered, TreeInv, Resolved
  <2>4. /\ \A n \in Nat : get_log_entry[n] # 0 => get_log_entry'[n] # 0
        /\ get_log_entry'[creating.ino] # 0
    BY <1>1, <1>2, <2>0, <2>2, AppendFinds
  <2>5. proc' # "creating"
    BY <1>3 DEF Return
  <2>6. Resolved'
    <3> SUFFICES ASSUME NEW j \in 1 .. Len(log'), NEW a \in 1 .. Len(log'[j].dents), Short(j, a)'
                 PROVE  log'[j].dents[a].ino > 0 /\ get_log_entry'[log'[j].dents[a].ino] # 0
      BY <2>5 DEF Resolved
    <3>1. PICK n \in Nat : n = log'[j].dents[a].ino /\ n > 0
                           /\ (get_log_entry[n] # 0 \/ n = creating.ino)
      BY <2>2, <2>3 DEF Short
    <3> QED BY <2>4, <3>1
  <2> QED BY <2>1, <2>6
<1>4. CASE DieAppending(creating)
  <2>1. Died /\ UNCHANGED log
    BY <1>1, <1>4, DeathIs DEF TreeInv, Died
  <2>2. ~Fits(creating)
    BY <1>4 DEF DieAppending, Calm
  <2>3. head = DiskSize
    BY <1>1, <1>2, <2>2, HeadType, WfsLogAssumption DEF Fits, TreeInv, IInv, TypeOK
  <2>4. Pending' /\ proc' = "dead"
    BY <2>1, <2>3, SameHead DEF Pending, Died
  <2> QED BY <2>1, <2>4, SameTree
<1> QED BY <1>3, <1>4 DEF AppendInode

LEMMA CreateTree ==
    ASSUME TreeInv, NEW path \in Paths \ {<<>>}, NEW kind \in {"dir", "file"}, Create(path, kind)
    PROVE  Whole' /\ OneParent' /\ Resolved'
<1> DEFINE k == path_to_log_entry(Front(path))
           n == Max_InodeNum + 1
           e == WithDentry(k, Last(path), n)
           N == Len(log)
<1>1. /\ proc = "running" /\ Is("dir", k)
      /\ \/ Return("EEXIST") /\ UNCHANGED <<log, stale, creating>>
         \/ /\ Fits(e) /\ AppendEntry(e)
            /\ creating' = NewInode(n, kind)
            /\ proc' = "creating" /\ UNCHANGED <<ret, fault>>
         \/ DieAppending(e)
  BY DEF Create
<1>2. Logged /\ Whole /\ Numbered
  BY NumbersAre DEF TreeInv, IInv, TypeOK, Logged
<1>3. Max_InodeNum \in Nat /\ n \in Nat
  BY <1>2, MaxIs DEF LargestFound
<1>4. Copied(k, e, Last(path), n)
  BY <1>1, <1>3, ParentIs DEF TreeInv
<1>0. AppendEntry(e) => log' = Append(log, e)
  BY DEF AppendEntry
<1>5. CASE /\ Fits(e) /\ AppendEntry(e)
           /\ creating' = NewInode(n, kind)
           /\ proc' = "creating" /\ UNCHANGED <<ret, fault>>
  <2> DEFINE d == log[k].dents
  <2> HIDE DEF k, e
  <2>1. /\ Logged' /\ N \in Nat /\ Len(log') = N + 1 /\ log'[N + 1] = e /\ N + 1 # 0
        /\ \A j \in 1 .. N : j \in 1 .. Len(log') /\ log'[j] = log[j]
        /\ \A j \in 1 .. Len(log') : j = N + 1 \/ (j \in 1 .. N /\ log'[j] = log[j])
    BY <1>0, <1>2, <1>4, <1>5, AppendIs DEF Copied
  <2> HIDE DEF N
  <2>2. /\ Len(d) \in Nat /\ Len(e.dents) = Len(d) + 1
        /\ \A a \in 1 .. Len(d) : e.dents[a] = d[a]
        /\ e.dents[Len(d) + 1].name \notin LongNames => e.dents[Len(d) + 1].ino = n
        /\ \A a \in 1 .. Len(e.dents) : a \in 1 .. Len(d) \/ a = Len(d) + 1
    <3> DEFINE D == [name : Names, ino : Nat]
               x == [name |-> Last(path), ino |-> Stored(Last(path), n)]
    <3>1. /\ d \in Seq(D) /\ e.dents = Append(d, x) /\ x \in D
          /\ x.name \notin LongNames => x.ino = n
      <4>1. d \in Seq(D) /\ e.dents = Append(d, x)
        BY <1>2, <1>4, LogFields DEF Copied, Fields
      <4> QED BY <1>3, <4>1, PathParts, StoredIs
    <3> HIDE DEF d, D, x
    <3> QED BY <3>1
  <2>3. k \in 1 .. N /\ e.ino = log[k].ino /\ e \in Entries /\ ~e.deleted
    BY <1>4 DEF Copied, N
  <2>4. \A j \in 1 .. N : \A a \in 1 .. Len(log[j].dents) : Short(j, a) =>
           /\ get_log_entry[log[j].dents[a].ino] # 0
           /\ log[j].dents[a].ino \in Nat /\ log[j].dents[a].ino <= Max_InodeNum
           /\ log[j].dents[a].ino > 0
    <3>1. \A j \in 1 .. N : \A a \in 1 .. Len(log[j].dents) : Short(j, a) =>
             /\ get_log_entry[log[j].dents[a].ino] # 0
             /\ log[j].dents[a].ino \in Nat /\ log[j].dents[a].ino <= Max_InodeNum
      BY <1>1, <1>5, <2>3, NothingPending DEF Fits, N
    <3>2. \A j \in 1 .. N : \A a \in 1 .. Len(log[j].dents) :
             Short(j, a) => log[j].dents[a].ino > 0
      BY DEF TreeInv, Resolved, N
    <3> QED BY <3>1, <3>2
  <2> DEFINE old(j, a) == \E i \in 1 .. N : /\ a \in 1 .. Len(log[i].dents)
                                           /\ log'[j].dents[a] = log[i].dents[a]
                                           /\ log'[j].ino = log[i].ino
             new(j, a) == /\ j = N + 1 /\ a = Len(d) + 1
                          /\ log'[j].dents[a].name \notin LongNames => log'[j].dents[a].ino = n
  <2>5. \A j \in 1 .. Len(log') : \A a \in 1 .. Len(log'[j].dents) : old(j, a) \/ new(j, a)
    <3>1. ASSUME NEW j \in 1 .. Len(log'), NEW a \in 1 .. Len(log'[j].dents), j # N + 1
          PROVE  old(j, a)
      BY <2>1, <3>1
    <3>2. ASSUME NEW j \in 1 .. Len(log'), NEW a \in 1 .. Len(log'[j].dents), j = N + 1
          PROVE  old(j, a) \/ new(j, a)
      BY <2>1, <2>2, <2>3, <3>2
    <3> QED BY <3>1, <3>2
  <2>6. Whole'
    BY <1>2, <2>1, <2>3 DEF Whole, N
  <2>7. OneParent'
    <3>1. \A i, j \in 1 .. N :
            \A a \in 1 .. Len(log[i].dents), b \in 1 .. Len(log[j].dents) :
              Short(i, a) /\ Short(j, b) /\ log[i].dents[a].ino = log[j].dents[b].ino =>
                  log[i].ino = log[j].ino /\ a = b
      BY DEF TreeInv, OneParent, N
    <3> SUFFICES ASSUME NEW i \in 1 .. Len(log'), NEW j \in 1 .. Len(log'),
                        NEW a \in 1 .. Len(log'[i].dents), NEW b \in 1 .. Len(log'[j].dents),
                        Short(i, a)', Short(j, b)',
                        log'[i].dents[a].ino = log'[j].dents[b].ino
                 PROVE  log'[i].ino = log'[j].ino /\ a = b
      BY DEF OneParent
    <3>2. ASSUME NEW h \in 1 .. Len(log'), NEW c \in 1 .. Len(log'[h].dents), old(h, c), Short(h, c)'
          PROVE  log'[h].dents[c].ino # n
      <4>1. PICK g \in 1 .. N : c \in 1 .. Len(log[g].dents) /\ log'[h].dents[c] = log[g].dents[c]
        BY <3>2
      <4>2. log[g].dents[c].ino \in Nat /\ log[g].dents[c].ino <= Max_InodeNum
        BY <2>4, <3>2, <4>1 DEF Short
      <4>3. log[g].dents[c].ino # n
        BY <1>3, <4>2, SMTT(30)
      <4> QED BY <4>1, <4>3
    <3>3. CASE old(i, a) /\ old(j, b)
      <4>1. PICK g \in 1 .. N : /\ a \in 1 .. Len(log[g].dents)
                               /\ log'[i].dents[a] = log[g].dents[a] /\ log'[i].ino = log[g].ino
        BY <3>3
      <4>2. PICK h \in 1 .. N : /\ b \in 1 .. Len(log[h].dents)
                               /\ log'[j].dents[b] = log[h].dents[b] /\ log'[j].ino = log[h].ino
        BY <3>3
      <4>3. log[g].dents[a].ino = log[h].dents[b].ino
        BY <4>1, <4>2
      <4>4. Short(g, a) /\ Short(h, b)
        BY <4>1, <4>2 DEF Short
      <4> QED BY <3>1, <4>1, <4>2, <4>3, <4>4
    <3>4. CASE new(i, a) /\ new(j, b)
      BY <3>4
    <3>5. CASE old(i, a) /\ new(j, b)
      BY <3>2, <3>5 DEF Short
    <3>6. CASE new(i, a) /\ old(j, b)
      BY <3>2, <3>6 DEF Short
    <3> QED BY <2>5, <3>3, <3>4, <3>5, <3>6
  <2>8. Resolved'
    <3>1. Max_InodeNum' = Max_InodeNum
      BY <1>0, <1>2, <1>3, <1>5, <2>3, AppendFinds, EntryFields DEF Numbered, N
    <3>2. \A m \in Nat : get_log_entry[m] # 0 => get_log_entry'[m] # 0
      BY <1>0, <1>2, <1>5, <2>1, <2>3, AppendFinds DEF N
    <3>3. creating'.ino = n
      BY <1>3, <1>5, NewInodeIs
    <3>4. \A j \in 1 .. Len(log') : \A a \in 1 .. Len(log'[j].dents) : Short(j, a)' =>
            /\ log'[j].dents[a].ino > 0
            /\ get_log_entry'[log'[j].dents[a].ino] # 0 \/ log'[j].dents[a].ino = n
      <4> SUFFICES ASSUME NEW j \in 1 .. Len(log'), NEW a \in 1 .. Len(log'[j].dents), Short(j, a)'
                   PROVE  /\ log'[j].dents[a].ino > 0
                          /\ get_log_entry'[log'[j].dents[a].ino] # 0 \/ log'[j].dents[a].ino = n
        OBVIOUS
      <4>1. CASE new(j, a)
        BY <1>3, <4>1 DEF Short
      <4>2. CASE old(j, a)
        <5>1. PICK g \in 1 .. N : a \in 1 .. Len(log[g].dents) /\ log'[j].dents[a] = log[g].dents[a]
          BY <4>2
        <5>2. log[g].dents[a].ino > 0 /\ get_log_entry'[log[g].dents[a].ino] # 0
          BY <2>4, <3>2, <5>1 DEF Short
        <5> QED BY <5>1, <5>2
      <4> QED BY <2>5, <4>1, <4>2
    <3> QED BY <1>5, <3>1, <3>3, <3>4 DEF Resolved, Pending
  <2> QED BY <2>6, <2>7, <2>8
<1>6. CASE Return("EEXIST") /\ UNCHANGED <<log, stale, creating>>
  BY <1>1, <1>6, SameTree, SameHead DEF Return, Pending
<1>7. CASE DieAppending(e)
  <2> HIDE DEF e
  <2> QED BY <1>1, <1>4, <1>7, DeathTree DEF Copied
<1> QED BY <1>1, <1>5, <1>6, <1>7

LEMMA InitTree == Init => TreeInv
<1> SUFFICES ASSUME Init PROVE TreeInv
  OBVIOUS
<1> DEFINE r == NewInode(0, "dir")
<1>1. log = <<r>> /\ proc = "running" /\ r.dents = <<>> /\ ~r.deleted
  BY NewInodeIs DEF Init
<1> HIDE DEF r
<1>2. Whole
  BY <1>1 DEF Whole
<1>3. \A k \in 1 .. Len(log) : \A a \in 1 .. Len(log[k].dents) : FALSE
  BY <1>1
<1>4. OneParent /\ Resolved
  BY <1>1, <1>3 DEF OneParent, Resolved
<1> QED BY <1>2, <1>4, InitIInv DEF TreeInv

LEMMA StepTree == Calm /\ TreeInv /\ [Next]_vars => TreeInv'
<1> SUFFICES ASSUME Calm, TreeInv, [Next]_vars PROVE Whole' /\ OneParent' /\ Resolved'
  BY StepIInv DEF TreeInv
<1>1. ASSUME NEW path \in Paths \ {<<>>}, my_mknod(path) PROVE Whole' /\ OneParent' /\ Resolved'
  BY <1>1, CreateTree DEF my_mknod
<1>2. ASSUME NEW path \in Paths \ {<<>>}, my_mkdir(path) PROVE Whole' /\ OneParent' /\ Resolved'
  BY <1>2, CreateTree DEF my_mkdir
<1>3. ASSUME NEW path \in Paths \ {<<>>}, wfs_unlink(path) PROVE FALSE
  BY <1>3 DEF wfs_unlink, Calm
<1>4. ASSUME NEW path \in Paths \ {<<>>}, NEW off \in Offsets, NEW b \in Blocks, my_write(path, off, b)
      PROVE  Whole' /\ OneParent' /\ Resolved'
  BY <1>4, WriteTree
<1>5. CASE AppendInode
  BY <1>5, AppendInodeTree
<1>6. ASSUME NEW path \in Paths, my_readdir(path) PROVE Whole' /\ OneParent' /\ Resolved'
  BY <1>6, SameTree, SameHead DEF my_readdir, Return, Die, DieHaving, Pending
<1>7. CASE Mount
  BY <1>7, SameTree, SameHead DEF Mount, Pending
<1>8. CASE Crash
  BY <1>8 DEF Crash, Calm
<1>9. CASE UNCHANGED vars
  <2>1. get_log_entry' = get_log_entry /\ Max_InodeNum' = Max_InodeNum /\ head' = head
    BY <1>9 DEF vars, get_log_entry, Max_InodeNum, head, Size
  <2>2. UNCHANGED <<log, proc, creating>>
    BY <1>9 DEF vars
  <2> QED BY <2>1, <2>2 DEF TreeInv, Whole, OneParent, Resolved, Short, Pending
<1> QED BY <1>1, <1>2, <1>3, <1>4, <1>5, <1>6, <1>7, <1>8, <1>9 DEF Next

LEMMA TreeInvariance ==
    ASSUME Calm
    PROVE  Spec => []TreeInv
<1>1. TreeInv /\ [Next]_vars => TreeInv'
  BY StepTree
<1> QED BY <1>1, InitTree, PTL DEF Spec

(* Where nothing is removed, a short name's dentry leads to an inode, bar that *)
(* of the creation that is between its appends or died there: it names the *)
(* number that is given out next, and the inode it was meant for gets it.  *)
THEOREM DentriesAlwaysResolve ==
    ASSUME Calm
    PROVE  Spec => []DentriesResolve
<1>1. TreeInv => DentriesResolve
  <2> SUFFICES ASSUME TreeInv, NEW k \in DOMAIN log, NEW a \in DOMAIN log[k].dents
               PROVE  log[k].dents[a].name \in LongNames \/ get_log_entry[log[k].dents[a].ino] # 0 \/ log[k].dents[a].ino = Max_InodeNum + 1
    BY DEF DentriesResolve
  <2>1. k \in 1 .. Len(log) /\ Logged
    BY DEF TreeInv, IInv, TypeOK, Logged
  <2>2. log[k].dents \in Seq([name : Names, ino : Nat])
    BY <2>1, LogFields DEF Fields
  <2>3. a \in 1 .. Len(log[k].dents)
    BY <2>2
  <2> QED BY <2>1, <2>3 DEF TreeInv, Resolved, Short
<1> QED BY <1>1, TreeInvariance, PTL

(* The last step of a path: the dentry that leads to what it finds. *)
Leads(p, a) ==
    /\ path_to_log_entry(p) \in 1 .. Len(log) /\ path_to_log_entry(Front(p)) \in 1 .. Len(log)
    /\ a \in 1 .. Len(log[path_to_log_entry(Front(p))].dents)
    /\ log[path_to_log_entry(Front(p))].dents[a].name = Last(p)
    /\ log[path_to_log_entry(Front(p))].dents[a].ino = log[path_to_log_entry(p)].ino
    /\ path_to_log_entry(p) = get_log_entry[log[path_to_log_entry(p)].ino]
    /\ log[path_to_log_entry(Front(p))].kind = "dir"

LEMMA LastStep ==
    ASSUME IInv, NEW p \in Paths \ {<<>>}, path_to_log_entry(p) # 0
    PROVE  \E a : Leads(p, a)
<1> DEFINE k == path_to_log_entry(p)
           f == path_to_log_entry(Front(p))
           n == get_inode_number(Last(p), f)
<1>1. Logged /\ Front(p) \in Paths /\ Last(p) \in Names
  BY PathParts DEF IInv, TypeOK, Logged
<1>2. f \in 0 .. Len(log) /\ k \in 1 .. Len(log) /\ get_log_entry[log[k].ino] = k
  BY <1>1, PathFound DEF PathsFound, Logged
<1>3. k = get_log_entry[n] /\ n \in Int
  BY <1>1, <1>2, PathStep, NumberType DEF StepByStep, NumbersTyped
<1>4. log[k].ino = n
  BY <1>1, <1>2, <1>3, EntryIs DEF LastFound, Found
<1>5. log[k].ino \in Nat
  BY <1>1, <1>2, LogFields DEF Fields
<1>6. n # -1
  BY <1>4, <1>5
<1>7. PICK a \in 1 .. Len(log[f].dents) : f # 0 /\ log[f].dents[a].name = Last(p) /\ n = log[f].dents[a].ino
  BY <1>1, <1>2, <1>6, NumberIs DEF FirstFound
<1>8. f \in 1 .. Len(log)
  BY <1>1, <1>2, <1>7 DEF Logged
<1>9. log[f].kind = "dir"
  <2>1. log[f].dents # <<>>
    BY <1>7
  <2> QED BY <1>1, <1>8, <2>1, LogFields, EntryFields DEF IInv, Removable, Fields
<1> QED BY <1>2, <1>4, <1>7, <1>8, <1>9 DEF Leads

LEMMA RootAlone ==
    ASSUME TreeInv, NEW p \in ShortPaths \ {<<>>}, path_to_log_entry(p) # 0
    PROVE  path_to_log_entry(p) # path_to_log_entry(<<>>)
<1>1. PICK a : Leads(p, a)
  BY LastStep, ShortParts DEF TreeInv
<1>2. log[path_to_log_entry(p)].ino > 0
  BY <1>1, ShortParts DEF Leads, TreeInv, Resolved, Short
<1>3. Logged
  BY DEF TreeInv, IInv, TypeOK, Logged
<1>4. path_to_log_entry(<<>>) = get_log_entry[0]
  BY <1>3, PathStep DEF StepByStep
<1>5. path_to_log_entry(<<>>) # 0 => log[path_to_log_entry(<<>>)].ino = 0
  BY <1>3, <1>4, EntryIs DEF LastFound, Found
<1> QED BY <1>2, <1>5

LEMMA Unaliased == TreeInv => NoAliases
<1> SUFFICES ASSUME TreeInv PROVE NoAliases
  OBVIOUS
<1> DEFINE S == { p \in ShortPaths : \A q \in ShortPaths :
                    path_to_log_entry(p) # 0 /\ path_to_log_entry(p) = path_to_log_entry(q) => p = q }
<1>1. <<>> \in S
  BY RootAlone, ShortParts
<1>2. ASSUME NEW p \in ShortPaths \ {<<>>}, Front(p) \in S PROVE p \in S
  <2> SUFFICES ASSUME NEW q \in ShortPaths, path_to_log_entry(p) # 0,
                      path_to_log_entry(p) = path_to_log_entry(q)
               PROVE  p = q
    OBVIOUS
  <2>1. q # <<>>
    BY RootAlone
  <2>2. PICK a : Leads(p, a)
    BY LastStep, ShortParts DEF TreeInv
  <2>3. PICK b : Leads(q, b)
    BY <2>1, LastStep, ShortParts DEF TreeInv
  <2> DEFINE f == path_to_log_entry(Front(p))
             g == path_to_log_entry(Front(q))
  <2>4. /\ f \in 1 .. Len(log) /\ a \in 1 .. Len(log[f].dents) /\ log[f].dents[a].name = Last(p)
        /\ g \in 1 .. Len(log) /\ b \in 1 .. Len(log[g].dents) /\ log[g].dents[b].name = Last(q)
        /\ log[f].dents[a].ino = log[g].dents[b].ino
    BY <2>2, <2>3 DEF Leads
  <2>5. /\ Front(p) \in ShortPaths /\ Front(q) \in ShortPaths
        /\ Last(p) \notin LongNames /\ Last(q) \notin LongNames
    BY <2>1, ShortParts
  <2>6. log[f].ino = log[g].ino /\ a = b
    <3> HIDE DEF f, g
    <3> QED BY <2>4, <2>5 DEF TreeInv, OneParent, Short
  <2>7. f = g
    BY <2>4, <2>5, <2>6, PathFound, ShortParts DEF PathsFound, TreeInv, IInv, TypeOK, Logged
  <2>8. Front(p) = Front(q)
    BY <1>2, <2>4, <2>5, <2>7
  <2>9. Last(p) = Last(q)
    BY <2>4, <2>6, <2>7
  <2> QED BY <2>1, <2>8, <2>9, PathEqual, ShortParts
<1>3. \A p \in ShortPaths : p \in S
  <2> HIDE DEF S
  <2> QED BY <1>1, <1>2, ShortInduction
<1> QED BY <1>3 DEF NoAliases

(* Distinct paths that exist are distinct files, where nothing is removed  *)
(* and the program is not killed: a number is in one dentry position of    *)
(* one directory, so the path to an inode can be read off it.              *)
THEOREM PathsAreUnique ==
    ASSUME Calm
    PROVE  Spec => []NoAliases
BY Unaliased, TreeInvariance, PTL

-----------------------------------------------------------------------------
(* The log implements the tree of paths. *)

NoSuch == get_log_entry[-1] = 0 /\ get_log_entry[Max_InodeNum + 1] = 0

LEMMA NoneFound == Logged /\ Whole => NoSuch
<1> SUFFICES ASSUME Logged, Whole PROVE NoSuch
  OBVIOUS
<1>1. get_log_entry[-1] = 0
  <2> DEFINE k == get_log_entry[-1]
  <2>1. k \in 0 .. Len(log) /\ (k # 0 => log[k].ino = -1)
    BY EntryIs DEF LastFound, Found
  <2> HIDE DEF k
  <2>2. k # 0 => k \in 1 .. Len(log)
    BY <2>1 DEF Logged
  <2>3. \A j \in 1 .. Len(log) : log[j].ino \in Nat
    BY LogFields DEF Fields
  <2>4. k = 0
    BY <2>1, <2>2, <2>3
  <2> QED BY <2>4 DEF k
<1>2. get_log_entry[Max_InodeNum + 1] = 0
  <2>1. Max_InodeNum \in Nat
    BY MaxIs DEF LargestFound
  <2>2. \A n \in Int : get_log_entry[n] # 0 => n <= Max_InodeNum
    BY NumbersAre DEF Numbered
  <2> QED BY <2>1, <2>2
<1> QED BY <1>1, <1>2 DEF NoSuch

NullNumber == \A name \in Names : get_inode_number(name, 0) = -1

LEMMA NumberOfNull == Logged => NullNumber
<1>1. Logged => 0 \in 0 .. Len(log)
  BY DEF Logged
<1> QED BY <1>1, NumberIs DEF FirstFound, NullNumber

LEMMA SameNumber ==
    ASSUME Logged, Logged', NEW j \in 1 .. Len(log), NEW i \in 1 .. Len(log'),
           log'[i].dents = log[j].dents, NEW name \in Names
    PROVE  get_inode_number(name, i)' = get_inode_number(name, j)
<1> DEFINE d == log[j].dents
           m == get_inode_number(name, j)
           n == get_inode_number(name, i)'
<1>1. j # 0 /\ i # 0 /\ j \in 0 .. Len(log) /\ i \in 0 .. Len(log')
  BY DEF Logged
<1>2. FirstFound'
  BY NumberIs, PTL
<1>3. Len(d) \in Nat
  BY LogFields DEF Fields
<1>4. \/ m = -1 /\ \A a \in 1 .. Len(d) : d[a].name # name
      \/ \E a \in 1 .. Len(d) : /\ d[a].name = name /\ m = d[a].ino
                               /\ \A b \in 1 .. a - 1 : d[b].name # name
  BY <1>1, NumberIs DEF FirstFound
<1>5. \/ n = -1 /\ \A a \in 1 .. Len(d) : d[a].name # name
      \/ \E a \in 1 .. Len(d) : /\ d[a].name = name /\ n = d[a].ino
                               /\ \A b \in 1 .. a - 1 : d[b].name # name
  <2> DEFINE c == log'[i].dents
  <2>1. \/ n = -1 /\ \A a \in 1 .. Len(c) : c[a].name # name
        \/ \E a \in 1 .. Len(c) : /\ c[a].name = name /\ n = c[a].ino
                                 /\ \A b \in 1 .. a - 1 : c[b].name # name
    BY <1>1, <1>2 DEF FirstFound
  <2> HIDE DEF n
  <2> QED BY <2>1
<1> HIDE DEF d, m, n
<1>6. ASSUME NEW a \in 1 .. Len(d), NEW c \in 1 .. Len(d), d[a].name = name, d[c].name = name,
             \A b \in 1 .. a - 1 : d[b].name # name, \A b \in 1 .. c - 1 : d[b].name # name
      PROVE  a = c
  <2>1. a < c => a \in 1 .. c - 1
    BY <1>3
  <2>2. c < a => c \in 1 .. a - 1
    BY <1>3
  <2> QED BY <1>3, <1>6, <2>1, <2>2
<1>7. m = n
  BY <1>4, <1>5, <1>6
<1> QED BY <1>7 DEF m, n

(* A new version of an entry that is found, perhaps with a name more: the  *)
(* paths that led to the old version lead to the new one, and the others   *)
(* where they led.                                                         *)
Moves(k) ==
    \A q \in ShortPaths :
        path_to_log_entry(q)' = IF path_to_log_entry(q) = k THEN Len(log) + 1 ELSE path_to_log_entry(q)

LEMMA PathsMove ==
    ASSUME Logged, Whole, NEW k \in 1 .. Len(log), get_log_entry[log[k].ino] = k,
           NEW i \in Nat, i = Len(log) + 1, NEW e \in Entries, ~e.deleted, e.ino = log[k].ino, log' = Append(log, e),
           \A name \in Names \ LongNames :
               \/ get_inode_number(name, i)' = get_inode_number(name, k)
               \/ /\ get_inode_number(name, k) = -1
                  /\ get_inode_number(name, i)' = Max_InodeNum + 1
    PROVE  Moves(k)
<1> DEFINE N == Len(log)
           P(q) == path_to_log_entry(q)
           moved(q) == P(q)' = IF P(q) = k THEN N + 1 ELSE P(q)
           S == { q \in ShortPaths : moved(q) }
<1>1. /\ Logged' /\ N \in Nat /\ Len(log') = N + 1 /\ log'[N + 1] = e /\ N + 1 # 0
      /\ \A j \in 1 .. N : j \in 1 .. Len(log') /\ log'[j] = log[j]
  BY AppendIs
<1>2. StepByStep /\ StepByStep' /\ PathsFound /\ LastFound /\ NoSuch /\ NullNumber /\ NullNumber'
  BY <1>1, PathStep, PathFound, EntryIs, NoneFound, NumberOfNull, PTL
<1>3. Max_InodeNum \in Nat /\ \A n \in Int : get_log_entry[n] # 0 => n <= Max_InodeNum
  BY MaxIs, NumbersAre DEF LargestFound, Numbered
<1>4. \A n \in Int : get_log_entry'[n] = IF n = e.ino THEN N + 1 ELSE get_log_entry[n]
  BY AppendFinds
<1>5. \A n \in Int : get_log_entry[n] = k <=> n = e.ino
  BY <1>1, <1>2 DEF LastFound, Found
<1>6. \A n \in Int : get_log_entry'[n] = IF get_log_entry[n] = k THEN N + 1 ELSE get_log_entry[n]
  BY <1>4, <1>5
<1>7. <<>> \in S
  BY <1>2, <1>6, ShortParts DEF StepByStep
<1>8. ASSUME NEW q \in ShortPaths \ {<<>>}, Front(q) \in S PROVE q \in S
  <2> DEFINE f == P(Front(q))
             g == P(Front(q))'
             m == get_inode_number(Last(q), f)
             n == get_inode_number(Last(q), P(Front(q)))'
  <2>1. Front(q) \in Paths /\ q \in Paths /\ Last(q) \in Names /\ Last(q) \notin LongNames
    BY ShortParts
  <2>2. f \in 0 .. N /\ g = IF f = k THEN N + 1 ELSE f
    BY <1>2, <1>8, <2>1 DEF PathsFound
  <2>3. m \in Int
    BY <2>1, <2>2, NumberType DEF NumbersTyped
  <2>4. n = m \/ (m = -1 /\ n = Max_InodeNum + 1)
    <3>1. CASE f = k
      <4>1. g = i
        BY <2>2, <3>1
      <4>2. n = get_inode_number(Last(q), i)' /\ m = get_inode_number(Last(q), k)
        BY <3>1, <4>1
      <4> QED BY <2>1, <4>2
    <3>2. CASE f = 0
      <4>1. g = 0
        BY <2>2, <3>2
      <4>2. n = -1 /\ m = -1
        BY <1>2, <2>1, <3>2, <4>1 DEF NullNumber
      <4> QED BY <4>2
    <3>3. CASE f # k /\ f # 0
      <4>1. g = f /\ f \in 1 .. N
        BY <1>1, <2>2, <3>3
      <4>2. f \in 1 .. Len(log') /\ log'[f].dents = log[f].dents
        BY <1>1, <4>1
      <4> QED BY <1>1, <2>1, <4>1, <4>2, SameNumber
    <3> QED BY <3>1, <3>2, <3>3
  <2>5. P(q) = get_log_entry[m] /\ P(q)' = get_log_entry'[n]
    BY <1>2, <2>1 DEF StepByStep
  <2>6. get_log_entry'[n] = get_log_entry'[m]
    <3>1. get_log_entry[-1] = 0 /\ get_log_entry[Max_InodeNum + 1] = 0 /\ k # 0
      BY <1>1, <1>2 DEF NoSuch
    <3>2. get_log_entry'[-1] = 0 /\ get_log_entry'[Max_InodeNum + 1] = 0
      BY <1>3, <1>6, <3>1
    <3> QED BY <2>4, <3>2
  <2>7. moved(q)
    <3> HIDE DEF m, n
    <3> QED BY <1>6, <2>3, <2>5, <2>6
  <2> QED BY <2>7
<1>9. \A q \in ShortPaths : q \in S
  <2> HIDE DEF S
  <2> QED BY <1>7, <1>8, ShortInduction
<1> QED BY <1>9 DEF Moves

(* A new inode, without dentries: the paths whose last dentry names it lead *)
(* to it, and the others where they led.                                    *)
Arrives(n) ==
    \A q \in Paths :
        path_to_log_entry(q)' =
            IF q # <<>> /\ get_inode_number(Last(q), path_to_log_entry(Front(q))) = n
            THEN Len(log) + 1 ELSE path_to_log_entry(q)

LEMMA PathsArrive ==
    ASSUME Logged, Whole, NEW e \in Entries, ~e.deleted, e.ino = Max_InodeNum + 1, e.dents = <<>>,
           log' = Append(log, e)
    PROVE  Arrives(e.ino)
<1> DEFINE N == Len(log)
           P(q) == path_to_log_entry(q)
           named(q) == q # <<>> /\ get_inode_number(Last(q), P(Front(q))) = e.ino
           S == { q \in Paths : P(q)' = IF named(q) THEN N + 1 ELSE P(q) }
<1>1. /\ Logged' /\ N \in Nat /\ Len(log') = N + 1 /\ log'[N + 1] = e /\ N + 1 # 0
      /\ \A j \in 1 .. N : j \in 1 .. Len(log') /\ log'[j] = log[j]
  BY AppendIs
<1>2. StepByStep /\ StepByStep' /\ PathsFound /\ LastFound /\ NoSuch /\ NullNumber /\ NullNumber'
  BY <1>1, PathStep, PathFound, EntryIs, NoneFound, NumberOfNull, PTL
<1>3. Max_InodeNum \in Nat /\ e.ino \in Nat /\ e.ino # -1 /\ e.ino # 0
  BY MaxIs DEF LargestFound
<1>4. \A n \in Int : get_log_entry'[n] = IF n = e.ino THEN N + 1 ELSE get_log_entry[n]
  BY AppendFinds
<1>5. <<>> \in S
  BY <1>2, <1>3, <1>4, PathParts DEF StepByStep
<1>6. ASSUME NEW q \in Paths \ {<<>>}, Front(q) \in S PROVE q \in S
  <2> DEFINE f == P(Front(q))
             g == P(Front(q))'
             m == get_inode_number(Last(q), f)
             n == get_inode_number(Last(q), P(Front(q)))'
  <2>1. Front(q) \in Paths /\ Last(q) \in Names
    BY PathParts
  <2>2. f \in 0 .. N /\ (g = f \/ (f = 0 /\ g = N + 1))
    <3>1. CASE named(Front(q))
      <4>1. f = get_log_entry[e.ino]
        BY <1>2, <2>1, <3>1 DEF StepByStep
      <4>2. f = 0
        BY <1>2, <4>1 DEF NoSuch
      <4> QED BY <1>1, <1>6, <3>1, <4>2
    <3>2. CASE ~named(Front(q))
      BY <1>2, <1>6, <2>1, <3>2 DEF PathsFound
    <3> QED BY <3>1, <3>2
  <2>3. m \in Int
    BY <2>1, <2>2, NumberType DEF NumbersTyped
  <2>4. n = m
    <3>1. CASE f = 0 /\ g = 0
      BY <1>2, <2>1, <3>1 DEF NullNumber
    <3>2. CASE f = 0 /\ g = N + 1
      <4>1. m = -1
        BY <1>2, <2>1, <3>2 DEF NullNumber
      <4>2. FirstFound'
        BY <1>1, NumberIs, PTL
      <4>3. g \in 0 .. Len(log') /\ log'[g].dents = <<>>
        BY <1>1, <3>2
      <4>4. n = -1
        BY <2>1, <4>2, <4>3 DEF FirstFound
      <4> QED BY <4>1, <4>4
    <3>3. CASE f # 0 /\ g = f
      <4>1. f \in 1 .. N /\ g = f
        BY <1>1, <2>2, <3>3
      <4>2. f \in 1 .. Len(log') /\ log'[f].dents = log[f].dents
        BY <1>1, <4>1
      <4> QED BY <1>1, <2>1, <4>1, <4>2, SameNumber
    <3> QED BY <2>2, <3>1, <3>2, <3>3
  <2>5. P(q) = get_log_entry[m] /\ P(q)' = get_log_entry'[n]
    BY <1>2 DEF StepByStep
  <2>6. P(q)' = IF m = e.ino THEN N + 1 ELSE P(q)
    <3> HIDE DEF m, n
    <3> QED BY <1>4, <2>3, <2>4, <2>5
  <2> QED BY <2>6
<1>7. \A q \in Paths : q \in S
  <2> HIDE DEF S
  <2> QED BY <1>5, <1>6, PathInduction
<1> QED BY <1>7 DEF Arrives

-----------------------------------------------------------------------------
(* The steps of the log are steps of the tree. *)

Shown(k) == IF k = 0 THEN Absent ELSE IF log[k].kind = "dir" THEN Dir ELSE log[k].data

TreeShown ==
    /\ Tree = [p \in ShortPaths |-> Tree[p]]
    /\ \A p \in ShortPaths : Tree[p] = Shown(path_to_log_entry(p))

LEMMA TreeIs == TreeShown
BY DEF TreeShown, Tree, Shown

LEMMA InitRefines == Init => Promise!Init
<1> SUFFICES ASSUME Init PROVE Promise!Init
  OBVIOUS
<1>1. TreeInv
  BY InitTree
<1> DEFINE r == NewInode(0, "dir")
<1>2. r.ino = 0 /\ r.kind = "dir" /\ r.dents = <<>> /\ ~r.deleted
  BY NewInodeIs
<1>3. Logged /\ Len(log) = 1 /\ log[1] = r
  BY <1>1, <1>2 DEF Init, Logged, TreeInv, IInv, TypeOK
<1> HIDE DEF r
<1>4. \A p \in Paths \ {<<>>} : path_to_log_entry(p) = 0
  <2> SUFFICES ASSUME NEW p \in Paths \ {<<>>}, path_to_log_entry(p) # 0 PROVE FALSE
    OBVIOUS
  <2>1. PICK a : Leads(p, a)
    BY <1>1, LastStep DEF TreeInv
  <2>2. path_to_log_entry(Front(p)) = 1
    BY <1>3, <2>1 DEF Leads
  <2> QED BY <1>2, <1>3, <2>1, <2>2 DEF Leads
<1>5. path_to_log_entry(<<>>) = 1
  <2>1. path_to_log_entry(<<>>) = get_log_entry[0]
    BY <1>3, PathStep DEF StepByStep
  <2>2. get_log_entry[0] \in 0 .. 1 /\ 1 <= get_log_entry[0]
    BY <1>2, <1>3, EntryIs DEF LastFound, Found
  <2> QED BY <2>1, <2>2
<1>6. \A p \in ShortPaths : Tree[p] = IF p = <<>> THEN Dir ELSE Absent
  BY <1>2, <1>3, <1>4, <1>5, TreeIs, ShortParts DEF TreeShown, Shown
<1>7. Tree = [p \in ShortPaths |-> IF p = <<>> THEN Dir ELSE Absent]
  BY <1>6, TreeIs DEF TreeShown
<1>8. (stale = {}) = TRUE
  BY DEF Init
<1> QED BY <1>7, <1>8 DEF Promise!Init

LEMMA SameLogRefines ==
    ASSUME UNCHANGED log
    PROVE  UNCHANGED Tree
<1>1. get_log_entry' = get_log_entry
  BY DEF get_log_entry
<1> QED BY <1>1 DEF Tree, path_to_log_entry, get_inode_number

(* The dentry of a creation: no path changes. *)
LEMMA CreateRefines ==
    ASSUME TreeInv, NEW path \in Paths \ {<<>>}, NEW kind \in {"dir", "file"}, Create(path, kind)
    PROVE  UNCHANGED Tree
<1> DEFINE k == path_to_log_entry(Front(path))
           n == Max_InodeNum + 1
           e == WithDentry(k, Last(path), n)
<1>1. /\ proc = "running" /\ Is("dir", k)
      /\ \/ UNCHANGED log
         \/ /\ get_inode_number(Last(path), k) = -1
            /\ log' = Append(log, e)
         \/ DieAppending(e)
  BY DEF Create, AppendEntry
<1>2. Logged /\ Whole
  BY DEF TreeInv, IInv, TypeOK, Logged
<1>3. Max_InodeNum \in Nat /\ n \in Nat
  BY <1>2, MaxIs DEF LargestFound
<1>4. Copied(k, e, Last(path), n)
  BY <1>1, <1>3, ParentIs DEF TreeInv
<1>5. CASE /\ get_inode_number(Last(path), k) = -1
           /\ log' = Append(log, e)
  <2> HIDE DEF e
  <2>1. /\ k \in 1 .. Len(log) /\ get_log_entry[log[k].ino] = k /\ log[k].kind = "dir"
        /\ e \in Entries /\ ~e.deleted /\ e.kind = "dir" /\ e.ino = log[k].ino
        /\ Extends(log[k].dents, e.dents)
    BY <1>4 DEF Copied
  <2> DEFINE i == Len(log) + 1
  <2>2. /\ Logged' /\ i \in Nat /\ Len(log') = i /\ log'[i] = e /\ i # 0
        /\ \A j \in 1 .. Len(log) : j \in 1 .. Len(log') /\ log'[j] = log[j]
    BY <1>2, <1>5, <2>1, AppendIs
  <2>3. PICK top \in Nat : top = i
    BY <2>2
  <2> DEFINE number(name) == get_inode_number(name, top)'
             d == log[k].dents
             x == [name |-> Last(path), ino |-> Stored(Last(path), n)]
  <2>4. d \in Seq([name : Names, ino : Nat]) /\ e.dents = Append(d, x)
    BY <1>2, <1>4, LogFields DEF Copied, Fields
  <2>5. FirstFound' /\ Fields'
    BY <2>2, NumberIs, LogFields, PTL
  <2>6. \A name \in Names \ LongNames :
          \/ number(name) = get_inode_number(name, k)
          \/ /\ name = Last(path) /\ get_inode_number(name, k) = -1 /\ number(name) = n
    <3> SUFFICES ASSUME NEW name \in Names \ LongNames, number(name) # get_inode_number(name, k)
                 PROVE  name = Last(path) /\ get_inode_number(name, k) = -1 /\ number(name) = n
      OBVIOUS
    <3>1. top \in 1 .. Len(log') /\ log'[top] = e
      BY <2>2, <2>3
    <3>2. get_inode_number(name, k) = -1
      <4>1. CASE get_inode_number(name, k) # -1
        <5>1. Extends(log[k].dents, log'[top].dents)
          BY <2>1, <3>1
        <5> QED BY <1>2, <2>1, <2>2, <3>1, <4>1, <5>1, NumberKept
      <4> QED BY <4>1
    <3>3. \A a \in 1 .. Len(d) : d[a].name # name
      <4>1. k # 0 /\ k \in 0 .. Len(log)
        BY <1>2, <2>1 DEF Logged
      <4>2. \A a \in 1 .. Len(d) : d[a].ino \in Nat
        BY <1>2, <2>1, NumbersAre DEF Numbered
      <4>3. \A a \in 1 .. Len(d) : d[a].ino # -1
        BY <4>2
      <4> QED BY <1>2, <3>2, <4>1, <4>3, NumberIs DEF FirstFound
    <3>4. PICK a \in 1 .. Len(e.dents) : e.dents[a].name = name /\ number(name) = e.dents[a].ino
      <4>1. number(name) # -1
        BY <3>2
      <4>2. top \in 0 .. Len(log')
        BY <2>2, <3>1
      <4>3. \E a \in 1 .. Len(log'[top].dents) :
              log'[top].dents[a].name = name /\ number(name) = log'[top].dents[a].ino
        <5> HIDE DEF number
        <5> QED BY <2>5, <4>1, <4>2 DEF FirstFound, number
      <4> QED BY <3>1, <4>3
    <3>5. Len(d) \in Nat /\ Len(e.dents) = Len(d) + 1 /\ e.dents[Len(d) + 1] = x
          /\ \A b \in 1 .. Len(d) : e.dents[b] = d[b]
      <4> DEFINE D == [name : Names, ino : Nat]
      <4>1. x \in D
        BY <1>3, PathParts, StoredIs
      <4> HIDE DEF d, x, D
      <4> QED BY <2>4, <4>1 DEF D
    <3>6. a = Len(d) + 1
      <4> HIDE DEF d, x, number
      <4>1. a = Len(d) + 1 \/ a \in 1 .. Len(d)
        BY <3>4, <3>5
      <4>2. a \notin 1 .. Len(d)
        BY <3>3, <3>4, <3>5
      <4> QED BY <4>1, <4>2
    <3>7. name = Last(path) /\ number(name) = n
      <4>1. x.name = Last(path) /\ x.ino = Stored(Last(path), n)
        OBVIOUS
      <4>2. name = Last(path) /\ number(name) = Stored(Last(path), n)
        <5> HIDE DEF x, number
        <5> QED BY <3>4, <3>5, <3>6, <4>1
      <4> QED BY <1>3, <4>2, StoredIs
    <3> QED BY <3>2, <3>7
  <2>7. \A name \in Names \ LongNames :
          \/ get_inode_number(name, top)' = get_inode_number(name, k)
          \/ /\ get_inode_number(name, k) = -1
             /\ get_inode_number(name, top)' = Max_InodeNum + 1
    BY <2>6
  <2>8. Moves(k)
    <3> HIDE DEF k, number, d, x
    <3> QED BY <1>2, <1>5, <2>1, <2>3, <2>7, PathsMove
  <2>9. UNCHANGED Tree
    <3>1. TreeShown /\ TreeShown' /\ PathsFound
      BY <1>2, TreeIs, PathFound, PTL
    <3>2. ASSUME NEW q \in ShortPaths PROVE Tree'[q] = Tree[q]
      <4>1. Tree[q] = Shown(path_to_log_entry(q))
            /\ Tree'[q] = (Shown(path_to_log_entry(q)))'
        BY <3>1 DEF TreeShown
      <4>2. path_to_log_entry(q)' = IF path_to_log_entry(q) = k THEN i ELSE path_to_log_entry(q)
        BY <2>8 DEF Moves
      <4>3. path_to_log_entry(q) \in 0 .. Len(log)
        BY <3>1, ShortParts DEF PathsFound
      <4>4. CASE path_to_log_entry(q) = k
        BY <2>1, <2>2, <4>1, <4>2, <4>4 DEF Shown
      <4>5. CASE path_to_log_entry(q) # k /\ path_to_log_entry(q) # 0
        <5>1. path_to_log_entry(q) \in 1 .. Len(log)
          BY <1>2, <4>3, <4>5 DEF Logged
        <5> QED BY <2>2, <4>1, <4>2, <4>5, <5>1 DEF Shown
      <4>6. CASE path_to_log_entry(q) # k /\ path_to_log_entry(q) = 0
        BY <4>1, <4>2, <4>6 DEF Shown
      <4> QED BY <4>4, <4>5, <4>6
    <3> QED BY <3>1, <3>2 DEF TreeShown
  <2> QED BY <2>9
<1>6. CASE UNCHANGED log
  BY <1>6, SameLogRefines
<1> QED BY <1>1, <1>5, <1>6 DEF DieAppending, DieHaving

LEMMA RewrittenMoves ==
    ASSUME IInv, Whole, NEW k, NEW e, NEW off, NEW b, Rewritten(k, e, off, b), log' = Append(log, e)
    PROVE  /\ Moves(k) /\ Logged' /\ Len(log) \in Nat /\ Len(log') = Len(log) + 1
           /\ log'[Len(log) + 1] = e /\ Len(log) + 1 # 0
           /\ \A j \in 1 .. Len(log) : j \in 1 .. Len(log') /\ log'[j] = log[j]
<1>1. /\ Logged /\ k \in 1 .. Len(log) /\ get_log_entry[log[k].ino] = k /\ log[k].kind = "file"
      /\ log[k].dents = <<>> /\ e \in Entries /\ ~e.deleted /\ e.ino = log[k].ino /\ e.dents = <<>>
  BY DEF Rewritten, IInv, TypeOK, Logged
<1>2. /\ Logged' /\ Len(log) \in Nat /\ Len(log') = Len(log) + 1 /\ log'[Len(log) + 1] = e
      /\ Len(log) + 1 # 0
      /\ \A j \in 1 .. Len(log) : j \in 1 .. Len(log') /\ log'[j] = log[j]
  BY <1>1, AppendIs
<1>3. PICK top \in Nat : top = Len(log) + 1
  BY <1>2
<1>4. \A name \in Names : get_inode_number(name, top)' = get_inode_number(name, k)
  <2>1. top \in 1 .. Len(log') /\ log'[top].dents = log[k].dents
    BY <1>1, <1>2, <1>3
  <2> QED BY <1>1, <1>2, <2>1, SameNumber
<1>5. Moves(k)
  BY <1>1, <1>3, <1>4, PathsMove
<1> QED BY <1>2, <1>5

LEMMA RootIsDir ==
    ASSUME IInv, path_to_log_entry(<<>>) # 0
    PROVE  log[path_to_log_entry(<<>>)].kind = "dir"
<1>1. Logged /\ Root /\ Removable /\ Versions
  BY DEF IInv, TypeOK, Logged
<1>2. path_to_log_entry(<<>>) = get_log_entry[0]
  BY <1>1, PathStep DEF StepByStep
<1> DEFINE k == get_log_entry[0]
<1>3. k \in 1 .. Len(log) /\ log[k].ino = 0 /\ ~log[k].deleted
  BY <1>1, <1>2, EntryIs DEF LastFound, Found, Logged
<1>4. 1 \in 1 .. Len(log) /\ ~log[1].deleted /\ log[1].ino = 0 /\ log[1].kind = "dir"
  BY <1>1 DEF Root, Removable, Logged
<1> HIDE DEF k
<1> QED BY <1>1, <1>2, <1>3, <1>4 DEF Versions, k

(* A write changes the file at its path, and no other. *)
LEMMA WriteRefines ==
    ASSUME TreeInv, NEW path \in Paths \ {<<>>}, NEW off \in Offsets, NEW b \in Blocks,
           my_write(path, off, b)
    PROVE  (\E p \in ShortPaths \ {<<>>} : Promise!Write(p, off, b)) \/ UNCHANGED Tree
<1> DEFINE k == path_to_log_entry(path)
           e == [log[k] EXCEPT !.data = Written(@, off, b)]
<1>1. /\ proc = "running" /\ Is("file", k)
      /\ \/ Fits(e) /\ AppendEntry(e) /\ Return("OK") /\ UNCHANGED creating
         \/ DieAppending(e)
  BY DEF my_write
<1>2. Logged /\ Whole /\ NoAliases
  BY Unaliased DEF TreeInv, IInv, TypeOK, Logged
<1>3. Rewritten(k, e, off, b)
  BY <1>1, FileIs DEF TreeInv
<1>4. ASSUME log' = Append(log, e), NEW p \in ShortPaths, path_to_log_entry(p) = k
      PROVE  p # <<>> /\ Promise!Write(p, off, b)
  <2> HIDE DEF e
  <2>1. /\ k \in 1 .. Len(log) /\ get_log_entry[log[k].ino] = k /\ log[k].kind = "file"
        /\ log[k].dents = <<>> /\ e \in Entries /\ ~e.deleted /\ e.kind = "file" /\ e.ino = log[k].ino
        /\ e.dents = <<>> /\ e.data = Written(log[k].data, off, b)
    BY <1>3 DEF Rewritten
  <2>2. /\ Moves(k) /\ Logged' /\ Len(log) \in Nat /\ Len(log') = Len(log) + 1
        /\ log'[Len(log) + 1] = e /\ Len(log) + 1 # 0
        /\ \A j \in 1 .. Len(log) : j \in 1 .. Len(log') /\ log'[j] = log[j]
    BY <1>2, <1>3, <1>4, RewrittenMoves DEF TreeInv
  <2>6. TreeShown /\ TreeShown' /\ PathsFound
    BY <1>2, <2>2, TreeIs, PathFound, PTL
  <2>7. k # 0 /\ \A q \in ShortPaths : path_to_log_entry(q) = k <=> q = p
    BY <1>2, <1>4, <2>1 DEF NoAliases, Logged
  <2>8. Tree[p] = log[k].data /\ log[k].data \in Seq(Contents)
    BY <1>2, <1>4, <2>1, <2>6, <2>7, LogFields DEF TreeShown, Shown, Fields
  <2>9. Tree'[p] = Written(log[k].data, off, b)
    <3>1. path_to_log_entry(p)' = Len(log) + 1
      BY <1>4, <2>2 DEF Moves
    <3>2. Tree'[p] = (Shown(path_to_log_entry(p)))'
      BY <1>4, <2>6 DEF TreeShown
    <3> QED BY <2>1, <2>2, <3>1, <3>2 DEF Shown
  <2>10. ASSUME NEW q \in ShortPaths, q # p PROVE Tree'[q] = Tree[q]
    <3>1. path_to_log_entry(q)' = path_to_log_entry(q) /\ path_to_log_entry(q) \in 0 .. Len(log)
      BY <2>2, <2>6, <2>7, <2>10, ShortParts DEF Moves, PathsFound
    <3>2. Tree[q] = Shown(path_to_log_entry(q)) /\ Tree'[q] = (Shown(path_to_log_entry(q)))'
      BY <2>6 DEF TreeShown
    <3>3. path_to_log_entry(q) = 0 \/ path_to_log_entry(q) \in 1 .. Len(log)
      BY <2>2, <3>1
    <3>4. CASE path_to_log_entry(q) = 0
      BY <3>1, <3>2, <3>4 DEF Shown
    <3>5. CASE path_to_log_entry(q) \in 1 .. Len(log)
      BY <2>2, <3>1, <3>2, <3>5 DEF Shown
    <3> QED BY <3>3, <3>4, <3>5
  <2> DEFINE gap == [j \in 1 .. off |-> Gap(j)]
             new == Promise!Written(Tree[p], off, b, gap)
  <2>11. gap \in [1 .. off -> IF stale = {} THEN {Hole} ELSE {Hole, Stale}]
    BY DEF Gap
  <2>12. Written(log[k].data, off, b) = new
    <3> DEFINE data == log[k].data
               N == IF off >= Len(data) THEN off + 1 ELSE Len(data)
    <3>1. Len(data) \in Nat /\ off \in Nat /\ N \in Nat
      BY <2>8, WfsLogAssumption
    <3>2. \A j \in 1 .. N : j # off + 1 /\ ~(j <= Len(data)) => j \in 1 .. off
      BY <3>1
    <3>3. \A j \in 1 .. off : gap[j] = Gap(j)
      OBVIOUS
    <3> HIDE DEF gap, N
    <3>4. \A j \in 1 .. N :
            (IF j = off + 1 THEN b ELSE IF j <= Len(data) THEN data[j] ELSE Gap(j))
              = (IF j = off + 1 THEN b ELSE IF j <= Len(data) THEN data[j] ELSE gap[j])
      BY <3>2, <3>3
    <3>5. Written(data, off, b)
            = [j \in 1 .. N |-> IF j = off + 1 THEN b ELSE IF j <= Len(data) THEN data[j] ELSE Gap(j)]
      BY DEF Written, N
    <3>6. new = [j \in 1 .. N |-> IF j = off + 1 THEN b ELSE IF j <= Len(data) THEN data[j] ELSE gap[j]]
      BY <2>8 DEF Promise!Written, N
    <3> QED BY <3>4, <3>5, <3>6
  <2>13. Tree' = [Tree EXCEPT ![p] = new]
    <3>1. Tree'[p] = new
      BY <2>9, <2>12
    <3> HIDE DEF new
    <3> QED BY <1>4, <2>6, <2>10, <3>1 DEF TreeShown
  <2>14. Tree[p] \notin {Absent, Dir}
    BY <2>8, WfsLogAssumption
  <2>15. p # <<>>
    <3>1. path_to_log_entry(<<>>) # 0 => log[path_to_log_entry(<<>>)].kind = "dir"
      BY RootIsDir DEF TreeInv
    <3> QED BY <1>4, <2>1, <2>7, <3>1
  <2>16. Promise!Write(p, off, b)
    <3> HIDE DEF gap
    <3> QED BY <2>11, <2>13, <2>14 DEF Promise!Write, Promise!IsFile
  <2> QED BY <2>15, <2>16
<1>5. ASSUME log' = Append(log, e), \A p \in ShortPaths : path_to_log_entry(p) # k
      PROVE  UNCHANGED Tree
  <2> HIDE DEF e
  <2>1. Moves(k) /\ Logged' /\ Len(log) \in Nat /\ \A j \in 1 .. Len(log) : log'[j] = log[j]
    BY <1>2, <1>3, <1>5, RewrittenMoves DEF TreeInv
  <2>2. TreeShown /\ TreeShown' /\ PathsFound
    BY <1>2, <2>1, TreeIs, PathFound, PTL
  <2>3. ASSUME NEW q \in ShortPaths PROVE Tree'[q] = Tree[q]
    <3>1. path_to_log_entry(q)' = path_to_log_entry(q) /\ path_to_log_entry(q) \in 0 .. Len(log)
      BY <1>5, <2>1, <2>2, ShortParts DEF Moves, PathsFound
    <3>2. Tree[q] = Shown(path_to_log_entry(q)) /\ Tree'[q] = (Shown(path_to_log_entry(q)))'
      BY <2>2 DEF TreeShown
    <3>3. path_to_log_entry(q) = 0 \/ path_to_log_entry(q) \in 1 .. Len(log)
      BY <2>1, <3>1
    <3> QED BY <2>1, <3>1, <3>2, <3>3 DEF Shown
  <2> QED BY <2>2, <2>3 DEF TreeShown
<1>6. CASE DieAppending(e)
  BY <1>6, SameLogRefines DEF DieAppending, DieHaving
<1> QED BY <1>1, <1>4, <1>5, <1>6 DEF AppendEntry

(* The inode of a creation: a directory or an empty file appears at the one *)
(* path whose last dentry names it.                                         *)
LEMMA AppendInodeRefines ==
    ASSUME TreeInv, TreeInv', AppendInode
    PROVE  \/ \E p \in ShortPaths \ {<<>>} : Promise!Create(p, Dir) \/ Promise!Create(p, <<>>)
           \/ UNCHANGED Tree
<1>1. /\ Logged /\ Whole /\ creating \in Entries /\ creating.kind \in {"dir", "file"}
      /\ creating.ino \in Nat /\ creating.ino = Max_InodeNum + 1
      /\ creating = NewInode(creating.ino, creating.kind)
  BY EntryFields DEF TreeInv, IInv, TypeOK, Logged, Resolved, AppendInode, NewNumber
<1>2. ~creating.deleted /\ creating.dents = <<>> /\ creating.data = <<>>
  BY <1>1, NewInodeIs
<1>3. CASE log' = Append(log, creating)
  <2> DEFINE e == creating
  <2> DEFINE named(p) == get_inode_number(Last(p), path_to_log_entry(Front(p))) = e.ino
  <2>2. /\ e \in Entries /\ e.kind \in {"dir", "file"} /\ e.ino \in Nat /\ e.ino = Max_InodeNum + 1
        /\ ~e.deleted /\ e.dents = <<>> /\ e.data = <<>> /\ log' = Append(log, e)
    BY <1>1, <1>2, <1>3
  <2> HIDE DEF e
  <2>3. /\ Logged' /\ Len(log) \in Nat /\ Len(log') = Len(log) + 1 /\ log'[Len(log) + 1] = e
        /\ Len(log) + 1 # 0
        /\ \A j \in 1 .. Len(log) : j \in 1 .. Len(log') /\ log'[j] = log[j]
    BY <1>1, <2>2, AppendIs
  <2>4. Arrives(e.ino)
    BY <1>1, <2>2, PathsArrive
  <2>5. TreeShown /\ TreeShown' /\ PathsFound /\ StepByStep /\ NoSuch /\ NullNumber
    BY <1>1, TreeIs, PathFound, PathStep, NoneFound, NumberOfNull, PTL
  <2>6. NoAliases'
    BY Unaliased, PTL
  <2>7. ASSUME NEW p \in ShortPaths \ {<<>>}, named(p)
        PROVE  Promise!Create(p, Dir) \/ Promise!Create(p, <<>>)
    <3>6. p \in Paths \ {<<>>} /\ Front(p) \in ShortPaths /\ Front(p) \in Paths /\ Last(p) \in Names
      BY <2>7, ShortParts
    <3>7. path_to_log_entry(p)' = Len(log) + 1
      BY <2>7, <2>4, <3>6 DEF Arrives
    <3>8. path_to_log_entry(p) = 0
      BY <2>7, <2>2, <2>5, <3>6 DEF StepByStep, NoSuch
    <3>9. ASSUME NEW q \in ShortPaths, q # p PROVE path_to_log_entry(q)' = path_to_log_entry(q)
      <4>1. path_to_log_entry(q)' # Len(log) + 1
        BY <2>3, <2>6, <3>7, <3>9 DEF NoAliases
      <4> QED BY <2>4, <3>9, <4>1, ShortParts DEF Arrives
    <3> DEFINE node == IF e.kind = "dir" THEN Dir ELSE <<>>
               f == path_to_log_entry(Front(p))
    <3>10. Tree[p] = Absent
      BY <2>5, <3>8 DEF TreeShown, Shown
    <3>11. Tree'[p] = node
      <4>1. Tree'[p] = (Shown(path_to_log_entry(p)))'
        BY <2>5 DEF TreeShown
      <4> QED BY <2>2, <2>3, <3>7, <4>1 DEF Shown
    <3>12. ASSUME NEW q \in ShortPaths, q # p PROVE Tree'[q] = Tree[q]
      <4>1. path_to_log_entry(q)' = path_to_log_entry(q) /\ path_to_log_entry(q) \in 0 .. Len(log)
        BY <2>5, <3>9, <3>12, ShortParts DEF PathsFound
      <4>2. Tree[q] = Shown(path_to_log_entry(q)) /\ Tree'[q] = (Shown(path_to_log_entry(q)))'
        BY <2>5 DEF TreeShown
      <4>3. path_to_log_entry(q) = 0 \/ path_to_log_entry(q) \in 1 .. Len(log)
        BY <2>3, <4>1
      <4>4. CASE path_to_log_entry(q) = 0
        BY <4>1, <4>2, <4>4 DEF Shown
      <4>5. CASE path_to_log_entry(q) \in 1 .. Len(log)
        BY <2>3, <4>1, <4>2, <4>5 DEF Shown
      <4> QED BY <4>3, <4>4, <4>5
    <3>13. Tree' = [Tree EXCEPT ![p] = node]
      <4> HIDE DEF node
      <4> QED BY <2>5, <3>11, <3>12 DEF TreeShown
    <3>14. Tree[Front(p)] = Dir
      <4>1. Front(p) \in Paths /\ Last(p) \in Names
        BY <3>6
      <4>2. f # 0
        <5>1. e.ino # -1
          BY <2>2
        <5> QED BY <2>7, <2>5, <4>1, <5>1 DEF NullNumber
      <4>3. f \in 1 .. Len(log)
        BY <1>1, <2>5, <4>1, <4>2 DEF PathsFound, Logged
      <4>4. \E a \in 1 .. Len(log[f].dents) : TRUE
        <5>1. f \in 0 .. Len(log) /\ get_inode_number(Last(p), f) # -1
          BY <2>7, <2>2, <4>3
        <5> HIDE DEF f
        <5> QED BY <1>1, <4>1, <5>1, NumberIs DEF FirstFound
      <4>5. log[f].kind = "dir"
        <5>1. log[f].dents # <<>>
          BY <4>4
        <5> QED BY <1>1, <4>3, <5>1, LogFields, EntryFields DEF TreeInv, IInv, Removable, Fields
      <4> QED BY <2>5, <3>6, <4>2, <4>5 DEF TreeShown, Shown
    <3>15. Promise!Parent(p) = Front(p)
      BY DEF Promise!Parent, Front
    <3>16. Promise!Create(p, node)
      <4> HIDE DEF node
      <4> QED BY <3>10, <3>13, <3>14, <3>15 DEF Promise!Create
    <3>17. node = Dir \/ node = <<>>
      OBVIOUS
    <3> QED BY <3>16, <3>17
  <2>8. ASSUME \A p \in ShortPaths \ {<<>>} : ~named(p)
        PROVE  UNCHANGED Tree
    <3>1. ASSUME NEW q \in ShortPaths PROVE Tree'[q] = Tree[q]
      <4>1. path_to_log_entry(q)' = path_to_log_entry(q) /\ path_to_log_entry(q) \in 0 .. Len(log)
        BY <2>4, <2>5, <2>8, ShortParts DEF Arrives, PathsFound
      <4>2. Tree[q] = Shown(path_to_log_entry(q)) /\ Tree'[q] = (Shown(path_to_log_entry(q)))'
        BY <2>5 DEF TreeShown
      <4>3. path_to_log_entry(q) = 0 \/ path_to_log_entry(q) \in 1 .. Len(log)
        BY <2>3, <4>1
      <4> QED BY <2>3, <4>1, <4>2, <4>3 DEF Shown
    <3> QED BY <2>5, <3>1 DEF TreeShown
  <2> QED BY <2>7, <2>8
<1>4. CASE DieAppending(creating)
  BY <1>4, SameLogRefines DEF DieAppending, DieHaving
<1> QED BY <1>3, <1>4 DEF AppendInode, AppendEntry

LEMMA StepRefines ==
    ASSUME Calm, TreeInv, TreeInv', [Next]_vars
    PROVE  [Promise!Next]_<<Tree, stale = {}>>
<1>1. ASSUME UNCHANGED Tree PROVE [Promise!Next]_<<Tree, stale = {}>>
  BY <1>1 DEF Promise!Next
<1>2. ASSUME NEW path \in Paths \ {<<>>}, my_mknod(path) \/ my_mkdir(path) PROVE UNCHANGED Tree
  BY <1>2, CreateRefines DEF my_mknod, my_mkdir
<1>3. ASSUME NEW path \in Paths \ {<<>>}, wfs_unlink(path) PROVE FALSE
  BY <1>3 DEF wfs_unlink, Calm
<1>4. ASSUME NEW path \in Paths \ {<<>>}, NEW off \in Offsets, NEW b \in Blocks, my_write(path, off, b)
      PROVE  Promise!Next \/ UNCHANGED Tree
  <2>1. (\E p \in ShortPaths \ {<<>>} : Promise!Write(p, off, b)) \/ UNCHANGED Tree
    BY <1>4, WriteRefines
  <2>2. UNCHANGED log \/ (stale = {} => stale' = {})
    BY <1>4 DEF my_write, AppendEntry, DieAppending, DieHaving
  <2>3. UNCHANGED log => UNCHANGED Tree
    BY SameLogRefines
  <2> QED BY <2>1, <2>2, <2>3 DEF Promise!Next, Promise!Operation
<1>5. ASSUME AppendInode PROVE Promise!Next \/ UNCHANGED Tree
  <2>1. \/ \E p \in ShortPaths \ {<<>>} : Promise!Create(p, Dir) \/ Promise!Create(p, <<>>)
        \/ UNCHANGED Tree
    BY <1>5, AppendInodeRefines
  <2>2. UNCHANGED log \/ (stale = {} => stale' = {})
    BY <1>5 DEF AppendInode, AppendEntry, DieAppending, DieHaving
  <2>3. UNCHANGED log => UNCHANGED Tree
    BY SameLogRefines
  <2> QED BY <2>1, <2>2, <2>3 DEF Promise!Next, Promise!Operation
<1>6. ASSUME NEW path \in Paths, my_readdir(path) PROVE UNCHANGED Tree
  BY <1>6, SameLogRefines DEF my_readdir, Die, DieHaving
<1>7. ASSUME Crash \/ Mount \/ UNCHANGED vars PROVE UNCHANGED Tree
  BY <1>7, SameLogRefines DEF Crash, Mount, Die, DieHaving, vars
<1> QED BY <1>1, <1>2, <1>3, <1>4, <1>5, <1>6, <1>7 DEF Next

(* Where nothing is removed and no signal kills the program, the log is    *)
(* the tree of paths p7/README.md promises, for the paths of short names:  *)
(* every operation changes one path, a creation's two appends take effect  *)
(* together with the second, and what does not fit changes nothing but     *)
(* what is read, later, in a gap.                                          *)
THEOREM TheLogIsATree ==
    ASSUME Calm
    PROVE  Spec => ImplementsFileSystem
<1>1. TreeInv /\ TreeInv' /\ [Next]_vars => [Promise!Next]_<<Tree, stale = {}>>
  BY StepRefines
<1> QED BY <1>1, InitRefines, TreeInvariance, PTL DEF Spec, ImplementsFileSystem, Promise!Spec
=============================================================================
