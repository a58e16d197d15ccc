----------------------------- MODULE LayoutProofs -----------------------------
(***************************************************************************)
(* The proof that the layout memory keeps what it is told: the entry of the *)
(* present topology has the counts the user sees, and a known topology that *)
(* comes back finds its windows and its spaces where it left them.  For     *)
(* every set of windows, displays and topologies and every size of the      *)
(* store.                                                                   *)
(***************************************************************************)
EXTENDS LayoutProperties, TLAPS

-----------------------------------------------------------------------------
(* The invariant *)

\* Rows have a current space, and windows are tracked on spaces that exist.
IsMgr(g) ==
  /\ g \in Mgr
  /\ \A m \in g.table : g.rows[m] \in 1..MaxSpaces /\ g.current[m] \in 1..g.rows[m]
  /\ \A w \in Windows : g.home[w] # None =>
       g.home[w][1] \in g.table /\ g.home[w][2] \in 1..g.rows[g.home[w][1]]

\* A snapshot can be replayed on the displays it was taken of.  Its places and
\* its current spaces may lie past the end of a row shortened since.
IsSnapshot(s) ==
  /\ s \in Snapshot
  /\ \A m \in s.sig : s.rows[m] \in 1..MaxSpaces /\ s.current[m] \in 1..MaxSpaces
  /\ \A w \in Windows : s.home[w] # None => s.home[w][1] \in s.sig

\* One entry a topology, and no more of them than the limit.
IsStore(L) ==
  /\ L \in Store /\ Len(L) <= MaxTopologies
  /\ \A k \in DOMAIN L : IsSnapshot(L[k])
  /\ \A j, k \in DOMAIN L : L[j].sig = L[k].sig => j = k

\* A snapshot of the manager's displays with the manager's counts.
Counts(s, g) == s.sig = g.table /\ \A m \in g.table : s.rows[m] = g.rows[m]

IsApp(a, g) ==
  /\ a \in App /\ IsStore(a.layouts)
  /\ a.lastSig = g.table
  /\ a.shadow # None => IsSnapshot(a.shadow) /\ Counts(a.shadow, g)
  /\ (Stored(a.layouts, g.table) /\ g.table # Remote) => Counts(Entry(a.layouts, g.table), g)

LayoutInv ==
  /\ at \in [Windows -> Monitors \cup {None}]
  /\ plugged \in Topologies
  /\ IsMgr(mgr) /\ IsApp(app, mgr) /\ IsStore(disk)
  /\ ~running => mgr = NoMgr /\ app = NoApp /\ ~enforcing /\ ~settling
  /\ {notice, pending, settling, enforcing, running} \subseteq BOOLEAN

-----------------------------------------------------------------------------
(* The store *)

\* The entry found for a topology is an entry of the store, the only one of it.
LEMMA EntryFound ==
  ASSUME NEW L, IsStore(L), NEW sig, Stored(L, sig)
  PROVE  /\ Slot(L, sig) \in DOMAIN L
         /\ Entry(L, sig).sig = sig
         /\ IsSnapshot(Entry(L, sig))
         /\ \A k \in DOMAIN L : L[k].sig = sig => k = Slot(L, sig)
  <1>1. Slot(L, sig) \in DOMAIN L /\ L[Slot(L, sig)].sig = sig
    BY DEF Stored, Slot
  <1> QED
    BY <1>1 DEF IsStore, Entry

\* The entry is whatever entry of the store has the topology.
LEMMA EntryIs ==
  ASSUME NEW L, IsStore(L), NEW k \in DOMAIN L
  PROVE  Stored(L, L[k].sig) /\ Entry(L, L[k].sig) = L[k]
  <1>1. Stored(L, L[k].sig)
    BY DEF Stored
  <1>2. k = Slot(L, L[k].sig)
    BY <1>1, EntryFound
  <1> QED
    BY <1>1, <1>2 DEF Entry

\* Removing an element leaves the others, in their order.
LEMMA RemoveAtLeaves ==
  ASSUME NEW S, NEW L \in Seq(S), NEW i \in 1..Len(L)
  PROVE  /\ RemoveAt(L, i) \in Seq(S)
         /\ Len(RemoveAt(L, i)) = Len(L) - 1
         /\ \A k \in 1..Len(L) - 1 : RemoveAt(L, i)[k] = L[IF k < i THEN k ELSE k + 1]
  <1> DEFINE before == SubSeq(L, 1, i - 1)
             after  == SubSeq(L, i + 1, Len(L))
  <1>1. Len(L) \in Nat /\ i \in Nat /\ 1 <= i /\ i <= Len(L)
    OBVIOUS
  <1>2. /\ before \in Seq(S) /\ Len(before) = i - 1
        /\ \A k \in 1..i - 1 : before[k] = L[k]
    BY <1>1
  <1>3. /\ after \in Seq(S) /\ Len(after) = Len(L) - i
        /\ \A k \in 1..Len(L) - i : after[k] = L[k + i]
    BY <1>1
  <1>4. RemoveAt(L, i) = before \o after
    BY DEF RemoveAt
  <1> HIDE DEF before, after
  <1>5. before \o after \in Seq(S) /\ Len(before \o after) = Len(L) - 1
    <2>1. before \o after \in Seq(S)
      BY <1>2, <1>3
    <2>2. \A p, q \in Seq(S) : Len(p \o q) = Len(p) + Len(q)
      OBVIOUS
    <2>3. Len(before \o after) = Len(before) + Len(after)
      BY <1>2, <1>3, <2>2, Zenon
    <2>4. (i - 1) + (Len(L) - i) = Len(L) - 1
      BY <1>1
    <2> QED
      BY <1>2, <1>3, <2>1, <2>3, <2>4, Zenon
  <1>6. ASSUME NEW k \in 1..Len(L) - 1
        PROVE  (before \o after)[k] = L[IF k < i THEN k ELSE k + 1]
    <2>1. CASE k < i
      BY <1>1, <1>2, <1>3, <2>1
    <2>2. CASE ~(k < i)
      <3>1. (before \o after)[k] = after[k - (i - 1)]
        BY <1>1, <1>2, <1>3, <2>2
      <3>2. k - (i - 1) \in 1..Len(L) - i /\ (k - (i - 1)) + i = k + 1
        BY <1>1, <2>2
      <3> QED
        BY <1>3, <2>2, <3>1, <3>2
    <2> QED
      BY <2>1, <2>2
  <1> QED
    BY <1>4, <1>5, <1>6

\* What is left of a store is a store, its entries are of the store.
LEMMA PartIsStore ==
  ASSUME NEW L, IsStore(L), NEW T \in Seq(Snapshot), Len(T) <= Len(L),
         NEW f \in [DOMAIN T -> DOMAIN L],
         \A k \in DOMAIN T : T[k] = L[f[k]],
         \A j, k \in DOMAIN T : f[j] = f[k] => j = k
  PROVE  IsStore(T)
  <1>1. T \in Store /\ Len(T) <= MaxTopologies
    BY LayoutAssumption DEF IsStore, Store
  <1>2. \A k \in DOMAIN T : IsSnapshot(T[k])
    BY DEF IsStore
  <1>3. \A j, k \in DOMAIN T : T[j].sig = T[k].sig => j = k
    BY DEF IsStore
  <1> QED
    BY <1>1, <1>2, <1>3 DEF IsStore

\* There is room for an entry where Without leaves none for its topology.
LEMMA WithoutLeaves ==
  ASSUME NEW L, IsStore(L), NEW sig
  PROVE  /\ IsStore(Without(L, sig)) /\ ~Stored(Without(L, sig), sig)
         /\ Len(Without(L, sig)) < MaxTopologies
  <1> DEFINE T == Without(L, sig)
  <1>0. /\ L \in Seq(Snapshot) /\ Len(L) \in Nat /\ DOMAIN L = 1..Len(L)
        /\ Len(L) <= MaxTopologies /\ MaxTopologies \in Nat \ {0}
    BY LayoutAssumption DEF IsStore, Store
  <1>1. CASE Stored(L, sig)
    <2> DEFINE i    == Slot(L, sig)
               f    == [k \in 1..Len(L) - 1 |-> IF k < i THEN k ELSE k + 1]
    <2>1. /\ i \in 1..Len(L)
          /\ \A k \in DOMAIN L : L[k].sig = sig => k = i
      BY <1>0, <1>1, EntryFound
    <2>2. T = RemoveAt(L, i)
      BY <1>1 DEF Without
    <2> HIDE DEF i, T
    <2>3. /\ T \in Seq(Snapshot) /\ Len(T) = Len(L) - 1
          /\ \A k \in 1..Len(L) - 1 : T[k] = L[IF k < i THEN k ELSE k + 1]
      BY <1>0, <2>1, <2>2, RemoveAtLeaves
    <2>4. DOMAIN T = 1..Len(L) - 1
      BY <2>3
    <2>5. \A k \in DOMAIN T : f[k] \in DOMAIN L /\ f[k] # i /\ T[k] = L[f[k]]
      BY <1>0, <2>1, <2>3, <2>4
    <2>6. f \in [DOMAIN T -> DOMAIN L]
      BY <2>4, <2>5
    <2>7. \A j, k \in DOMAIN T : f[j] = f[k] => j = k
      BY <1>0, <2>1, <2>4
    <2>8. IsStore(T)
      <3> HIDE DEF f
      <3> QED BY <1>0, <2>3, <2>5, <2>6, <2>7, PartIsStore
    <2>9. ~Stored(T, sig)
      BY <2>1, <2>5 DEF Stored
    <2> QED
      BY <1>0, <2>3, <2>8, <2>9 DEF T
  <1>2. CASE ~Stored(L, sig) /\ Len(L) < MaxTopologies
    BY <1>2 DEF Without
  <1>3. CASE ~Stored(L, sig) /\ ~(Len(L) < MaxTopologies)
    <2> DEFINE f == [k \in 1..Len(L) - 1 |-> k + 1]
    <2>1. T = Tail(L)
      BY <1>3 DEF Without
    <2> HIDE DEF T
    <2>2. Len(L) = MaxTopologies /\ Len(L) > 0
      <3>1. ~(Len(L) < MaxTopologies)
        BY <1>3
      <3>2. \A j, k \in Nat : j <= k /\ ~(j < k) /\ k # 0 => j = k /\ j > 0
        OBVIOUS
      <3> QED BY <1>0, <3>1, <3>2, Zenon
    <2>3. /\ T \in Seq(Snapshot) /\ Len(T) = Len(L) - 1
          /\ \A k \in 1..Len(L) - 1 : T[k] = L[k + 1]
      BY <1>0, <2>1, <2>2
    <2>4. DOMAIN T = 1..Len(L) - 1
      BY <2>3
    <2>5. \A k \in DOMAIN T : f[k] \in DOMAIN L /\ T[k] = L[f[k]]
      BY <1>0, <2>3, <2>4
    <2>6. f \in [DOMAIN T -> DOMAIN L]
      BY <2>4, <2>5
    <2>7. \A j, k \in DOMAIN T : f[j] = f[k] => j = k
      BY <1>0, <2>4
    <2>8. IsStore(T)
      <3> HIDE DEF f
      <3> QED BY <1>0, <2>3, <2>5, <2>6, <2>7, PartIsStore
    <2>9. ~Stored(T, sig)
      BY <1>3, <2>5 DEF Stored
    <2> QED
      BY <2>2, <2>3, <2>8, <2>9, <1>0 DEF T
  <1> QED
    BY <1>1, <1>2, <1>3

\* An entry put into the store is found there, and the store stays one.
LEMMA UpsertKeeps ==
  ASSUME NEW L, IsStore(L), NEW s, IsSnapshot(s)
  PROVE  /\ IsStore(Upsert(L, s))
         /\ Stored(Upsert(L, s), s.sig)
         /\ Entry(Upsert(L, s), s.sig) = s
  <1> DEFINE T == Without(L, s.sig)
             U == Append(T, s)
  <1>1. IsStore(T) /\ ~Stored(T, s.sig) /\ Len(T) < MaxTopologies
    BY WithoutLeaves
  <1>2. Upsert(L, s) = U
    BY DEF Upsert
  <1>3. T \in Seq(Snapshot) /\ Len(T) \in Nat /\ DOMAIN T = 1..Len(T) /\ s \in Snapshot
    BY <1>1 DEF IsStore, Store, IsSnapshot
  <1> HIDE DEF T
  <1>4. /\ U \in Seq(Snapshot) /\ Len(U) = Len(T) + 1 /\ DOMAIN U = 1..Len(T) + 1
        /\ U[Len(T) + 1] = s /\ \A k \in 1..Len(T) : U[k] = T[k]
    BY <1>3
  <1> HIDE DEF U
  <1>5. \A k \in DOMAIN U : IsSnapshot(U[k])
    BY <1>1, <1>3, <1>4 DEF IsStore
  <1>6. \A k \in 1..Len(T) : U[k].sig # s.sig
    BY <1>1, <1>3, <1>4 DEF Stored
  <1>7. ASSUME NEW j \in DOMAIN U, NEW k \in DOMAIN U, U[j].sig = U[k].sig
        PROVE  j = k
    <2>1. CASE j \in 1..Len(T) /\ k \in 1..Len(T)
      BY <1>1, <1>3, <1>4, <1>7, <2>1 DEF IsStore
    <2>2. CASE j = Len(T) + 1 \/ k = Len(T) + 1
      BY <1>3, <1>4, <1>6, <1>7, <2>2
    <2> QED
      BY <1>3, <1>4, <2>1, <2>2
  <1>8. IsStore(U)
    BY <1>1, <1>3, <1>4, <1>5, <1>7, LayoutAssumption DEF IsStore, Store
  <1>9. Len(T) + 1 \in DOMAIN U
    BY <1>3, <1>4
  <1> QED
    BY <1>2, <1>4, <1>8, <1>9, EntryIs

-----------------------------------------------------------------------------
(* The manager *)

LEMMA ClampedFits ==
  ASSUME NEW i \in Nat \ {0}, NEW n \in Nat \ {0}
  PROVE  Clamped(i, n) \in 1..n
  BY DEF Clamped

\* A manager, taken apart and put together.
LEMMA MgrParts ==
  ASSUME NEW g \in Mgr
  PROVE  /\ g.table \subseteq Monitors
         /\ g.rows \in [Monitors -> Nat] /\ g.current \in [Monitors -> Nat]
         /\ g.home \in [Windows -> Places \cup {None}]
         /\ g.targets \in [Windows -> Places \cup {None}]
         /\ \A w \in Windows : g.home[w] # None =>
              g.home[w] = <<g.home[w][1], g.home[w][2]>>
              /\ g.home[w][1] \in Monitors /\ g.home[w][2] \in 1..MaxSpaces
  <1>1. /\ g.table \subseteq Monitors
        /\ g.rows \in [Monitors -> Nat] /\ g.current \in [Monitors -> Nat]
        /\ g.home \in [Windows -> Places \cup {None}]
        /\ g.targets \in [Windows -> Places \cup {None}]
    BY DEF Mgr
  <1>2. \A p \in Places : p = <<p[1], p[2]>> /\ p[1] \in Monitors /\ p[2] \in 1..MaxSpaces
    BY DEF Places
  <1>3. \A w \in Windows : g.home[w] # None => g.home[w] \in Places
    BY <1>1
  <1> QED
    BY <1>1, <1>2, <1>3

LEMMA SnapshotParts ==
  ASSUME NEW s \in Snapshot
  PROVE  /\ s.sig \subseteq Monitors
         /\ s.rows \in [Monitors -> Nat] /\ s.current \in [Monitors -> Nat]
         /\ s.home \in [Windows -> Places \cup {None}]
         /\ \A w \in Windows : s.home[w] # None =>
              s.home[w] = <<s.home[w][1], s.home[w][2]>>
              /\ s.home[w][1] \in Monitors /\ s.home[w][2] \in 1..MaxSpaces
  <1>1. /\ s.sig \subseteq Monitors
        /\ s.rows \in [Monitors -> Nat] /\ s.current \in [Monitors -> Nat]
        /\ s.home \in [Windows -> Places \cup {None}]
    BY DEF Snapshot
  <1>2. \A p \in Places : p = <<p[1], p[2]>> /\ p[1] \in Monitors /\ p[2] \in 1..MaxSpaces
    BY DEF Places
  <1>3. \A w \in Windows : s.home[w] # None => s.home[w] \in Places
    BY <1>1
  <1> QED
    BY <1>1, <1>2, <1>3

\* A place in a row that is long enough.
LEMMA PlaceIn ==
  ASSUME NEW m \in Monitors, NEW n \in 1..MaxSpaces, NEW i \in 1..n
  PROVE  <<m, i>> \in Places /\ <<m, i>>[1] = m /\ <<m, i>>[2] = i
  BY LayoutAssumption DEF Places

\* The counts of a snapshot are applied to the displays it knows, and every
\* index is brought into its row.
LEMMA WithCountsSound ==
  ASSUME NEW g, IsMgr(g), NEW s, IsSnapshot(s)
  PROVE  /\ IsMgr(WithCounts(g, s))
         /\ WithCounts(g, s).table = g.table
         /\ WithCounts(g, s).targets = g.targets
         /\ \A m \in g.table \cap s.sig : WithCounts(g, s).rows[m] = s.rows[m]
  <1> DEFINE known     == g.table \cap s.sig
             idx(m, i) == IF m \in known THEN Clamped(i, s.rows[m]) ELSE i
             rows      == [m \in Monitors |-> IF m \in known THEN s.rows[m] ELSE g.rows[m]]
             current   == [m \in Monitors |-> idx(m, g.current[m])]
             home      == [w \in Windows |->
                             IF g.home[w] = None THEN None
                             ELSE <<g.home[w][1], idx(g.home[w][1], g.home[w][2])>>]
             h         == [g EXCEPT !.rows = rows, !.current = current, !.home = home]
  <1>0. g \in Mgr /\ s \in Snapshot
    BY DEF IsMgr, IsSnapshot
  <1>1. WithCounts(g, s) = h
    BY DEF WithCounts
  <1>2. /\ h.table = g.table /\ h.rows = rows /\ h.current = current
        /\ h.home = home /\ h.targets = g.targets
    BY <1>0 DEF Mgr
  <1>3. rows \in [Monitors -> Nat] /\ \A m \in g.table : rows[m] \in 1..MaxSpaces
    <2>1. \A m \in g.table : m \in Monitors /\ g.rows[m] \in 1..MaxSpaces
      BY <1>0, MgrParts DEF IsMgr
    <2>2. \A m \in known : s.rows[m] \in 1..MaxSpaces
      BY DEF IsSnapshot
    <2>3. g.rows \in [Monitors -> Nat] /\ s.rows \in [Monitors -> Nat]
      BY <1>0, MgrParts, SnapshotParts
    <2> QED
      BY <2>1, <2>2, <2>3
  <1>4. \A m \in g.table, i \in Nat \ {0} :
          (i <= g.rows[m] \/ m \in known) => idx(m, i) \in 1..rows[m]
    <2> SUFFICES ASSUME NEW m \in g.table, NEW i \in Nat \ {0},
                        i <= g.rows[m] \/ m \in known
                 PROVE  idx(m, i) \in 1..rows[m]
      OBVIOUS
    <2>1. m \in Monitors /\ g.rows[m] \in 1..MaxSpaces
      BY <1>0, MgrParts DEF IsMgr
    <2>2. CASE m \in known
      <3>1. s.rows[m] \in 1..MaxSpaces
        BY <2>2 DEF IsSnapshot
      <3>2. s.rows[m] \in Nat \ {0}
        BY <3>1
      <3> QED
        BY <2>1, <2>2, <3>2, ClampedFits
    <2>3. CASE m \notin known
      BY <2>1, <2>3
    <2> QED
      BY <2>2, <2>3
  <1>5. /\ current \in [Monitors -> Nat]
        /\ \A m \in g.table : current[m] \in 1..rows[m]
    <2>1. \A m \in g.table : m \in Monitors /\ current[m] \in 1..rows[m]
      <3> SUFFICES ASSUME NEW m \in g.table
                   PROVE  m \in Monitors /\ current[m] \in 1..rows[m]
        OBVIOUS
      <3>1. m \in Monitors /\ g.rows[m] \in 1..MaxSpaces /\ g.current[m] \in 1..g.rows[m]
        BY <1>0, MgrParts DEF IsMgr
      <3>2. g.current[m] \in Nat \ {0} /\ g.current[m] <= g.rows[m]
        BY <3>1
      <3>3. current[m] = idx(m, g.current[m])
        BY <3>1
      <3> HIDE DEF idx, current, rows
      <3> QED
        BY <1>4, <3>1, <3>2, <3>3
    <2>2. \A m \in Monitors \ g.table : current[m] = g.current[m]
      OBVIOUS
    <2>3. \A m \in Monitors : current[m] \in Nat
      <3> HIDE DEF current, rows
      <3> QED BY <1>0, <1>3, <2>1, <2>2, MgrParts
    <2> QED
      BY <2>1, <2>3
  <1>6. \A w \in Windows : home[w] # None =>
          /\ home[w] \in Places /\ home[w][1] \in g.table
          /\ home[w][2] \in 1..rows[home[w][1]]
    <2> SUFFICES ASSUME NEW w \in Windows, home[w] # None
                 PROVE  /\ home[w] \in Places /\ home[w][1] \in g.table
                        /\ home[w][2] \in 1..rows[home[w][1]]
      OBVIOUS
    <2> DEFINE m == g.home[w][1]
               i == g.home[w][2]
    <2>1. g.home[w] # None /\ home[w] = <<m, idx(m, i)>>
      OBVIOUS
    <2>2. m \in g.table /\ m \in Monitors /\ i \in 1..g.rows[m] /\ g.rows[m] \in 1..MaxSpaces
      BY <1>0, <2>1, MgrParts DEF IsMgr
    <2>3. i \in Nat \ {0} /\ i <= g.rows[m]
      BY <2>2
    <2> HIDE DEF idx, home, rows, m, i
    <2>4. idx(m, i) \in 1..rows[m] /\ rows[m] \in 1..MaxSpaces
      BY <1>3, <1>4, <2>2, <2>3
    <2> QED
      BY <2>1, <2>2, <2>4, PlaceIn
  <1>7. home \in [Windows -> Places \cup {None}]
    <2>1. \A w \in Windows : home[w] \in Places \cup {None}
      BY <1>6
    <2>2. home = [w \in Windows |-> home[w]]
      OBVIOUS
    <2> HIDE DEF home
    <2> QED
      BY <2>1, <2>2
  <1>8. \A m \in known : rows[m] = s.rows[m]
    BY <1>0, MgrParts
  <1> HIDE DEF rows, current, home
  <1>10. h \in Mgr
    BY <1>0, <1>3, <1>5, <1>7 DEF Mgr
  <1> HIDE DEF h
  <1>11. IsMgr(h)
    BY <1>2, <1>3, <1>5, <1>6, <1>10 DEF IsMgr
  <1> QED
    BY <1>1, <1>2, <1>8, <1>11

\* What a manager with other homes needs: each of them is an old one, or a
\* place in a row there is.
LEMMA Rehomed ==
  ASSUME NEW g, IsMgr(g), NEW home, NEW targets \in [Windows -> Places \cup {None}],
         home = [w \in Windows |-> home[w]],
         \A w \in Windows :
           \/ home[w] = g.home[w] \/ home[w] = None
           \/ \E m \in g.table : \E i \in 1..g.rows[m] : home[w] = <<m, i>>
  PROVE  /\ IsMgr([g EXCEPT !.home = home, !.targets = targets])
         /\ home \in [Windows -> Places \cup {None}]
  <1> DEFINE h == [g EXCEPT !.home = home, !.targets = targets]
  <1>0. g \in Mgr /\ g.table \subseteq Monitors
    BY MgrParts DEF IsMgr
  <1>1. \A w \in Windows : home[w] # None =>
          /\ home[w] \in Places /\ home[w][1] \in g.table
          /\ home[w][2] \in 1..g.rows[home[w][1]]
    <2> SUFFICES ASSUME NEW w \in Windows, home[w] # None
                 PROVE  /\ home[w] \in Places /\ home[w][1] \in g.table
                        /\ home[w][2] \in 1..g.rows[home[w][1]]
      OBVIOUS
    <2>1. CASE home[w] = g.home[w]
      BY <1>0, <2>1, MgrParts DEF IsMgr
    <2>2. CASE \E m \in g.table : \E i \in 1..g.rows[m] : home[w] = <<m, i>>
      <3>1. PICK m \in g.table : \E i \in 1..g.rows[m] : home[w] = <<m, i>>
        BY <2>2
      <3>2. PICK i \in 1..g.rows[m] : home[w] = <<m, i>>
        BY <3>1
      <3>3. m \in Monitors /\ g.rows[m] \in 1..MaxSpaces
        BY <1>0 DEF IsMgr
      <3> QED
        BY <3>2, <3>3, PlaceIn
    <2> QED
      BY <2>1, <2>2
  <1>2. home \in [Windows -> Places \cup {None}]
    BY <1>1
  <1>3. /\ h.table = g.table /\ h.rows = g.rows /\ h.current = g.current
        /\ h.home = home /\ h \in Mgr
    BY <1>0, <1>2 DEF Mgr
  <1> HIDE DEF h
  <1>4. IsMgr(h)
    BY <1>1, <1>2, <1>3 DEF IsMgr
  <1> QED
    BY <1>2, <1>4 DEF h

\* A row with another current space.
LEMMA Recurrent ==
  ASSUME NEW g, IsMgr(g), NEW current \in [Monitors -> Nat],
         \A m \in g.table : current[m] \in 1..g.rows[m]
  PROVE  IsMgr([g EXCEPT !.current = current])
  <1> DEFINE h == [g EXCEPT !.current = current]
  <1>1. /\ h.table = g.table /\ h.rows = g.rows /\ h.current = current
        /\ h.home = g.home /\ h \in Mgr
    BY DEF Mgr, IsMgr
  <1> HIDE DEF h
  <1>2. IsMgr(h)
    BY <1>1 DEF IsMgr
  <1> QED
    BY <1>2 DEF h

LEMMA AdoptedSound ==
  ASSUME NEW g, IsMgr(g)
  PROVE  /\ IsMgr(Adopted(g)) /\ Adopted(g).targets = g.targets
         /\ Adopted(g).table = g.table /\ Adopted(g).rows = g.rows
         /\ Adopted(g).current = g.current
  <1> DEFINE home == [w \in Windows |->
                        IF at[w] = None THEN None
                        ELSE IF g.home[w] = None /\ at[w] \in g.table
                             THEN <<at[w], g.current[at[w]]>> ELSE g.home[w]]
  <1>0. g \in Mgr
    BY DEF IsMgr
  <1>1. Adopted(g) = [g EXCEPT !.home = home]
    BY DEF Adopted
  <1>2. \A w \in Windows :
          \/ home[w] = g.home[w] \/ home[w] = None
          \/ \E m \in g.table : \E i \in 1..g.rows[m] : home[w] = <<m, i>>
    BY DEF IsMgr
  <1>3. home = [w \in Windows |-> home[w]]
    OBVIOUS
  <1> HIDE DEF home
  <1>4. IsMgr([g EXCEPT !.home = home, !.targets = g.targets])
    BY <1>0, <1>2, <1>3, MgrParts, Rehomed
  <1>5. [g EXCEPT !.home = home, !.targets = g.targets] = [g EXCEPT !.home = home]
    BY <1>0 DEF Mgr
  <1>6. /\ [g EXCEPT !.home = home].table = g.table
        /\ [g EXCEPT !.home = home].rows = g.rows
        /\ [g EXCEPT !.home = home].current = g.current
        /\ [g EXCEPT !.home = home].targets = g.targets
    BY <1>0 DEF Mgr
  <1> QED
    BY <1>1, <1>4, <1>5, <1>6

\* The table becomes the attached displays; one that stays keeps its row.
LEMMA RebuiltSound ==
  ASSUME NEW g, IsMgr(g), plugged \subseteq Monitors
  PROVE  /\ IsMgr(Rebuilt(g)) /\ Rebuilt(g).table = plugged
         /\ \A m \in plugged \cap g.table : Rebuilt(g).rows[m] = g.rows[m]
  <1> DEFINE fresh == plugged \ g.table
             loose == {w \in Windows : g.home[w] # None /\ g.home[w][1] \notin plugged}
             rows  == [m \in Monitors |-> IF m \notin plugged THEN 0
                                          ELSE IF m \in fresh THEN DefaultSpaces
                                          ELSE g.rows[m]]
             current == [m \in Monitors |-> IF m \in plugged \ fresh
                                            THEN g.current[m] ELSE 1]
             home == [w \in Windows |-> IF w \in loose THEN None ELSE g.home[w]]
             h == [g EXCEPT !.table = plugged, !.rows = rows, !.current = current,
                            !.home = home]
  <1>0. g \in Mgr
    BY DEF IsMgr
  <1>1. Rebuilt(g) = Adopted(h)
    BY DEF Rebuilt
  <1>2. /\ rows \in [Monitors -> Nat] /\ current \in [Monitors -> Nat]
        /\ \A m \in plugged : rows[m] \in 1..MaxSpaces /\ current[m] \in 1..rows[m]
    <2>1. DefaultSpaces \in 1..MaxSpaces /\ MaxSpaces \in Nat
      BY LayoutAssumption
    <2>2. g.rows \in [Monitors -> Nat] /\ g.current \in [Monitors -> Nat]
      BY <1>0, MgrParts
    <2>3. \A m \in g.table : g.rows[m] \in 1..MaxSpaces /\ g.current[m] \in 1..g.rows[m]
      BY DEF IsMgr
    <2>4. rows \in [Monitors -> Nat] /\ current \in [Monitors -> Nat]
      BY <2>1, <2>2
    <2>5. ASSUME NEW m \in plugged
          PROVE  rows[m] \in 1..MaxSpaces /\ current[m] \in 1..rows[m]
      <3>1. CASE m \in g.table
        BY <2>3, <3>1
      <3>2. CASE m \notin g.table
        BY <2>1, <3>2
      <3> QED BY <3>1, <3>2
    <2> QED
      BY <2>4, <2>5
  <1>3. \A w \in Windows : home[w] # None =>
          /\ home[w] = g.home[w] /\ home[w][1] \in plugged \cap g.table
          /\ home[w][2] \in 1..g.rows[home[w][1]]
    BY DEF IsMgr
  <1>4. home \in [Windows -> Places \cup {None}]
    BY <1>0, MgrParts
  <1>5. \A m \in plugged \cap g.table : rows[m] = g.rows[m]
    OBVIOUS
  <1> HIDE DEF home, rows, current
  <1>6. /\ h \in Mgr /\ h.table = plugged /\ h.rows = rows /\ h.current = current
        /\ h.home = home
    BY <1>0, <1>2, <1>4 DEF Mgr
  <1> HIDE DEF h
  <1>7. IsMgr(h)
    BY <1>2, <1>3, <1>5, <1>6 DEF IsMgr
  <1> QED
    BY <1>1, <1>5, <1>6, <1>7, AdoptedSound

\* What is replayed: rows as long as they were, and what was in them.
LEMMA ReplayedSound ==
  ASSUME NEW g, IsMgr(g), NEW s, IsSnapshot(s)
  PROVE  /\ IsMgr(Replayed(g, s)) /\ Replayed(g, s).table = g.table
         /\ \A m \in g.table \cap s.sig :
              /\ Replayed(g, s).rows[m] = s.rows[m]
              /\ Replayed(g, s).current[m] = Clamped(s.current[m], s.rows[m])
         /\ \A w \in Placed(g, s) :
              Replayed(g, s).home[w] =
                <<s.home[w][1], Clamped(s.home[w][2], s.rows[s.home[w][1]])>>
  <1> DEFINE sized   == WithCounts(g, s)
             to(w)   == <<s.home[w][1], Clamped(s.home[w][2], sized.rows[s.home[w][1]])>>
             put     == Placed(g, s)
             home    == [w \in Windows |-> IF w \in put THEN to(w) ELSE sized.home[w]]
             targets == [w \in Windows |-> IF w \in put THEN s.home[w] ELSE None]
             current == [m \in Monitors |-> IF m \in g.table \cap s.sig
                                            THEN Clamped(s.current[m], sized.rows[m])
                                            ELSE sized.current[m]]
             h       == [sized EXCEPT !.home = home, !.targets = targets]
  <1>0. g \in Mgr /\ s \in Snapshot
    BY DEF IsMgr, IsSnapshot
  <1>1. /\ IsMgr(sized) /\ sized.table = g.table
        /\ \A m \in g.table \cap s.sig : sized.rows[m] = s.rows[m]
    BY WithCountsSound
  <1>2. Replayed(g, s) = [sized EXCEPT !.home = home, !.targets = targets,
                                       !.current = current]
    BY DEF Replayed
  <1> HIDE DEF sized
  <1>3. sized \in Mgr
    BY <1>1 DEF IsMgr
  <1>4. \A w \in put : /\ w \in Windows /\ s.home[w] # None
                       /\ s.home[w][1] \in g.table \cap s.sig
                       /\ s.home[w][2] \in Nat \ {0}
    <2>1. \A w \in put : w \in Windows /\ s.home[w] # None /\ s.home[w][1] \in g.table
      BY DEF Placed
    <2>2. \A w \in put : s.home[w][2] \in 1..MaxSpaces
      BY <1>0, <2>1, SnapshotParts
    <2>3. \A w \in put : s.home[w][1] \in s.sig
      BY <2>1 DEF IsSnapshot
    <2> QED
      BY <2>1, <2>2, <2>3
  <1>5. \A m \in g.table : sized.rows[m] \in Nat \ {0} /\ m \in Monitors
    BY <1>0, <1>1, MgrParts DEF IsMgr
  <1>6. \A w \in Windows :
          \/ home[w] = sized.home[w] \/ home[w] = None
          \/ \E m \in sized.table : \E i \in 1..sized.rows[m] : home[w] = <<m, i>>
    <2> SUFFICES ASSUME NEW w \in put
                 PROVE  \E m \in sized.table : \E i \in 1..sized.rows[m] : home[w] = <<m, i>>
      OBVIOUS
    <2> DEFINE m == s.home[w][1]
               i == Clamped(s.home[w][2], sized.rows[m])
    <2>1. m \in g.table /\ i \in 1..sized.rows[m]
      BY <1>4, <1>5, ClampedFits
    <2>2. home[w] = <<m, i>>
      BY <1>4
    <2> HIDE DEF m, i, home
    <2> QED
      BY <1>1, <2>1, <2>2
  <1>7. targets \in [Windows -> Places \cup {None}]
    BY <1>0, SnapshotParts
  <1>8. /\ current \in [Monitors -> Nat]
        /\ \A m \in g.table : current[m] \in 1..sized.rows[m]
    <2>1. \A m \in g.table : current[m] \in 1..sized.rows[m]
      <3> SUFFICES ASSUME NEW m \in g.table
                   PROVE  current[m] \in 1..sized.rows[m]
        OBVIOUS
      <3>1. m \in Monitors /\ sized.rows[m] \in Nat \ {0}
        BY <1>5
      <3>2. CASE m \in s.sig
        <4>1. s.current[m] \in Nat \ {0}
          BY <3>2 DEF IsSnapshot
        <4> QED
          BY <3>1, <3>2, <4>1, ClampedFits
      <3>3. CASE m \notin s.sig
        BY <1>1, <3>1, <3>3 DEF IsMgr
      <3> QED
        BY <3>2, <3>3
    <2>2. \A m \in Monitors \ g.table : current[m] = sized.current[m]
      OBVIOUS
    <2>3. \A m \in Monitors : current[m] \in Nat
      <3> HIDE DEF current
      <3>1. \A m \in g.table : current[m] \in Nat
        BY <1>5, <2>1
      <3> QED BY <1>3, <2>2, <3>1, MgrParts
    <2> QED
      BY <2>1, <2>3
  <1>9. home = [w \in Windows |-> home[w]]
    OBVIOUS
  <1>10. \A w \in put : home[w] =
           <<s.home[w][1], Clamped(s.home[w][2], s.rows[s.home[w][1]])>>
    BY <1>1, <1>4
  <1>11. \A m \in g.table \cap s.sig : current[m] = Clamped(s.current[m], s.rows[m])
    BY <1>1, <1>5
  <1> HIDE DEF home, targets, current, put
  <1>12. IsMgr(h)
    BY <1>1, <1>6, <1>7, <1>9, Rehomed
  <1>13. h.table = g.table /\ h.rows = sized.rows /\ h.home = home /\ h \in Mgr
    BY <1>1, <1>3, <1>12 DEF Mgr, IsMgr
  <1>14. [h EXCEPT !.current = current] = Replayed(g, s)
    BY <1>2, <1>3 DEF Mgr
  <1> HIDE DEF h
  <1>15. IsMgr([h EXCEPT !.current = current])
    BY <1>8, <1>12, <1>13, Recurrent
  <1>16. /\ [h EXCEPT !.current = current].table = g.table
         /\ [h EXCEPT !.current = current].rows = sized.rows
         /\ [h EXCEPT !.current = current].home = home
         /\ [h EXCEPT !.current = current].current = current
    BY <1>13 DEF Mgr
  <1> QED
    BY <1>1, <1>10, <1>11, <1>14, <1>15, <1>16 DEF put

LEMMA CapturedSound ==
  ASSUME NEW g, IsMgr(g)
  PROVE  IsSnapshot(Captured(g)) /\ Counts(Captured(g), g)
  <1> DEFINE s == Captured(g)
  <1>0. g \in Mgr
    BY DEF IsMgr
  <1>1. /\ s.sig = g.table /\ s.rows = g.rows /\ s.current = g.current
        /\ \A w \in Windows : s.home[w] = None \/ s.home[w] = g.home[w]
    BY DEF Captured, Walked
  <1>2. Walked(g) \in [Windows -> Places \cup {None}]
    BY <1>0, MgrParts DEF Walked
  <1>3. s \in Snapshot
    BY <1>0, <1>2, MgrParts DEF Captured, Snapshot
  <1>4. \A m \in s.sig : s.rows[m] \in 1..MaxSpaces /\ s.current[m] \in 1..MaxSpaces
    <2> SUFFICES ASSUME NEW m \in g.table
                 PROVE  g.rows[m] \in 1..MaxSpaces /\ g.current[m] \in 1..MaxSpaces
      BY <1>1
    <2>1. g.rows[m] \in 1..MaxSpaces /\ g.current[m] \in 1..g.rows[m]
      BY DEF IsMgr
    <2> QED
      BY <2>1, LayoutAssumption
  <1>5. \A w \in Windows : s.home[w] # None => s.home[w][1] \in s.sig
    BY <1>1 DEF IsMgr
  <1> HIDE DEF s
  <1>6. IsSnapshot(s) /\ Counts(s, g)
    BY <1>1, <1>3, <1>4, <1>5 DEF IsSnapshot, Counts
  <1> QED
    BY <1>6 DEF s

\* A snapshot of the displays of g takes the counts of g.
LEMMA RecountedSnapshot ==
  ASSUME NEW g, IsMgr(g), NEW s, IsSnapshot(s), s.sig = g.table
  PROVE  /\ IsSnapshot([s EXCEPT !.rows = g.rows])
         /\ [s EXCEPT !.rows = g.rows].sig = s.sig
         /\ Counts([s EXCEPT !.rows = g.rows], g)
  <1> DEFINE r == [s EXCEPT !.rows = g.rows]
  <1>1. s \in Snapshot /\ g.rows \in [Monitors -> Nat]
    BY MgrParts DEF IsMgr, IsSnapshot
  <1>2. /\ r \in Snapshot /\ r.sig = s.sig /\ r.rows = g.rows
        /\ r.current = s.current /\ r.home = s.home
    BY <1>1 DEF Snapshot
  <1> HIDE DEF r
  <1>3. IsSnapshot(r) /\ Counts(r, g)
    BY <1>2 DEF IsSnapshot, IsMgr, Counts
  <1> QED
    BY <1>2, <1>3 DEF r

\* merge_space_counts when the topology has an entry.
LEMMA RecountedStore ==
  ASSUME NEW g, IsMgr(g), NEW L, IsStore(L), Stored(L, g.table),
         NEW T, T = [k \in DOMAIN L |-> IF L[k].sig = g.table
                                        THEN [L[k] EXCEPT !.rows = g.rows] ELSE L[k]]
  PROVE  IsStore(T) /\ Stored(T, g.table) /\ Counts(Entry(T, g.table), g)
  <1>1. L \in Seq(Snapshot) /\ DOMAIN L = 1..Len(L) /\ Len(L) \in Nat
    BY DEF IsStore, Store
  <1>2. \A k \in DOMAIN L : /\ IsSnapshot(T[k]) /\ T[k].sig = L[k].sig
                            /\ L[k].sig = g.table => Counts(T[k], g)
    <2> SUFFICES ASSUME NEW k \in DOMAIN L
                 PROVE  /\ IsSnapshot(T[k]) /\ T[k].sig = L[k].sig
                        /\ L[k].sig = g.table => Counts(T[k], g)
      OBVIOUS
    <2>1. IsSnapshot(L[k])
      BY DEF IsStore
    <2>2. CASE L[k].sig = g.table
      <3>1. T[k] = [L[k] EXCEPT !.rows = g.rows]
        BY <2>2
      <3> QED
        BY <2>1, <2>2, <3>1, RecountedSnapshot
    <2>3. CASE L[k].sig # g.table
      <3>1. T[k] = L[k]
        BY <2>3
      <3> QED
        BY <2>1, <2>3, <3>1
    <2> QED
      BY <2>2, <2>3
  <1>3. DOMAIN T = DOMAIN L
    OBVIOUS
  <1>4. T \in [1..Len(L) -> Snapshot]
    <2>1. \A k \in 1..Len(L) : T[k] \in Snapshot
      BY <1>1, <1>2 DEF IsSnapshot
    <2> QED
      BY <1>1, <2>1
  <1>5. T \in Seq(Snapshot) /\ Len(T) = Len(L)
    BY <1>1, <1>4
  <1>6. IsStore(T)
    BY <1>2, <1>3, <1>5 DEF IsStore, Store
  <1>7. PICK k \in DOMAIN L : L[k].sig = g.table
    BY DEF Stored
  <1>8. Stored(T, T[k].sig) /\ Entry(T, T[k].sig) = T[k]
    BY <1>3, <1>6, <1>7, EntryIs
  <1> QED
    BY <1>2, <1>6, <1>7, <1>8

-----------------------------------------------------------------------------
(* AppState's part *)

\* It is about the displays and their counts alone.
LEMMA SameCounts ==
  ASSUME NEW a, NEW g, NEW h, IsApp(a, g), h.table = g.table,
         \A m \in g.table : h.rows[m] = g.rows[m]
  PROVE  IsApp(a, h)
  BY DEF IsApp, Counts

LEMMA AppParts ==
  ASSUME NEW a \in App
  PROVE  /\ a = [lastSig |-> a.lastSig, shadow |-> a.shadow, dirty |-> a.dirty,
                 writing |-> a.writing, layouts |-> a.layouts]
         /\ a.lastSig \subseteq Monitors /\ a.shadow \in Snapshot \cup {None}
         /\ a.dirty \in BOOLEAN /\ a.writing \in BOOLEAN /\ a.layouts \in Store
  BY DEF App

\* Counts that have changed go into the entry and into the shadow.
LEMMA MergedSound ==
  ASSUME NEW a, NEW g, NEW h, IsApp(a, g), IsMgr(h), h.table = g.table
  PROVE  IsApp(Merged(a, h), h)
  <1> DEFINE L    == a.layouts
             none == [w \in Windows |-> None]
             bare == [Captured(h) EXCEPT !.home = none]
             upd  == [k \in DOMAIN L |-> IF L[k].sig = h.table
                                         THEN [L[k] EXCEPT !.rows = h.rows] ELSE L[k]]
             T    == IF Stored(L, h.table) THEN upd ELSE Upsert(L, bare)
             kept == IF a.shadow # None /\ a.shadow.sig = h.table
                     THEN [a.shadow EXCEPT !.rows = h.rows] ELSE a.shadow
             b    == Merged(a, h)
  <1>0. a \in App /\ IsStore(L) /\ a.lastSig = h.table
    BY DEF IsApp
  <1>1. b = [a EXCEPT !.layouts = T, !.shadow = kept]
    <2>1. MergedStoreOnly(a, h) = [a EXCEPT !.layouts = T]
      BY DEF MergedStoreOnly
    <2>2. [a EXCEPT !.layouts = T].shadow = a.shadow
      BY <1>0 DEF App
    <2>3. b = [[a EXCEPT !.layouts = T] EXCEPT !.shadow = kept]
      BY <2>1, <2>2 DEF Merged
    <2> HIDE DEF T, kept
    <2> QED
      BY <1>0, <2>3 DEF App
  <1>2. IsStore(T) /\ Stored(T, h.table) /\ Counts(Entry(T, h.table), h)
    <2>1. CASE Stored(L, h.table)
      <3>1. T = upd
        BY <2>1
      <3> HIDE DEF T
      <3> QED
        BY <1>0, <2>1, <3>1, RecountedStore
    <2>2. CASE ~Stored(L, h.table)
      <3>1. IsSnapshot(Captured(h)) /\ Counts(Captured(h), h)
        BY CapturedSound
      <3>2. /\ bare \in Snapshot /\ bare.sig = h.table /\ bare.rows = h.rows
            /\ bare.current = Captured(h).current /\ bare.home = none
            /\ Captured(h).sig = h.table /\ Captured(h).rows = h.rows
        BY <3>1 DEF IsSnapshot, Snapshot, Captured
      <3> HIDE DEF bare
      <3>3. IsSnapshot(bare) /\ Counts(bare, h)
        BY <3>1, <3>2 DEF IsSnapshot, Counts
      <3>4. T = Upsert(L, bare)
        BY <2>2
      <3> HIDE DEF T
      <3> QED
        BY <1>0, <3>2, <3>3, <3>4, UpsertKeeps
    <2> QED
      BY <2>1, <2>2
  <1>3. kept # None => kept \in Snapshot /\ IsSnapshot(kept) /\ Counts(kept, h)
    <2>1. CASE a.shadow # None
      <3>1. IsSnapshot(a.shadow) /\ a.shadow.sig = h.table
        BY <2>1 DEF IsApp, Counts
      <3>2. kept = [a.shadow EXCEPT !.rows = h.rows]
        BY <2>1, <3>1
      <3> HIDE DEF kept
      <3>3. IsSnapshot(kept) /\ Counts(kept, h)
        BY <3>1, <3>2, RecountedSnapshot
      <3> QED
        BY <3>3 DEF IsSnapshot
    <2>2. CASE a.shadow = None
      BY <2>2
    <2> QED
      BY <2>1, <2>2
  <1> HIDE DEF T, kept
  <1>4. /\ b.layouts = T /\ b.shadow = kept /\ b.lastSig = h.table /\ b \in App
    BY <1>0, <1>1, <1>2, <1>3 DEF App, IsStore
  <1> HIDE DEF b
  <1>5. IsApp(b, h)
    BY <1>2, <1>3, <1>4 DEF IsApp
  <1> QED
    BY <1>5 DEF b

\* The shadow goes into the store, written or not.
LEMMA FlushedSound ==
  ASSUME NEW a, NEW g, IsApp(a, g), a.shadow # None, NEW ok \in BOOLEAN
  PROVE  /\ IsStore(Upsert(a.layouts, a.shadow))
         /\ IsApp([a EXCEPT !.writing = FALSE,
                            !.layouts = Upsert(a.layouts, a.shadow), !.dirty = ok], g)
  <1> DEFINE T == Upsert(a.layouts, a.shadow)
             b == [a EXCEPT !.writing = FALSE, !.layouts = T, !.dirty = ok]
  <1>0. /\ a \in App /\ IsStore(a.layouts) /\ a.lastSig = g.table
        /\ IsSnapshot(a.shadow) /\ Counts(a.shadow, g) /\ a.shadow.sig = g.table
    BY DEF IsApp, Counts
  <1>1. IsStore(T) /\ Stored(T, g.table) /\ Entry(T, g.table) = a.shadow
    BY <1>0, UpsertKeeps
  <1> HIDE DEF T
  <1>2. /\ b \in App /\ b.layouts = T /\ b.shadow = a.shadow /\ b.lastSig = a.lastSig
    BY <1>0, <1>1 DEF App, IsStore
  <1> HIDE DEF b
  <1>3. IsApp(b, g)
    BY <1>0, <1>1, <1>2 DEF IsApp
  <1> QED
    BY <1>1, <1>3 DEF b, T

-----------------------------------------------------------------------------
(* One step *)

\* A daemon that is down.
LEMMA NothingSound == IsMgr(NoMgr) /\ IsApp(NoApp, NoMgr) /\ IsStore(<<>>)
  <1>1. NoMgr \in Mgr
    BY DEF NoMgr, Mgr
  <1>2. IsMgr(NoMgr)
    BY <1>1 DEF IsMgr, NoMgr
  <1>3. IsStore(<<>>) /\ \A sig : ~Stored(<<>>, sig)
    BY LayoutAssumption DEF IsStore, Store, Stored
  <1>4. NoApp \in App
    BY DEF NoApp, App, Store
  <1> QED
    BY <1>2, <1>3, <1>4 DEF IsApp, NoApp, NoMgr

LEMMA InvInitially == ASSUME Init PROVE LayoutInv
  BY NothingSound DEF Init, LayoutInv

\* A running daemon whose manager keeps its table and its counts.
LEMMA MgrMoves ==
  ASSUME LayoutInv, running, UNCHANGED <<plugged, app, disk, running>>,
         IsMgr(mgr'), mgr'.table = mgr.table,
         \A m \in mgr.table : mgr'.rows[m] = mgr.rows[m],
         at' \in [Windows -> Monitors \cup {None}],
         {notice', pending', settling', enforcing'} \subseteq BOOLEAN
  PROVE  LayoutInv'
  <1>1. IsApp(app, mgr')
    BY SameCounts DEF LayoutInv
  <1> QED
    BY <1>1 DEF LayoutInv

LEMMA PluggedDisplays == ASSUME LayoutInv PROVE plugged \subseteq Monitors
  BY LayoutAssumption DEF LayoutInv

LEMMA SwitchSpaceKeeps ==
  ASSUME LayoutInv, NEW m, NEW i, SwitchSpace(m, i)
  PROVE  LayoutInv'
  <1> DEFINE current == [mgr.current EXCEPT ![m] = i]
  <1>0. IsMgr(mgr) /\ mgr \in Mgr /\ running /\ m \in mgr.table /\ i \in 1..mgr.rows[m]
    BY DEF LayoutInv, IsMgr, SwitchSpace
  <1>1. mgr.current \in [Monitors -> Nat] /\ m \in Monitors /\ mgr.rows[m] \in Nat
    BY <1>0, MgrParts
  <1>2. current \in [Monitors -> Nat]
    BY <1>0, <1>1
  <1>3. \A n \in mgr.table : current[n] \in 1..mgr.rows[n]
    BY <1>0, <1>1 DEF IsMgr
  <1>4. mgr' = [mgr EXCEPT !.current = current]
    BY <1>0 DEF SwitchSpace, Mgr
  <1> HIDE DEF current
  <1>5. IsMgr(mgr')
    BY <1>0, <1>2, <1>3, <1>4, Recurrent
  <1>6. mgr'.table = mgr.table /\ mgr'.rows = mgr.rows
    BY <1>0, <1>4 DEF Mgr
  <1> QED
    BY <1>0, <1>5, <1>6, MgrMoves DEF SwitchSpace, OnlyMgr, LayoutInv

LEMMA MoveToSpaceKeeps ==
  ASSUME LayoutInv, NEW w \in Windows, NEW i, MoveToSpace(w, i)
  PROVE  LayoutInv'
  <1> DEFINE home == [mgr.home EXCEPT ![w] = <<@[1], i>>]
             g    == [mgr EXCEPT !.home = home, !.targets = mgr.targets]
  <1>0. /\ IsMgr(mgr) /\ mgr \in Mgr /\ running /\ mgr.home[w] # None
        /\ i \in 1..mgr.rows[mgr.home[w][1]]
    BY DEF LayoutInv, IsMgr, MoveToSpace
  <1>1. /\ mgr.home \in [Windows -> Places \cup {None}]
        /\ mgr.targets \in [Windows -> Places \cup {None}]
        /\ mgr.home[w][1] \in mgr.table
    BY <1>0, MgrParts DEF IsMgr
  <1>2. home = [v \in Windows |-> home[v]]
    BY <1>1
  <1>3. \A v \in Windows :
          \/ home[v] = mgr.home[v] \/ home[v] = None
          \/ \E m \in mgr.table : \E j \in 1..mgr.rows[m] : home[v] = <<m, j>>
    BY <1>0, <1>1
  <1>4. mgr' = g
    BY <1>0 DEF MoveToSpace, Mgr
  <1>5. g.table = mgr.table /\ g.rows = mgr.rows
    BY <1>0 DEF Mgr
  <1> HIDE DEF home
  <1>6. IsMgr(g)
    BY <1>0, <1>1, <1>2, <1>3, Rehomed
  <1> QED
    BY <1>0, <1>4, <1>5, <1>6, MgrMoves DEF MoveToSpace, OnlyMgr, LayoutInv

LEMMA RecountedKeeps ==
  ASSUME LayoutInv, running, NEW g, IsMgr(g), g.table = mgr.table, Recounted(g)
  PROVE  LayoutInv'
  <1>1. mgr' = g /\ app' = Merged(app, g) /\ IsApp(app', mgr')
    BY MergedSound DEF Recounted, LayoutInv
  <1>2. IsStore(disk')
    BY <1>1 DEF Recounted, Save, LayoutInv, IsApp
  <1> QED
    BY <1>1, <1>2 DEF Recounted, LayoutInv

LEMMA AddSpaceKeeps ==
  ASSUME LayoutInv, NEW m, AddSpace(m)
  PROVE  LayoutInv'
  <1> DEFINE g == [mgr EXCEPT !.rows[m] = @ + 1]
  <1>0. /\ IsMgr(mgr) /\ mgr \in Mgr /\ running /\ m \in mgr.table
        /\ mgr.rows[m] < MaxSpaces /\ Recounted(g)
    BY DEF LayoutInv, IsMgr, AddSpace
  <1>1. mgr.rows \in [Monitors -> Nat] /\ m \in Monitors
    BY <1>0, MgrParts
  <1>2. /\ g \in Mgr /\ g.table = mgr.table /\ g.home = mgr.home /\ g.current = mgr.current
        /\ g.rows = [mgr.rows EXCEPT ![m] = @ + 1]
    BY <1>0, <1>1 DEF Mgr
  <1>3. \A n \in mgr.table : /\ g.rows[n] \in 1..MaxSpaces
                             /\ 1..mgr.rows[n] \subseteq 1..g.rows[n]
    <2> SUFFICES ASSUME NEW n \in mgr.table
                 PROVE  g.rows[n] \in 1..MaxSpaces /\ 1..mgr.rows[n] \subseteq 1..g.rows[n]
      OBVIOUS
    <2>1. n \in Monitors /\ mgr.rows[n] \in 1..MaxSpaces
      BY <1>0, MgrParts DEF IsMgr
    <2>2. g.rows[n] = IF n = m THEN mgr.rows[n] + 1 ELSE mgr.rows[n]
      BY <1>1, <1>2, <2>1
    <2> QED
      BY <1>0, <2>1, <2>2, LayoutAssumption
  <1> HIDE DEF g
  <1>4. IsMgr(g)
    BY <1>0, <1>2, <1>3 DEF IsMgr
  <1> QED
    BY <1>0, <1>2, <1>4, RecountedKeeps

LEMMA RemoveSpaceKeeps ==
  ASSUME LayoutInv, NEW m, NEW r, RemoveSpace(m, r)
  PROVE  LayoutInv'
  <1> DEFINE rows    == [mgr.rows EXCEPT ![m] = @ - 1]
             current == [mgr.current EXCEPT ![m] = AfterRemoval(@, r)]
             home    == [w \in Windows |->
                           IF mgr.home[w] # None /\ mgr.home[w][1] = m
                           THEN <<m, AfterRemoval(mgr.home[w][2], r)>> ELSE mgr.home[w]]
             g       == Shorter(mgr, m, r)
  <1>0. /\ IsMgr(mgr) /\ mgr \in Mgr /\ running /\ m \in mgr.table
        /\ mgr.rows[m] > 1 /\ r \in 1..mgr.rows[m] /\ Recounted(g)
    BY DEF LayoutInv, IsMgr, RemoveSpace
  <1>1. /\ mgr.rows \in [Monitors -> Nat] /\ mgr.current \in [Monitors -> Nat]
        /\ m \in Monitors /\ mgr.rows[m] \in 1..MaxSpaces
    BY <1>0, MgrParts DEF IsMgr
  <1>2. g = [mgr EXCEPT !.rows = rows, !.current = current, !.home = home]
    BY <1>0 DEF Shorter, Mgr
  <1>3. /\ rows \in [Monitors -> Nat] /\ rows[m] = mgr.rows[m] - 1
        /\ \A n \in Monitors \ {m} : rows[n] = mgr.rows[n]
        /\ rows[m] \in 1..MaxSpaces
    BY <1>0, <1>1, LayoutAssumption
  <1>4. \A i \in 1..mgr.rows[m] : AfterRemoval(i, r) \in 1..rows[m]
    BY <1>0, <1>1, <1>3 DEF AfterRemoval
  <1>5. /\ current[m] \in 1..rows[m] /\ current \in [Monitors -> Nat]
        /\ \A n \in Monitors \ {m} : current[n] = mgr.current[n]
    <2>1. mgr.current[m] \in 1..mgr.rows[m]
      BY <1>0 DEF IsMgr
    <2>2. current[m] = AfterRemoval(mgr.current[m], r)
      BY <1>1
    <2>3. AfterRemoval(mgr.current[m], r) \in 1..rows[m]
      BY <1>4, <2>1
    <2>4. AfterRemoval(mgr.current[m], r) \in Nat
      BY <2>3, <1>3
    <2> QED
      BY <1>1, <2>2, <2>3, <2>4
  <1> HIDE DEF rows, current
  <1>6. \A w \in Windows : home[w] # None =>
          /\ home[w] \in Places /\ home[w][1] \in mgr.table
          /\ home[w][2] \in 1..rows[home[w][1]]
    <2> SUFFICES ASSUME NEW w \in Windows, home[w] # None
                 PROVE  /\ home[w] \in Places /\ home[w][1] \in mgr.table
                        /\ home[w][2] \in 1..rows[home[w][1]]
      OBVIOUS
    <2>1. CASE mgr.home[w] # None /\ mgr.home[w][1] = m
      <3> DEFINE i == AfterRemoval(mgr.home[w][2], r)
      <3>1. home[w] = <<m, i>>
        BY <2>1
      <3>2. mgr.home[w][2] \in 1..mgr.rows[m]
        BY <1>0, <2>1 DEF IsMgr
      <3>3. i \in 1..rows[m]
        BY <1>4, <3>2
      <3> HIDE DEF i, home
      <3> QED
        BY <1>0, <1>1, <1>3, <3>1, <3>3, PlaceIn
    <2>2. CASE ~(mgr.home[w] # None /\ mgr.home[w][1] = m)
      <3>1. home[w] = mgr.home[w] /\ mgr.home[w] # None /\ mgr.home[w][1] # m
        BY <2>2
      <3>2. /\ mgr.home[w][1] \in mgr.table /\ mgr.home[w][1] \in Monitors
            /\ mgr.home[w][2] \in 1..mgr.rows[mgr.home[w][1]]
            /\ mgr.home[w] \in Places
        BY <1>0, <3>1, MgrParts DEF IsMgr
      <3> HIDE DEF home
      <3> QED
        BY <1>3, <3>1, <3>2
    <2> QED
      BY <2>1, <2>2
  <1>7. home \in [Windows -> Places \cup {None}]
    BY <1>6
  <1> HIDE DEF home, g
  <1>8. /\ g \in Mgr /\ g.table = mgr.table /\ g.rows = rows /\ g.current = current
        /\ g.home = home
    BY <1>0, <1>2, <1>3, <1>5, <1>7 DEF Mgr
  <1>9. \A n \in mgr.table : rows[n] \in 1..MaxSpaces /\ current[n] \in 1..rows[n]
    <2> SUFFICES ASSUME NEW n \in mgr.table
                 PROVE  rows[n] \in 1..MaxSpaces /\ current[n] \in 1..rows[n]
      OBVIOUS
    <2>1. CASE n = m
      BY <1>3, <1>5, <2>1
    <2>2. CASE n # m
      <3>1. n \in Monitors \ {m}
        BY <1>0, <2>2, MgrParts
      <3> QED
        BY <1>0, <1>3, <1>5, <3>1 DEF IsMgr
    <2> QED
      BY <2>1, <2>2
  <1>10. IsMgr(g)
    BY <1>6, <1>8, <1>9 DEF IsMgr
  <1> QED
    BY <1>0, <1>8, <1>10, RecountedKeeps

LEMMA WorldKeeps ==
  ASSUME LayoutInv,
         \/ \E w \in Windows, m \in Monitors : Open(w, m) \/ Drag(w, m)
         \/ \E w \in Windows : Close(w)
         \/ \E T \in Topologies : PlugOrUnplug(T)
  PROVE  LayoutInv'
  <1>1. World /\ plugged' \in Topologies /\ notice' \in BOOLEAN
    BY DEF Open, Drag, Close, PlugOrUnplug, LayoutInv
  <1>2. at' \in [Windows -> Monitors \cup {None}]
    <2>1. ASSUME NEW w \in Windows, NEW m \in Monitors, Open(w, m) \/ Drag(w, m)
          PROVE  at' \in [Windows -> Monitors \cup {None}]
      BY <2>1 DEF Open, Drag, LayoutInv
    <2>2. ASSUME NEW w \in Windows, Close(w)
          PROVE  at' \in [Windows -> Monitors \cup {None}]
      BY <2>2 DEF Close, LayoutInv
    <2>3. ASSUME NEW T \in Topologies, PlugOrUnplug(T)
          PROVE  at' \in [Windows -> Monitors \cup {None}]
      BY <2>3, LayoutAssumption DEF PlugOrUnplug
    <2> QED
      BY <2>1, <2>2, <2>3
  <1> QED
    BY <1>1, <1>2 DEF World, LayoutInv

LEMMA FlagsKeep ==
  ASSUME LayoutInv,
         DisplayChange \/ SessionChange \/ SettleElapses \/ EnforcementElapses
  PROVE  LayoutInv'
  <1>1. UNCHANGED <<at, plugged, mgr, app, disk, running>>
    BY DEF DisplayChange, SessionChange, SettleElapses, EnforcementElapses
  <1>2. /\ {notice', pending', settling', enforcing'} \subseteq BOOLEAN
        /\ ~running => ~enforcing' /\ ~settling'
    BY DEF DisplayChange, SessionChange, SettleElapses, EnforcementElapses, LayoutInv
  <1> QED
    BY <1>1, <1>2 DEF LayoutInv

LEMMA ScanWindowsKeeps ==
  ASSUME LayoutInv, ScanWindows
  PROVE  LayoutInv'
  <1> DEFINE targets == [w \in Windows |-> IF at[w] = None THEN None ELSE mgr.targets[w]]
             alive   == [mgr EXCEPT !.targets = targets]
             pruned  == Adopted(alive)
             drifted == {w \in Windows : /\ at[w] \in mgr.table
                                         /\ pruned.home[w] # None
                                         /\ pruned.home[w][1] # at[w]}
             back    == {w \in drifted : enforcing /\ pruned.targets[w] # None
                                                   /\ pruned.targets[w][1] \in mgr.table}
             seen    == IF pending \/ settling THEN {} ELSE drifted
             fit(p)  == <<p[1], Clamped(p[2], mgr.rows[p[1]])>>
             home    == [w \in Windows |->
                           IF w \notin seen THEN pruned.home[w]
                           ELSE IF w \in back THEN fit(pruned.targets[w])
                           ELSE <<at[w], mgr.current[at[w]]>>]
             g       == [pruned EXCEPT !.home = home, !.targets = pruned.targets]
  <1>0. IsMgr(mgr) /\ mgr \in Mgr /\ running /\ at \in [Windows -> Monitors \cup {None}]
    BY DEF LayoutInv, IsMgr, ScanWindows
  <1>1. /\ mgr.targets \in [Windows -> Places \cup {None}]
        /\ mgr.home \in [Windows -> Places \cup {None}]
    BY <1>0, MgrParts
  <1>2. targets \in [Windows -> Places \cup {None}]
    BY <1>1
  <1>3. mgr' = [pruned EXCEPT !.home = home]
    BY DEF ScanWindows
  <1>4. at' = [w \in Windows |-> IF w \in seen \cap back THEN mgr.targets[w][1] ELSE at[w]]
    BY DEF ScanWindows
  <1> HIDE DEF targets
  <1>5. /\ alive \in Mgr /\ alive.table = mgr.table /\ alive.rows = mgr.rows
        /\ alive.current = mgr.current /\ alive.home = mgr.home /\ alive.targets = targets
    BY <1>0, <1>2 DEF Mgr
  <1> HIDE DEF alive
  <1>6. IsMgr(alive)
    BY <1>0, <1>5 DEF IsMgr
  <1>7. /\ IsMgr(pruned) /\ pruned.targets = targets /\ pruned.table = mgr.table
        /\ pruned.rows = mgr.rows /\ pruned.current = mgr.current
    BY <1>5, <1>6, AdoptedSound
  <1> HIDE DEF pruned
  <1>8. ASSUME NEW w \in back
        PROVE  /\ w \in Windows /\ targets[w] \in Places /\ targets[w][1] \in mgr.table
               /\ mgr.targets[w] = targets[w]
    <2>1. w \in Windows /\ targets[w] # None /\ targets[w][1] \in mgr.table
      BY <1>7
    <2>2. targets[w] = mgr.targets[w]
      BY <2>1 DEF targets
    <2> QED
      BY <1>2, <2>1, <2>2
  <1>9. \A w \in Windows :
          \/ home[w] = pruned.home[w] \/ home[w] = None
          \/ \E m \in pruned.table : \E i \in 1..pruned.rows[m] : home[w] = <<m, i>>
    <2> SUFFICES ASSUME NEW w \in Windows
                 PROVE  \/ home[w] = pruned.home[w]
                        \/ \E m \in mgr.table : \E i \in 1..mgr.rows[m] : home[w] = <<m, i>>
      BY <1>7
    <2>1. CASE w \notin seen
      BY <2>1
    <2>2. CASE w \in seen /\ w \in back
      <3> DEFINE m == targets[w][1]
                 i == Clamped(targets[w][2], mgr.rows[m])
      <3>1. home[w] = <<m, i>>
        BY <1>7, <2>2
      <3>2. m \in mgr.table /\ targets[w] \in Places
        BY <1>8, <2>2
      <3>3. targets[w][2] \in Nat \ {0}
        BY <3>2, LayoutAssumption DEF Places
      <3>4. mgr.rows[m] \in Nat \ {0}
        BY <1>0, <3>2 DEF IsMgr
      <3>5. i \in 1..mgr.rows[m]
        BY <3>3, <3>4, ClampedFits
      <3> HIDE DEF m, i, home
      <3> QED
        BY <3>1, <3>2, <3>5
    <2>3. CASE w \in seen /\ w \notin back
      <3>1. home[w] = <<at[w], mgr.current[at[w]]>>
        BY <2>3
      <3>2. at[w] \in mgr.table
        BY <2>3
      <3>3. mgr.current[at[w]] \in 1..mgr.rows[at[w]]
        BY <1>0, <3>2 DEF IsMgr
      <3> HIDE DEF home
      <3> QED
        BY <3>1, <3>2, <3>3
    <2> QED
      BY <2>1, <2>2, <2>3
  <1>10. home = [w \in Windows |-> home[w]]
    OBVIOUS
  <1>11. at' \in [Windows -> Monitors \cup {None}]
    <2>1. \A w \in back : mgr.targets[w][1] \in Monitors
      BY <1>0, <1>8, MgrParts
    <2> HIDE DEF back, seen
    <2> QED
      BY <1>0, <1>4, <2>1
  <1> HIDE DEF home
  <1>12. IsMgr(g)
    BY <1>2, <1>7, <1>9, <1>10, Rehomed
  <1>13. pruned \in Mgr
    BY <1>7 DEF IsMgr
  <1>14. mgr' = g /\ g.table = mgr.table /\ g.rows = mgr.rows
    BY <1>3, <1>7, <1>13 DEF Mgr
  <1> HIDE DEF g
  <1> QED
    BY <1>0, <1>11, <1>12, <1>14, MgrMoves DEF ScanWindows, LayoutInv

\* What is replayed, if anything, fits the entry it is replayed from.
LEMMA RestoreSound ==
  ASSUME NEW g, IsMgr(g), NEW L, IsStore(L), NEW wanted \in BOOLEAN,
         at \in [Windows -> Monitors \cup {None}],
         {settling, enforcing} \subseteq BOOLEAN,
         Restore(g, L, wanted)
  PROVE  /\ IsMgr(mgr') /\ mgr'.table = g.table
         /\ at' \in [Windows -> Monitors \cup {None}]
         /\ {settling', enforcing'} \subseteq BOOLEAN
         /\ wanted /\ Stored(L, g.table) => Counts(Entry(L, g.table), mgr')
         /\ ~(wanted /\ Stored(L, g.table)) => mgr' = g
  <1>1. CASE wanted /\ Stored(L, g.table)
    <2> DEFINE s == Entry(L, g.table)
    <2>1. IsSnapshot(s) /\ s.sig = g.table
      BY <1>1, EntryFound
    <2>2. /\ mgr' = Replayed(g, s) /\ at' = Moved(Placed(g, s), s)
          /\ settling' = TRUE /\ enforcing' = TRUE
      BY <1>1 DEF Restore
    <2> HIDE DEF s
    <2>3. /\ IsMgr(mgr') /\ mgr'.table = g.table
          /\ \A m \in g.table \cap s.sig : mgr'.rows[m] = s.rows[m]
      BY <2>1, <2>2, ReplayedSound
    <2>4. \A w \in Placed(g, s) : s.home[w][1] \in Monitors
      BY MgrParts DEF Placed, IsMgr
    <2>5. at' \in [Windows -> Monitors \cup {None}]
      BY <2>2, <2>4 DEF Moved
    <2>6. Counts(s, mgr')
      BY <2>1, <2>3 DEF Counts
    <2> QED
      BY <1>1, <2>2, <2>3, <2>5, <2>6 DEF s
  <1>2. CASE ~(wanted /\ Stored(L, g.table))
    BY <1>2 DEF Restore
  <1> QED
    BY <1>1, <1>2

LEMMA ReconcileKeeps ==
  ASSUME LayoutInv, Reconcile
  PROVE  LayoutInv'
  <1> DEFINE g == Rebuilt(mgr)
  <1>1. /\ IsMgr(g) /\ g.table = plugged
        /\ \A m \in plugged \cap mgr.table : g.rows[m] = mgr.rows[m]
    BY PluggedDisplays, RebuiltSound DEF LayoutInv
  <1>2. /\ running /\ pending' = FALSE /\ UNCHANGED <<plugged, notice, disk, running>>
        /\ app.lastSig = mgr.table
    BY DEF Reconcile, LayoutInv, IsApp
  <1>3. CASE g.table = app.lastSig
    <2>1. mgr' = g /\ UNCHANGED <<at, settling, enforcing, app>>
      BY <1>3 DEF Reconcile
    <2> HIDE DEF g
    <2> QED
      BY <1>1, <1>2, <1>3, <2>1, MgrMoves DEF LayoutInv
  <1>4. CASE g.table # app.lastSig
    <2>1. /\ app' = [app EXCEPT !.lastSig = g.table, !.shadow = None]
          /\ Restore(g, app.layouts, plugged # Remote)
      BY <1>4 DEF Reconcile
    <2> HIDE DEF g
    <2>2. /\ IsStore(app.layouts) /\ app \in App /\ plugged \in Topologies
          /\ at \in [Windows -> Monitors \cup {None}]
          /\ {notice, pending, settling, enforcing, running} \subseteq BOOLEAN
      BY DEF LayoutInv, IsApp
    <2>3. /\ app'.layouts = app.layouts /\ app'.lastSig = plugged /\ app'.shadow = None
          /\ app' \in App
      BY <1>1, <2>1, <2>2, PluggedDisplays DEF App
    <2>4. /\ IsMgr(mgr') /\ mgr'.table = g.table
          /\ at' \in [Windows -> Monitors \cup {None}]
          /\ {settling', enforcing'} \subseteq BOOLEAN
          /\ (plugged # Remote) /\ Stored(app.layouts, g.table) =>
               Counts(Entry(app.layouts, g.table), mgr')
      BY <1>1, <2>1, <2>2, RestoreSound
    <2>5. IsApp(app', mgr')
      BY <1>1, <2>2, <2>3, <2>4 DEF IsApp
    <2> QED
      BY <1>2, <2>2, <2>4, <2>5 DEF LayoutInv
  <1> QED
    BY <1>3, <1>4

LEMMA ShadowTickKeeps ==
  ASSUME LayoutInv, ShadowTick
  PROVE  LayoutInv'
  <1> DEFINE s == Captured(mgr)
  <1>1. IsSnapshot(s) /\ Counts(s, mgr)
    BY CapturedSound DEF LayoutInv
  <1>2. /\ running /\ app' = [app EXCEPT !.shadow = s, !.dirty = TRUE, !.writing = TRUE]
        /\ UNCHANGED <<at, plugged, notice, mgr, pending, settling, enforcing, disk, running>>
    BY DEF ShadowTick
  <1> HIDE DEF s
  <1>3. app \in App /\ s \in Snapshot
    BY <1>1 DEF LayoutInv, IsApp, IsSnapshot
  <1>4. /\ app' \in App /\ app'.shadow = s /\ app'.layouts = app.layouts
        /\ app'.lastSig = app.lastSig
    BY <1>2, <1>3 DEF App
  <1>5. IsApp(app', mgr)
    BY <1>1, <1>4 DEF LayoutInv, IsApp
  <1> QED
    BY <1>2, <1>5 DEF LayoutInv

LEMMA PersistKeeps ==
  ASSUME LayoutInv, running, Persist,
         UNCHANGED <<at, plugged, notice, mgr, pending, settling, enforcing, running>>
  PROVE  LayoutInv'
  <1> DEFINE merged == Upsert(app.layouts, app.shadow)
  <1>1. CASE ~(app.dirty /\ app.shadow # None)
    <2>1. app' = [app EXCEPT !.writing = FALSE] /\ UNCHANGED disk
      BY <1>1 DEF Persist
    <2>2. app \in App
      BY DEF LayoutInv, IsApp
    <2>3. /\ app' \in App /\ app'.shadow = app.shadow /\ app'.layouts = app.layouts
          /\ app'.lastSig = app.lastSig
      BY <2>1, <2>2 DEF App
    <2>4. IsApp(app', mgr)
      BY <2>3 DEF LayoutInv, IsApp
    <2> QED
      BY <2>1, <2>4 DEF LayoutInv
  <1>2. CASE app.dirty /\ app.shadow # None
    <2>1. PICK ok \in BOOLEAN :
            /\ app' = [app EXCEPT !.writing = FALSE, !.layouts = merged, !.dirty = ~ok]
            /\ disk' = IF ok THEN merged ELSE disk
      BY <1>2 DEF Persist
    <2>2. (~ok) \in BOOLEAN
      OBVIOUS
    <2>3. IsStore(merged) /\ IsApp(app', mgr)
      BY <1>2, <2>1, <2>2, FlushedSound DEF LayoutInv
    <2> HIDE DEF merged
    <2>4. IsStore(disk')
      BY <2>1, <2>3 DEF LayoutInv
    <2> QED
      BY <2>3, <2>4 DEF LayoutInv
  <1> QED
    BY <1>1, <1>2

LEMMA DownKeeps ==
  ASSUME LayoutInv, Exit \/ Crash
  PROVE  LayoutInv'
  <1>1. /\ mgr' = NoMgr /\ app' = NoApp /\ running' = FALSE
        /\ notice' = FALSE /\ pending' = FALSE /\ settling' = FALSE /\ enforcing' = FALSE
        /\ UNCHANGED <<at, plugged>>
    BY DEF Exit, Crash
  <1>2. IsStore(disk')
    <2>1. CASE Crash
      BY <2>1 DEF Crash, LayoutInv
    <2>2. CASE Exit
      <3>1. PICK written \in BOOLEAN :
              disk' = IF written /\ app.dirty /\ app.shadow # None
                      THEN Upsert(app.layouts, app.shadow) ELSE disk
        BY <2>2 DEF Exit
      <3>2. CASE app.shadow # None
        <4>1. IsStore(Upsert(app.layouts, app.shadow))
          BY <3>2, UpsertKeeps DEF LayoutInv, IsApp
        <4> QED
          BY <3>1, <4>1 DEF LayoutInv
      <3>3. CASE app.shadow = None
        BY <3>1, <3>3 DEF LayoutInv
      <3> QED
        BY <3>2, <3>3
    <2> QED
      BY <2>1, <2>2
  <1> QED
    BY <1>1, <1>2, NothingSound DEF LayoutInv

\* The manager a daemon starts with: the counts of its entry are applied.
Counted ==
  IF Stored(disk, plugged) THEN WithCounts(Rebuilt(NoMgr), Entry(disk, plugged))
  ELSE Rebuilt(NoMgr)

LEMMA CountedSound ==
  ASSUME LayoutInv
  PROVE  /\ IsMgr(Counted) /\ Counted.table = plugged
         /\ Stored(disk, plugged) => Counts(Entry(disk, plugged), Counted)
  <1> DEFINE fresh == Rebuilt(NoMgr)
             s     == Entry(disk, plugged)
  <1>1. IsMgr(fresh) /\ fresh.table = plugged
    BY PluggedDisplays, NothingSound, RebuiltSound
  <1> HIDE DEF fresh
  <1>2. CASE Stored(disk, plugged)
    <2>1. IsSnapshot(s) /\ s.sig = plugged
      BY <1>2, EntryFound DEF LayoutInv
    <2>2. Counted = WithCounts(fresh, s)
      BY <1>2 DEF Counted, fresh
    <2> HIDE DEF s
    <2>3. /\ IsMgr(Counted) /\ Counted.table = plugged
          /\ \A m \in plugged : Counted.rows[m] = s.rows[m]
      BY <1>1, <2>1, <2>2, WithCountsSound
    <2>4. Counts(s, Counted)
      BY <2>1, <2>3 DEF Counts
    <2> QED
      BY <2>3, <2>4 DEF s
  <1>3. CASE ~Stored(disk, plugged)
    BY <1>1, <1>3 DEF Counted, fresh
  <1> QED
    BY <1>2, <1>3

LEMMA StartKeeps ==
  ASSUME LayoutInv, Start
  PROVE  LayoutInv'
  <1>1. /\ ~running /\ running' = TRUE
        /\ app' = [NoApp EXCEPT !.lastSig = plugged, !.layouts = disk]
        /\ UNCHANGED <<plugged, notice, pending, disk>>
        /\ \E auto \in BOOLEAN : Restore(Counted, disk, auto /\ plugged # Remote)
    BY DEF Start, Counted
  <1>2. PICK auto \in BOOLEAN : Restore(Counted, disk, auto /\ plugged # Remote)
    BY <1>1
  <1> DEFINE wanted == auto /\ plugged # Remote
  <1>3. /\ IsMgr(Counted) /\ Counted.table = plugged
        /\ Stored(disk, plugged) => Counts(Entry(disk, plugged), Counted)
    BY CountedSound
  <1>4. /\ IsStore(disk) /\ at \in [Windows -> Monitors \cup {None}]
        /\ plugged \in Topologies /\ {notice, pending, settling, enforcing} \subseteq BOOLEAN
    BY DEF LayoutInv
  <1>5. wanted \in BOOLEAN /\ Restore(Counted, disk, wanted)
    BY <1>2
  <1> HIDE DEF wanted
  <1>6. /\ IsMgr(mgr') /\ mgr'.table = plugged
        /\ at' \in [Windows -> Monitors \cup {None}]
        /\ {settling', enforcing'} \subseteq BOOLEAN
        /\ wanted /\ Stored(disk, plugged) => Counts(Entry(disk, plugged), mgr')
        /\ ~(wanted /\ Stored(disk, plugged)) => mgr' = Counted
    BY <1>3, <1>4, <1>5, RestoreSound
  <1>7. /\ app' \in App /\ app'.lastSig = plugged /\ app'.layouts = disk
        /\ app'.shadow = None
    BY <1>1, <1>4, PluggedDisplays DEF App, NoApp, IsStore
  <1>8. Stored(disk, plugged) => Counts(Entry(disk, plugged), mgr')
    BY <1>3, <1>6, Zenon
  <1>9. IsApp(app', mgr')
    BY <1>4, <1>6, <1>7, <1>8 DEF IsApp
  <1> QED
    BY <1>1, <1>4, <1>6, <1>9 DEF LayoutInv

LEMMA StepKeeps ==
  ASSUME LayoutInv, [Next]_vars
  PROVE  LayoutInv'
  <1>1. CASE User
    BY <1>1, SwitchSpaceKeeps, MoveToSpaceKeeps, AddSpaceKeeps, RemoveSpaceKeeps DEF User
  <1>2. CASE Environment
    <2>1. CASE Suspend
      BY <2>1, PersistKeeps DEF Suspend
    <2>2. CASE ~Suspend
      BY <1>2, <2>2, WorldKeeps, FlagsKeep DEF Environment
    <2> QED
      BY <2>1, <2>2
  <1>3. CASE Timers
    <2>1. CASE PersistTimer
      BY <2>1, PersistKeeps DEF PersistTimer
    <2>2. CASE ~PersistTimer
      BY <1>3, <2>2, ReconcileKeeps, ShadowTickKeeps, FlagsKeep DEF Timers
    <2> QED
      BY <2>1, <2>2
  <1>4. CASE DisplayChange \/ ScanWindows \/ Exit \/ Crash \/ Start
    BY <1>4, FlagsKeep, ScanWindowsKeeps, DownKeeps, StartKeeps
  <1>5. CASE UNCHANGED vars
    BY <1>5 DEF vars, LayoutInv
  <1> QED
    BY <1>1, <1>2, <1>3, <1>4, <1>5 DEF Next

\* The layout memory is sound at all times: rows have a current space, windows
\* are tracked on spaces that exist, the store has one entry a topology and no
\* more than MAX_TOPOLOGIES of them, and what is stored and shadowed for the
\* present displays has their counts.
THEOREM LayoutAlwaysSound == Spec => []LayoutInv
  <1>1. Init => LayoutInv
    BY InvInitially
  <1>2. LayoutInv /\ [Next]_vars => LayoutInv'
    BY StepKeeps
  <1> QED
    BY <1>1, <1>2, PTL DEF Spec

\* The entry of the present topology has the counts the user sees, whatever is
\* captured, merged, written, replayed or evicted.
THEOREM CountsSurviveCorrect == Spec => []CountsSurvive
  <1>1. LayoutInv => CountsSurvive
    BY DEF LayoutInv, IsApp, Counts, CountsSurvive, Known
  <1> QED
    BY <1>1, LayoutAlwaysSound, PTL

-----------------------------------------------------------------------------
(* What comes back *)

\* s is on screen again.
Returned(s, sig) ==
  /\ \A w \in Windows : at[w] # None /\ s.home[w] # None =>
       /\ mgr'.home[w] = <<s.home[w][1], Clamped(s.home[w][2], s.rows[s.home[w][1]])>>
       /\ at'[w] = s.home[w][1]
  /\ \A m \in sig : mgr'.current[m] = Clamped(s.current[m], s.rows[m])

LEMMA RestoreReturns ==
  ASSUME NEW g, IsMgr(g), NEW L, IsStore(L), Stored(L, g.table), NEW wanted, wanted,
         Restore(g, L, wanted)
  PROVE  Returned(Entry(L, g.table), g.table)
  <1> DEFINE s == Entry(L, g.table)
  <1>1. IsSnapshot(s) /\ s.sig = g.table
    BY EntryFound
  <1>2. mgr' = Replayed(g, s) /\ at' = Moved(Placed(g, s), s)
    BY DEF Restore
  <1> HIDE DEF s
  <1>3. /\ \A m \in g.table : mgr'.current[m] = Clamped(s.current[m], s.rows[m])
        /\ \A w \in Placed(g, s) : mgr'.home[w] =
             <<s.home[w][1], Clamped(s.home[w][2], s.rows[s.home[w][1]])>>
    BY <1>1, <1>2, ReplayedSound
  <1>4. \A w \in Windows : at[w] # None /\ s.home[w] # None => w \in Placed(g, s)
    BY <1>1 DEF Placed, IsSnapshot
  <1>5. \A w \in Placed(g, s) : w \in Windows /\ at'[w] = s.home[w][1]
    BY <1>2 DEF Moved, Placed
  <1>6. Returned(s, g.table)
    BY <1>3, <1>4, <1>5 DEF Returned
  <1> QED
    BY <1>6 DEF s

\* A known topology that comes back, or that the daemon starts on with replay
\* on, has its windows where its entry has them and shows the spaces it showed.
\* The entry is of the displays there are, so no place of it is missing; it is
\* replayed on rows of its own length, so none is past the end but by its own
\* counts.
THEOREM ReplayReturnsCorrect == Spec => ReplayReturns
  <1> DEFINE sig      == app'.lastSig
             snap     == Entry(app'.layouts, sig)
             fit(m, i) == IF i > snap.rows[m] THEN snap.rows[m] ELSE i
             Replay   == /\ running' /\ sig # app.lastSig /\ sig # Remote
                         /\ running \/ enforcing'
                         /\ Stored(app'.layouts, sig)
             Back     == /\ \A w \in Windows : at[w] # None /\ snap.home[w] # None =>
                              LET m == snap.home[w][1]
                              IN  mgr'.home[w] = <<m, fit(m, snap.home[w][2])>> /\ at'[w] = m
                         /\ \A m \in sig : mgr'.current[m] = fit(m, snap.current[m])
  <1>1. ASSUME LayoutInv, [Next]_vars, Replay
        PROVE  Back
    <2>1. CASE Reconcile
      <3> DEFINE g == Rebuilt(mgr)
      <3>1. IsMgr(g) /\ g.table = plugged /\ IsStore(app.layouts) /\ app \in App
        BY <1>1, PluggedDisplays, RebuiltSound DEF LayoutInv, IsApp
      <3>2. g.table # app.lastSig
        <4>1. g.table = app.lastSig => app' = app
          BY <2>1 DEF Reconcile
        <4>2. sig # app.lastSig
          BY <1>1
        <4> QED
          BY <4>1, <4>2
      <3>3. /\ app' = [app EXCEPT !.lastSig = g.table, !.shadow = None]
            /\ Restore(g, app.layouts, plugged # Remote)
        BY <2>1, <3>2 DEF Reconcile
      <3> HIDE DEF g
      <3>4. sig = g.table /\ app'.layouts = app.layouts
        BY <3>1, <3>3 DEF App
      <3>5. (plugged # Remote) /\ Stored(app.layouts, g.table)
        BY <1>1, <3>1, <3>4
      <3>6. Returned(Entry(app.layouts, g.table), g.table)
        BY <3>1, <3>3, <3>5, RestoreReturns
      <3>7. Returned(snap, sig)
        BY <3>4, <3>6
      <3> QED
        BY <3>7 DEF Returned, Clamped
    <2>2. CASE Start
      <3>1. /\ app' = [NoApp EXCEPT !.lastSig = plugged, !.layouts = disk]
            /\ ~running
            /\ \E auto \in BOOLEAN : Restore(Counted, disk, auto /\ plugged # Remote)
        BY <2>2 DEF Start, Counted
      <3>2. sig = plugged /\ app'.layouts = disk
        BY <3>1 DEF NoApp
      <3>3. PICK auto \in BOOLEAN : Restore(Counted, disk, auto /\ plugged # Remote)
        BY <3>1
      <3>4. IsMgr(Counted) /\ Counted.table = plugged /\ IsStore(disk) /\ ~enforcing
        BY <1>1, <3>1, CountedSound DEF LayoutInv
      <3>5. Stored(disk, Counted.table) /\ enforcing'
        <4>1. (running \/ enforcing') /\ Stored(app'.layouts, sig)
          BY <1>1
        <4> QED
          BY <3>1, <3>2, <3>4, <4>1, Zenon
      <3>6. auto /\ plugged # Remote
        BY <3>3, <3>4, <3>5 DEF Restore
      <3>7. Returned(Entry(disk, Counted.table), Counted.table)
        BY <3>3, <3>4, <3>5, <3>6, RestoreReturns
      <3>8. Returned(snap, sig)
        BY <3>2, <3>4, <3>7
      <3> QED
        BY <3>8 DEF Returned, Clamped
    <2>3. ASSUME Next, ~Reconcile, ~Start
          PROVE  sig = app.lastSig \/ ~running'
      <3>1. CASE User
        <4>1. ASSUME NEW m, NEW i, SwitchSpace(m, i) PROVE sig = app.lastSig
          BY <4>1 DEF SwitchSpace
        <4>2. ASSUME NEW w, NEW i, MoveToSpace(w, i) PROVE sig = app.lastSig
          BY <4>2 DEF MoveToSpace
        <4>3. ASSUME NEW g, Recounted(g) PROVE sig = app.lastSig
          <5>1. app \in App /\ app' = Merged(app, g)
            BY <1>1, <4>3 DEF LayoutInv, IsApp, Recounted
          <5> QED
            BY <5>1 DEF Merged, MergedStoreOnly, App
        <4> QED
          BY <3>1, <4>1, <4>2, <4>3 DEF User, AddSpace, RemoveSpace
      <3>2. ASSUME Persist PROVE sig = app.lastSig
        <4>1. app \in App
          BY <1>1 DEF LayoutInv, IsApp
        <4> QED
          BY <3>2, <4>1 DEF Persist, App
      <3>3. CASE Environment
        BY <3>2, <3>3 DEF Environment, Open, Drag, Close, PlugOrUnplug, SessionChange,
                          Suspend, World
      <3>4. CASE Timers
        <4>1. CASE ShadowTick
          <5>1. app \in App
            BY <1>1 DEF LayoutInv, IsApp
          <5> QED
            BY <4>1, <5>1 DEF ShadowTick, App
        <4>2. CASE PersistTimer \/ SettleElapses \/ EnforcementElapses
          BY <3>2, <4>2 DEF PersistTimer, SettleElapses, EnforcementElapses
        <4> QED
          BY <2>3, <3>4, <4>1, <4>2 DEF Timers
      <3>5. CASE DisplayChange \/ ScanWindows \/ Exit \/ Crash
        BY <3>5 DEF DisplayChange, ScanWindows, Exit, Crash
      <3> QED
        BY <2>3, <3>1, <3>3, <3>4, <3>5 DEF Next
    <2>4. CASE UNCHANGED vars
      BY <1>1, <2>4 DEF vars
    <2> QED
      BY <1>1, <2>1, <2>2, <2>3, <2>4
  <1>2. LayoutInv /\ [Next]_vars => [Replay => Back]_vars
    BY <1>1
  <1> QED
    BY <1>2, LayoutAlwaysSound, PTL DEF Spec, ReplayReturns
=============================================================================
