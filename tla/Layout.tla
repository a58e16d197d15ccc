------------------------------- MODULE Layout -------------------------------
(***************************************************************************)
(* The layout memory: for every set of attached displays (a topology) the   *)
(* daemon keeps one snapshot of where the windows live, and replays it when *)
(* that topology comes back (winspaces-core/src/layout_store.rs,            *)
(* winspaces/src/shadow.rs, handlers/session.rs).  Displays go and come,    *)
(* the OS moving windows along before it says so; the rebuild of the        *)
(* monitor table is debounced; a shadow of the layout is captured by a      *)
(* timer, written to disk by another, and lost with the process.            *)
(*                                                                          *)
(* Every window is the only one of its application, so it is the one its    *)
(* entry is assigned to; how identical windows compete for entries is left  *)
(* out.  Geometry is the display a window is on.                            *)
(***************************************************************************)
EXTENDS Naturals, Sequences, SequencesExt, FiniteSets, FiniteSetsExt

CONSTANTS
  Windows,
  Monitors,       \* displays, by stable id
  Topologies,     \* the sets of displays that can be attached
  Remote,         \* the topology of a remote session
  MaxSpaces,      \* MAX_SPACES
  DefaultSpaces,  \* DEFAULT_SPACES
  MaxTopologies,  \* MAX_TOPOLOGIES
  None,           \* no place, no snapshot
  Budget          \* bound: how often the user or the world may interfere

ASSUME LayoutAssumption ==
  /\ Topologies \subseteq SUBSET Monitors
  /\ Remote \in Topologies
  /\ MaxSpaces \in Nat /\ DefaultSpaces \in 1..MaxSpaces
  /\ MaxTopologies \in Nat \ {0}
  /\ Budget \in Nat

VARIABLES
  at,         \* the display each window is physically on, None when closed
  plugged,    \* the attached displays
  notice,     \* a WM_DISPLAYCHANGE is on its way
  mgr,        \* the manager: see Mgr
  pending,    \* reconcile_pending, and its timer
  settling,   \* is_settling
  enforcing,  \* is_enforcing_restore
  app,        \* AppState's part: see App
  disk,       \* layouts.json
  running,
  budget

vars == <<at, plugged, notice, mgr, pending, settling, enforcing, app, disk,
          running, budget>>

Places == Monitors \X (1..MaxSpaces)

\* table: the displays in the monitor table; rows, current: their numbers of
\* spaces and current spaces; home: where each window is tracked; targets:
\* what the last replay placed where.
Mgr == [table : SUBSET Monitors, rows : [Monitors -> Nat], current : [Monitors -> Nat],
        home : [Windows -> Places \cup {None}], targets : [Windows -> Places \cup {None}]]

\* TopologySnapshot, without the geometry.
Snapshot == [sig : SUBSET Monitors, rows : [Monitors -> Nat],
             current : [Monitors -> Nat], home : [Windows -> Places \cup {None}]]

\* LayoutStore::topologies, least recently captured first.
Store == Seq(Snapshot)

\* writing: TIMER_PERSIST is armed.
App == [lastSig : SUBSET Monitors, shadow : Snapshot \cup {None}, dirty : BOOLEAN,
        writing : BOOLEAN, layouts : Store]

TypeOK ==
  /\ at \in [Windows -> Monitors \cup {None}]
  /\ plugged \in Topologies
  /\ mgr \in Mgr
  /\ app.lastSig \subseteq Monitors
  /\ app.shadow = None \/ app.shadow \in Snapshot
  /\ \A k \in DOMAIN app.layouts : app.layouts[k] \in Snapshot
  /\ \A k \in DOMAIN disk : disk[k] \in Snapshot
  /\ {notice, pending, settling, enforcing, running, app.dirty, app.writing} \subseteq BOOLEAN
  /\ budget \in 0..Budget

-----------------------------------------------------------------------------
(* The store *)

Stored(store, sig) == \E k \in DOMAIN store : store[k].sig = sig

Slot(store, sig) == CHOOSE k \in DOMAIN store : store[k].sig = sig

Entry(store, sig) == store[Slot(store, sig)]

\* What an entry for sig leaves of the store: all but the entry it replaces,
\* or, when it replaces none and the store is full, the oldest.
Without(store, sig) ==
  IF Stored(store, sig) THEN RemoveAt(store, Slot(store, sig))
  ELSE IF Len(store) < MaxTopologies THEN store ELSE Tail(store)

\* LayoutStore::upsert
Upsert(store, snap) == Append(Without(store, snap.sig), snap)

-----------------------------------------------------------------------------
(* The manager *)

\* capture_active_workspace: the tracked windows that are there.
Walked(g) == [w \in Windows |-> IF at[w] = None THEN None ELSE g.home[w]]

\* capture_snapshot
Captured(g) == [sig |-> g.table, rows |-> g.rows, current |-> g.current, home |-> Walked(g)]

\* Where space i is once space r is gone; its windows go to the left.
AfterRemoval(i, r) == IF i > r \/ (i = r /\ i > 1) THEN i - 1 ELSE i

Shorter(g, m, r) ==
  [g EXCEPT !.rows[m] = @ - 1,
            !.current[m] = AfterRemoval(@, r),
            !.home = [w \in Windows |->
              IF @[w] # None /\ @[w][1] = m
              THEN <<m, AfterRemoval(@[w][2], r)>> ELSE @[w]]]

\* set_space_count: shrinking removes the last space until it fits, which is
\* to clamp every index.
Clamped(i, n) == IF i > n THEN n ELSE i

\* apply_space_counts
WithCounts(g, snap) ==
  LET known == g.table \cap snap.sig
      idx(m, i) == IF m \in known THEN Clamped(i, snap.rows[m]) ELSE i
  IN  [g EXCEPT !.rows = [m \in Monitors |-> IF m \in known THEN snap.rows[m] ELSE @[m]],
                !.current = [m \in Monitors |-> idx(m, @[m])],
                !.home = [w \in Windows |->
                   IF @[w] = None THEN None ELSE <<@[w][1], idx(@[w][1], @[w][2])>>]]

\* Untracked windows are adopted on the current space of their display.
Adopted(g) ==
  [g EXCEPT !.home = [w \in Windows |->
     IF at[w] = None THEN None
     ELSE IF @[w] = None /\ at[w] \in g.table THEN <<at[w], g.current[at[w]]>> ELSE @[w]]]

\* handle_display_change: displays are matched by stable id; the windows of
\* those that are gone are found again where the OS put them.
Rebuilt(g) ==
  LET fresh == plugged \ g.table
      loose == {w \in Windows : g.home[w] # None /\ g.home[w][1] \notin plugged}
  IN  Adopted([g EXCEPT
        !.table   = plugged,
        !.rows    = [m \in Monitors |-> IF m \notin plugged THEN 0
                                        ELSE IF m \in fresh THEN DefaultSpaces ELSE @[m]],
        !.current = [m \in Monitors |-> IF m \in plugged \ fresh THEN @[m] ELSE 1],
        !.home    = [w \in Windows |-> IF w \in loose THEN None ELSE @[w]]])

\* The windows a snapshot places: open, with an entry, on an attached display.
Placed(g, snap) ==
  {w \in Windows : at[w] # None /\ snap.home[w] # None /\ snap.home[w][1] \in g.table}

\* Faulty variant: the windows are placed before the rows have their length.
ReplayedBeforeCounts(g, snap) ==
  LET put == [w \in Windows |->
                IF w \in Placed(g, snap)
                THEN <<snap.home[w][1], Clamped(snap.home[w][2], g.rows[snap.home[w][1]])>>
                ELSE g.home[w]]
  IN  WithCounts([g EXCEPT !.home = put, !.targets = put], snap)

\* restore_snapshot
Replayed(g, snap) ==
  LET sized == WithCounts(g, snap)
      to(w) == <<snap.home[w][1], Clamped(snap.home[w][2], sized.rows[snap.home[w][1]])>>
      put   == Placed(g, snap)
  IN  [sized EXCEPT
        !.home    = [w \in Windows |-> IF w \in put THEN to(w) ELSE @[w]],
        !.targets = [w \in Windows |-> IF w \in put THEN snap.home[w] ELSE None],
        !.current = [m \in Monitors |-> IF m \in g.table \cap snap.sig
                                        THEN Clamped(snap.current[m], sized.rows[m])
                                        ELSE @[m]]]

\* apply_rule_to_window moves what is placed onto its display.
Moved(put, snap) == [w \in Windows |-> IF w \in put THEN snap.home[w][1] ELSE at[w]]

-----------------------------------------------------------------------------
(* The user *)

Spend == budget > 0 /\ budget' = budget - 1

OnlyMgr == UNCHANGED <<at, plugged, notice, pending, settling, enforcing, disk, running>>

SwitchSpace(m, i) ==
  /\ running /\ Spend
  /\ m \in mgr.table /\ i \in 1..mgr.rows[m] /\ i # mgr.current[m]
  /\ mgr' = [mgr EXCEPT !.current[m] = i]
  /\ UNCHANGED app /\ OnlyMgr

MoveToSpace(w, i) ==
  /\ running /\ Spend
  /\ at[w] # None /\ mgr.home[w] # None
  /\ i \in 1..mgr.rows[mgr.home[w][1]] /\ i # mgr.home[w][2]
  /\ mgr' = [mgr EXCEPT !.home[w] = <<@[1], i>>]
  /\ UNCHANGED app /\ OnlyMgr

\* The counts go into the stored entry, or into one without windows.  (As all
\* of merge_space_counts, a faulty variant: the shadow keeps the old counts.)
MergedStoreOnly(a, g) ==
  [a EXCEPT !.layouts =
     IF Stored(@, g.table)
     THEN [k \in DOMAIN @ |-> IF @[k].sig = g.table THEN [@[k] EXCEPT !.rows = g.rows] ELSE @[k]]
     ELSE Upsert(@, [Captured(g) EXCEPT !.home = [w \in Windows |-> None]])]

\* merge_space_counts: into the shadow, too.
Merged(a, g) ==
  [MergedStoreOnly(a, g) EXCEPT !.shadow =
     IF @ # None /\ @.sig = g.table THEN [@ EXCEPT !.rows = g.rows] ELSE @]

\* save_to_file: the whole store, by temporary file and rename, or not at all.
Save(layouts) == disk' \in {disk, layouts}

\* add_space_on and remove_space_on with persist_space_counts.
Recounted(g) ==
  /\ mgr' = g
  /\ app' = Merged(app, g)
  /\ Save(app'.layouts)
  /\ UNCHANGED <<at, plugged, notice, pending, settling, enforcing, running>>

AddSpace(m) ==
  /\ running /\ Spend
  /\ m \in mgr.table /\ mgr.rows[m] < MaxSpaces
  /\ Recounted([mgr EXCEPT !.rows[m] = @ + 1])

RemoveSpace(m, r) ==
  /\ running /\ Spend
  /\ m \in mgr.table /\ mgr.rows[m] > 1 /\ r \in 1..mgr.rows[m]
  /\ Recounted(Shorter(mgr, m, r))

-----------------------------------------------------------------------------
(* The windows and the displays *)

World == UNCHANGED <<mgr, pending, settling, enforcing, app, disk, running>>

Open(w, m) ==
  /\ Spend
  /\ at[w] = None /\ m \in plugged
  /\ at' = [at EXCEPT ![w] = m]
  /\ World /\ UNCHANGED <<plugged, notice>>

Close(w) ==
  /\ Spend
  /\ at[w] # None
  /\ at' = [at EXCEPT ![w] = None]
  /\ World /\ UNCHANGED <<plugged, notice>>

Drag(w, m) ==
  /\ Spend
  /\ at[w] # None /\ m \in plugged \ {at[w]}
  /\ at' = [at EXCEPT ![w] = m]
  /\ World /\ UNCHANGED <<plugged, notice>>

\* Displays come and go; the OS reflows the windows of those that go first.
PlugOrUnplug(T) ==
  /\ Spend
  /\ T # plugged /\ plugged' = T
  /\ at' \in [Windows -> T \cup {None}]
  /\ \A w \in Windows : at[w] \in T \cup {None} => at'[w] = at[w]
  /\ \A w \in Windows : at[w] # None => at'[w] # None
  /\ notice' = running
  /\ World

-----------------------------------------------------------------------------
(* Handlers *)

\* scan_untracked_windows, outside a rebuild: dead windows are pruned, with
\* their targets, new ones adopted, and one that sits on another display is
\* pushed back while a replay is enforced and re-homed otherwise.
ScanWindows ==
  LET pruned  == Adopted([mgr EXCEPT !.targets = [w \in Windows |->
                            IF at[w] = None THEN None ELSE @[w]]])
      drifted == {w \in Windows : /\ at[w] \in mgr.table
                                  /\ pruned.home[w] # None /\ pruned.home[w][1] # at[w]}
      back    == {w \in drifted : enforcing /\ pruned.targets[w] # None
                                            /\ pruned.targets[w][1] \in mgr.table}
      seen    == IF pending \/ settling THEN {} ELSE drifted
      fit(p)  == <<p[1], Clamped(p[2], mgr.rows[p[1]])>>
  IN  /\ running
      /\ mgr' = [pruned EXCEPT !.home = [w \in Windows |->
                   IF w \notin seen THEN @[w]
                   ELSE IF w \in back THEN fit(pruned.targets[w])
                   ELSE <<at[w], mgr.current[at[w]]>>]]
      /\ at' = [w \in Windows |-> IF w \in seen \cap back THEN mgr.targets[w][1] ELSE at[w]]
      /\ UNCHANGED <<plugged, notice, pending, settling, enforcing, app, disk, running, budget>>

\* Faulty variant: the message arrives inside another handler and is dropped.
DisplayChangeDropped ==
  /\ running /\ notice
  /\ notice' = FALSE
  /\ UNCHANGED <<at, plugged, mgr, pending, settling, enforcing, app, disk, running, budget>>

\* schedule_reconcile: WM_DISPLAYCHANGE ...
DisplayChange ==
  /\ running /\ notice
  /\ notice' = FALSE /\ pending' = TRUE
  /\ UNCHANGED <<at, plugged, mgr, settling, enforcing, app, disk, running, budget>>

\* ... a session change, or a resume.
SessionChange ==
  /\ running /\ Spend
  /\ pending' = TRUE
  /\ UNCHANGED <<at, plugged, notice, mgr, settling, enforcing, app, disk, running>>

\* Replays the entry of the present topology on g, if there is one.
Restore(g, store, wanted) ==
  IF wanted /\ Stored(store, g.table)
  THEN LET snap == Entry(store, g.table)
       IN  /\ mgr' = Replayed(g, snap)
           /\ at' = Moved(Placed(g, snap), snap)
           /\ settling' = TRUE /\ enforcing' = TRUE
  ELSE /\ mgr' = g
       /\ UNCHANGED <<at, settling, enforcing>>

\* reconcile_topology
Reconcile ==
  LET g == Rebuilt(mgr)
  IN  /\ running /\ pending
      /\ pending' = FALSE
      /\ IF g.table = app.lastSig
         THEN mgr' = g /\ UNCHANGED <<at, settling, enforcing, app>>
         ELSE /\ app' = [app EXCEPT !.lastSig = g.table, !.shadow = None]
              /\ Restore(g, app.layouts, plugged # Remote)
      /\ UNCHANGED <<plugged, notice, disk, running, budget>>

Quiet == ~pending /\ ~settling /\ ~enforcing /\ plugged # Remote

\* Faulty variant: a layout is captured only when its counts have changed.
SameLayoutByCounts(a, b) == a.sig = b.sig /\ a.rows = b.rows

\* same_layout
SameLayout(a, b) == a = b

\* shadow_tick
ShadowTick ==
  LET snap == Captured(mgr)
  IN  /\ running /\ Quiet
      /\ \E w \in Windows : snap.home[w] # None
      /\ app.shadow # None => ~SameLayout(app.shadow, snap)
      /\ app' = [app EXCEPT !.shadow = snap, !.dirty = TRUE, !.writing = TRUE]
      /\ UNCHANGED <<at, plugged, notice, mgr, pending, settling, enforcing, disk,
                     running, budget>>

\* persist_shadow: what it leaves in app and on disk.
Persist ==
  LET flush  == app.dirty /\ app.shadow # None
      merged == Upsert(app.layouts, app.shadow)
  IN  IF ~flush THEN app' = [app EXCEPT !.writing = FALSE] /\ UNCHANGED disk
      ELSE \E ok \in BOOLEAN :
             /\ app' = [app EXCEPT !.writing = FALSE, !.layouts = merged, !.dirty = ~ok]
             /\ disk' = IF ok THEN merged ELSE disk

\* TIMER_PERSIST; a write that fails is not tried again by itself.
PersistTimer ==
  /\ running /\ app.writing
  /\ Persist
  /\ UNCHANGED <<at, plugged, notice, mgr, pending, settling, enforcing, running, budget>>

\* PBT_APMSUSPEND
Suspend ==
  /\ running /\ Spend
  /\ Persist
  /\ UNCHANGED <<at, plugged, notice, mgr, pending, settling, enforcing, running>>

SettleElapses ==
  /\ settling /\ settling' = FALSE
  /\ UNCHANGED <<at, plugged, notice, mgr, pending, enforcing, app, disk, running, budget>>

\* The enforcement outlasts the settling: 15 s against 4 s.
EnforcementElapses ==
  /\ enforcing /\ ~settling /\ enforcing' = FALSE
  /\ UNCHANGED <<at, plugged, notice, mgr, pending, settling, app, disk, running, budget>>

-----------------------------------------------------------------------------
(* The daemon's life *)

NoMgr == [table |-> {}, rows |-> [m \in Monitors |-> 0], current |-> [m \in Monitors |-> 1],
          home |-> [w \in Windows |-> None], targets |-> [w \in Windows |-> None]]

NoApp == [lastSig |-> {}, shadow |-> None, dirty |-> FALSE, writing |-> FALSE, layouts |-> <<>>]

\* The end of WinMain, or WM_ENDSESSION: the layout is written.
Exit ==
  /\ running /\ Spend
  /\ \E written \in BOOLEAN :
       disk' = IF written /\ app.dirty /\ app.shadow # None
               THEN Upsert(app.layouts, app.shadow) ELSE disk
  /\ running' = FALSE /\ mgr' = NoMgr /\ app' = NoApp
  /\ notice' = FALSE /\ pending' = FALSE /\ settling' = FALSE /\ enforcing' = FALSE
  /\ UNCHANGED <<at, plugged>>

Crash ==
  /\ running /\ Spend
  /\ running' = FALSE /\ mgr' = NoMgr /\ app' = NoApp
  /\ notice' = FALSE /\ pending' = FALSE /\ settling' = FALSE /\ enforcing' = FALSE
  /\ UNCHANGED <<at, plugged, disk>>

\* WinMain: the counts of the stored layout are applied, and the layout itself
\* when auto_restore_workspaces is on and the session is not remote.
Start ==
  LET fresh   == Rebuilt(NoMgr)
      counted == IF Stored(disk, plugged) THEN WithCounts(fresh, Entry(disk, plugged)) ELSE fresh
  IN  /\ ~running /\ running' = TRUE
      /\ app' = [NoApp EXCEPT !.lastSig = plugged, !.layouts = disk]
      /\ \E auto \in BOOLEAN : Restore(counted, disk, auto /\ plugged # Remote)
      /\ UNCHANGED <<plugged, notice, pending, disk, budget>>

-----------------------------------------------------------------------------
Init ==
  /\ at \in [Windows -> Monitors \cup {None}]
  /\ plugged \in Topologies
  /\ \A w \in Windows : at[w] \in plugged \cup {None}
  /\ mgr = NoMgr /\ app = NoApp /\ disk = <<>>
  /\ notice = FALSE /\ pending = FALSE /\ settling = FALSE /\ enforcing = FALSE
  /\ running = FALSE /\ budget = Budget

User ==
  \/ \E m \in Monitors, i \in 1..MaxSpaces : SwitchSpace(m, i) \/ RemoveSpace(m, i)
  \/ \E m \in Monitors : AddSpace(m)
  \/ \E w \in Windows, i \in 1..MaxSpaces : MoveToSpace(w, i)

Environment ==
  \/ \E w \in Windows, m \in Monitors : Open(w, m) \/ Drag(w, m)
  \/ \E w \in Windows : Close(w)
  \/ \E T \in Topologies : PlugOrUnplug(T)
  \/ SessionChange \/ Suspend

Timers == Reconcile \/ ShadowTick \/ PersistTimer \/ SettleElapses \/ EnforcementElapses

Next == User \/ Environment \/ DisplayChange \/ ScanWindows \/ Timers
          \/ Exit \/ Crash \/ Start

Spec == Init /\ [][Next]_vars

\* Windows delivers posted messages and fires armed timers, deadlines pass,
\* and a daemon that is down is started again.
Fairness ==
  /\ WF_vars(DisplayChange) /\ WF_vars(Reconcile)
  /\ WF_vars(ShadowTick) /\ WF_vars(PersistTimer)
  /\ WF_vars(SettleElapses) /\ WF_vars(EnforcementElapses)
  /\ WF_vars(Start)

FairSpec == Spec /\ Fairness
=============================================================================
