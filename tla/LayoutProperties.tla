--------------------------- MODULE LayoutProperties ---------------------------
(***************************************************************************)
(* What the layout memory promises.                                         *)
(***************************************************************************)
EXTENDS Layout

Known == Stored(app.layouts, mgr.table)

\* The number of spaces of a display is structure, not layout: whatever is
\* captured, merged, written and replayed, the stored entry of the present
\* topology has the counts the user sees (merge_space_counts against
\* persist_shadow and apply_space_counts).  A remote session is left out: its
\* entry is applied at a start only.
CountsSurvive ==
  running /\ Known /\ mgr.table # Remote =>
    \A m \in mgr.table : Entry(app.layouts, mgr.table).rows[m] = mgr.rows[m]

\* When a known topology comes back, or the daemon starts on one with replay
\* on, every open window with an entry is back on the display and the space it
\* was captured on, and every display shows the space it showed
\* (reconcile_topology, restore_snapshot); a place past the end of a row that
\* has been shortened since is its last.
\* Whether the entry is the newest is not judged here.
ReplayReturns ==
  [][LET sig  == app'.lastSig
         snap == Entry(app'.layouts, sig)
         fit(m, i) == IF i > snap.rows[m] THEN snap.rows[m] ELSE i
     IN  /\ running' /\ sig # app.lastSig /\ sig # Remote
         /\ running \/ enforcing'
         /\ Stored(app'.layouts, sig)
         => /\ \A w \in Windows : at[w] # None /\ snap.home[w] # None =>
                 LET m == snap.home[w][1]
                 IN  mgr'.home[w] = <<m, fit(m, snap.home[w][2])>> /\ at'[w] = m
            /\ \A m \in sig : mgr'.current[m] = fit(m, snap.current[m])]_vars

\* Once displays stop changing, the monitor table is the attached displays,
\* whatever was pending, announced or lost with the process on the way
\* (schedule_reconcile, reconcile_topology).
TableFollows == <>[](mgr.table = plugged /\ app.lastSig = plugged)

\* Once nothing changes any more, the layout on disk is the one on screen: no
\* deadline keeps the shadow from being captured for good, and what is captured
\* is written.  Only a write that failed may be missing: it is not tried again
\* before the next change (shadow_tick, persist_shadow).
LayoutReachesDisk ==
  <>[](LET seen == Captured(mgr).home
           lost == app.dirty /\ ~app.writing
       IN  \/ mgr.table = Remote \/ lost
           \/ \A w \in Windows : seen[w] = None
           \/ Stored(disk, mgr.table) /\ Entry(disk, mgr.table).home = seen)
=============================================================================
