-------------------------------- MODULE Spaces --------------------------------
(***************************************************************************)
(* The space manager of the daemon (winspaces-core/src/spaces) with the     *)
(* handlers that drive it (winspaces/src): which space of which display     *)
(* every window is tracked on, which spaces are current, which windows are  *)
(* pinned, and what the daemon has done to each window to make the screen   *)
(* agree.  The handlers run one at a time on the message-loop thread, each  *)
(* inside with_app_state, so one handler is one step; between two steps the *)
(* user, the applications and the operating system change the windows.      *)
(*                                                                          *)
(* desk holds what a handler reads and writes; the operators below are the  *)
(* manager's methods as functions from a desk to the desk they leave.       *)
(*   win      the OS side of every window, with its state property          *)
(*   spaces   monitors[m].spaces, one set of windows per space; <<>> when m *)
(*            is not in the monitor table                                   *)
(*   current  monitors[m].current                                           *)
(*   pinned   sticky_windows          focus  focus_memory                   *)
(*   fg       the OS foreground window                                      *)
(* Spaces and displays are counted from 1.  The order of the windows of a   *)
(* space is abstracted: it decides which of several windows a switch        *)
(* focuses, which is a choice here.                                         *)
(***************************************************************************)
EXTENDS WindowState, FiniteSets, Sequences, SequencesExt

CONSTANTS
  Windows,        \* window handles
  SystemWindows,  \* those whose title is on the exact-title system list
  Elevated,       \* those that refuse DWMWA_CLOAK
  NoWindow,       \* no foreground window, or one the daemon never manages
  NoMonitor,      \* no entry of the monitor table
  MaxSpaces,      \* MAX_SPACES
  DefaultSpaces,  \* DEFAULT_SPACES
  Env             \* what the environment may do: see the section below

ASSUME SpacesAssumption ==
  /\ SystemWindows \subseteq Windows
  /\ Elevated \subseteq Windows
  /\ NoWindow \notin Windows
  /\ NoMonitor \notin Monitors
  /\ MaxSpaces \in Nat
  /\ DefaultSpaces \in 1..MaxSpaces

VARIABLES
  desk,        \* see above
  plugged,     \* the displays attached now
  notice,      \* a WM_DISPLAYCHANGE is on its way
  pending,     \* reconcile_pending
  settling,    \* suppress_rehome_until has not passed
  suppressed,  \* suppress_foreground_until has not passed
  showAll,     \* show_all_taskbar
  proxy,       \* what the services that cloak answer
  phase        \* the daemon: "running", "exited", "crashed"

vars == <<desk, plugged, notice, pending, settling, suppressed, showAll, proxy, phase>>

Desk == [win     : [Windows -> Window],
         spaces  : [Monitors -> Seq(SUBSET Windows)],
         current : [Monitors -> Nat],
         pinned  : SUBSET Windows,
         focus   : SUBSET Windows,
         fg      : Windows \cup {NoWindow}]

TypeOK ==
  /\ desk \in Desk
  /\ plugged \in SUBSET Monitors
  /\ notice \in BOOLEAN
  /\ pending \in BOOLEAN
  /\ settling \in BOOLEAN
  /\ suppressed \in BOOLEAN
  /\ showAll \in BOOLEAN
  /\ proxy \in Proxies
  /\ phase \in {"running", "exited", "crashed"}

-----------------------------------------------------------------------------
(* Queries on a desk *)

\* The monitor table.
Table(d) == {m \in Monitors : Len(d.spaces[m]) > 0}

Valid(d, w) == IsValid(d.win[w])

\* Every <<display, space>> whose list holds w.
Places(d, w) ==
  {p \in Monitors \X (1..MaxSpaces) :
     p[2] \in DOMAIN d.spaces[p[1]] /\ w \in d.spaces[p[1]][p[2]]}

Tracked(d, w) == Places(d, w) # {}

\* find_window, for a tracked window.
Home(d, w) == CHOOSE p \in Places(d, w) : TRUE

\* monitor_index_for_hwnd
MonitorOf(d, w) == IF d.win[w].mon \in Table(d) THEN d.win[w].mon ELSE NoMonitor

\* The windows of one display, and those should_be_visible wants up on it.
On(d, m) == UNION {d.spaces[m][i] : i \in DOMAIN d.spaces[m]}
\* Faulty variant: the pins are forgotten.
UpCurrentOnly(d, m) == d.spaces[m][d.current[m]]

Up(d, m) == d.spaces[m][d.current[m]] \cup (On(d, m) \cap d.pinned)

-----------------------------------------------------------------------------
(* Membership: remove_window, detach_window, track_window *)

\* Drop the windows of S from every list.
Dropped(spaces, S) ==
  [m \in Monitors |-> [i \in DOMAIN spaces[m] |-> spaces[m][i] \ S]]

Detach(d, w) ==
  IF ~Tracked(d, w) THEN d
  ELSE [d EXCEPT !.spaces = Dropped(@, {w}), !.win[w] = Forgotten(@)]

RemoveWindow(d, w) ==
  [Detach(d, w) EXCEPT !.pinned = @ \ {w}, !.focus = @ \ {w}]

\* track_window's first branch: nothing to manage, so restore and forget.
Untracked(d, w) ==
  LET restored == IF MustRestoreBeforeUntrack(d.win[w])
                  THEN [d EXCEPT !.win[w] = Show(@, proxy)] ELSE d
  IN  RemoveWindow(restored, w)

\* Faulty variant: pushed without leaving the old list.
PlaceWithoutDetach(d, to) ==
  [d EXCEPT !.spaces = [m \in Monitors |-> [i \in DOMAIN d.spaces[m] |->
     d.spaces[m][i] \cup {w \in DOMAIN to : to[w] = <<m, i>>}]]]

\* The rest of track_window for valid windows: to maps each of them to the
\* display and space it is pushed onto.
Place(d, to) ==
  [d EXCEPT
     !.win = [w \in Windows |->
                IF w \in DOMAIN to
                THEN [d.win[w] EXCEPT !.prop = TrackedProp(d.win[w])]
                ELSE d.win[w]],
     !.spaces = [m \in Monitors |-> [i \in DOMAIN d.spaces[m] |->
                   (d.spaces[m][i] \ DOMAIN to)
                     \cup {w \in DOMAIN to : to[w] = <<m, i>>}]]]

\* track_window(w, m, i).  A display that is not attached falls back to the
\* one the window is on, and the window is left untracked when it is on none.
Track(d, w, m, i) ==
  LET at == IF m \in Table(d) THEN m ELSE MonitorOf(d, w)
      clamped == IF i \in DOMAIN d.spaces[at] THEN i ELSE Len(d.spaces[at])
  IN  IF Table(d) = {} \/ ~Valid(d, w) THEN Untracked(d, w)
      ELSE IF at = NoMonitor THEN Detach(d, w)
      ELSE Place(d, [x \in {w} |-> <<at, clamped>>])

\* prune_dead_windows; focus_memory is not pruned.
Prune(d) ==
  LET dead == {w \in Windows : ~d.win[w].live}
  IN  [d EXCEPT !.spaces = Dropped(@, dead), !.pinned = @ \ dead]

-----------------------------------------------------------------------------
(* scan_untracked_windows, and the re-homing it shares with activations *)

\* adopt_cross_monitor_move's guards; restore enforcement is not modelled.
MayRehome(honoursSettle) == ~pending /\ ~(honoursSettle /\ settling)

\* Faulty variant: re-homed through remove_window, which also unpins.
AtCurrentUnpinned(d, S) ==
  [Place(d, [w \in S |-> <<d.win[w].mon, d.current[d.win[w].mon]>>])
     EXCEPT !.pinned = @ \ S]

\* Windows adopted on, or re-homed to, the current space of their display.
AtCurrent(d, S) ==
  Place(d, [w \in S |-> <<d.win[w].mon, d.current[d.win[w].mon]>>])

Scan(d) ==
  LET p       == Prune(d)
      seen    == {w \in Windows : p.win[w].live /\ ~HasHiddenBit(p.win[w])}
      system  == {w \in seen \cap SystemWindows :
                    p.win[w].titled /\ "TRACKED" \notin p.win[w].prop}
      hide    == {w \in system : /\ "SYSTEM_HIDDEN" \notin p.win[w].prop
                                 /\ SystemWindowIsShowing(p.win[w])}
      found   == {w \in seen \ system : Valid(p, w) /\ MonitorOf(p, w) # NoMonitor}
      drifted == {w \in found : Tracked(p, w) /\ Home(p, w)[1] # p.win[w].mon}
      adopt   == {w \in found : ~Tracked(p, w)}
                   \cup (IF MayRehome(TRUE) THEN drifted ELSE {})
      swept   == [p EXCEPT !.win = [w \in Windows |->
                    IF w \in hide THEN HideSystem(p.win[w]) ELSE p.win[w]]]
  IN  AtCurrent(swept, adopt)

-----------------------------------------------------------------------------
(* Visibility passes and switching *)

\* Show what belongs up on the displays of M, then hide the rest of what is
\* tracked there; a window the eligibility probe rejects is left alone.
Refresh(d, M) ==
  LET up == UNION {Up(d, m) : m \in M}
      on == UNION {On(d, m) : m \in M}
  IN  [d EXCEPT !.win = [w \in Windows |->
         IF ~Valid(d, w) \/ w \notin on THEN d.win[w]
         ELSE IF w \in up THEN Show(d.win[w], proxy)
         ELSE Hide(d.win[w], showAll, proxy)]]

\* Faulty variant: hides the outgoing space only.
SwitchOutgoingOnly(d, m, i) ==
  LET next == [d EXCEPT !.current[m] = i]
  IN  [next EXCEPT !.win = [w \in Windows |->
         IF ~Valid(d, w) THEN d.win[w]
         ELSE IF w \in Up(next, m) THEN Show(d.win[w], proxy)
         ELSE IF w \in d.spaces[m][d.current[m]]
         THEN Hide(d.win[w], showAll, proxy) ELSE d.win[w]]]

\* The part of switch_space between the throttled scan and the focus change.
Switch(d, m, i) ==
  LET left     == d.spaces[m][d.current[m]]
      remember == IF d.current[m] = i THEN d.focus
                  ELSE (d.focus \ left) \cup (left \cap {d.fg})
  IN  Refresh([d EXCEPT !.current[m] = i, !.focus = remember], {m})

\* The windows a switch that names none may focus, {NoWindow} for none:
\* the remembered window, the space's own, then whatever else is up.
Focusable(d, S) == {w \in S : Valid(d, w) /\ "WAS_ICONIC" \notin d.win[w].prop}

LastOf(d, S) ==
  IF Focusable(d, S) # {} THEN Focusable(d, S)
  ELSE {w \in S : Valid(d, w)}
         \cup (IF S # {} /\ \A w \in S : Valid(d, w) THEN {} ELSE {NoWindow})

\* Faulty variant: any window of the display.
LandingAnywhere(d, m) == LastOf(d, On(d, m))

Landing(d, m) ==
  LET own        == d.spaces[m][d.current[m]]
      remembered == own \cap d.focus
      others     == IF remembered # {} /\ remembered \subseteq Focusable(d, own)
                    THEN {} ELSE LastOf(d, own)
  IN  (Focusable(d, own) \cap remembered) \cup (others \ {NoWindow})
        \cup (IF NoWindow \in others THEN LastOf(d, Up(d, m)) ELSE {})

\* SetForegroundWindow
Focused(d, w) ==
  IF w # NoWindow /\ d.win[w].live THEN [d EXCEPT !.fg = w] ELSE d

\* switch_space(m, i, activate) from d: the scan runs unless one completed in
\* the last SCAN_THROTTLE_MS, and every display's activations are suppressed.
SwitchFrom(d, m, i, activate) ==
  /\ suppressed' = TRUE
  /\ \E scanned \in {d, Scan(d)} :
       LET switched == Switch(scanned, m, i)
       IN  IF activate # NoWindow THEN desk' = Focused(switched, activate)
           ELSE \E w \in Landing(switched, m) : desk' = Focused(switched, w)

-----------------------------------------------------------------------------
(* User commands: hotkeys, tray and Overview *)

Running == phase = "running"

\* What commands never change.
World == <<plugged, notice, showAll, proxy, phase>>

\* go_to_space, on the display under the cursor.
GoToSpace(m, i) ==
  /\ Running
  /\ m \in Table(desk)
  /\ i \in DOMAIN desk.spaces[m] /\ i # desk.current[m]
  /\ SwitchFrom(desk, m, i, NoWindow)
  /\ UNCHANGED <<World, pending, settling>>

\* The tray's switch command, which does not skip the space already showing.
TraySwitch(m, i) ==
  /\ Running
  /\ m \in Table(desk) /\ i \in DOMAIN desk.spaces[m]
  /\ SwitchFrom(desk, m, i, NoWindow)
  /\ UNCHANGED <<World, pending, settling>>

\* move_to_space: the display is the cursor's, not the window's.
MoveToSpace(m, i) ==
  /\ Running
  /\ desk.fg # NoWindow /\ Valid(desk, desk.fg)
  /\ m \in Table(desk)
  /\ i \in DOMAIN desk.spaces[m] /\ i # desk.current[m]
  /\ SwitchFrom(Track(desk, desk.fg, m, i), m, i, desk.fg)
  /\ UNCHANGED <<World, pending, settling>>

\* Overview's cards on display m: what is up there and passes the probe.
Cards(d, m) == {w \in Up(d, m) : Valid(d, w)}

\* Faulty variant: the foreground window is pinned.
PinForeground(d, w)  == [d EXCEPT !.pinned = @ \cup {d.fg}]

\* set_sticky(w, true) for a tracked window.
Pin(d, w) ==
  IF w \in d.pinned THEN d
  ELSE [d EXCEPT !.pinned = @ \cup {w}, !.win[w] = Show(@, proxy)]

\* set_sticky(w, false) for a pinned window: it stays where the user sees it.
Unpin(d, w) ==
  LET home  == Home(d, w)
      loose == [d EXCEPT !.pinned = @ \ {w}]
  IN  IF home[2] = d.current[home[1]] THEN loose
      ELSE Track(loose, w, home[1], d.current[home[1]])

\* toggle_sticky, from the hotkey (the foreground window) or a card.
TogglePin(w) ==
  /\ Running
  /\ Tracked(desk, w) /\ desk.win[w].live
  /\ \/ w = desk.fg /\ Valid(desk, w)
     \/ \E m \in Table(desk) : w \in Cards(desk, m)
  /\ desk' = IF w \in desk.pinned THEN Unpin(desk, w) ELSE Pin(desk, w)
  /\ UNCHANGED <<World, pending, settling, suppressed>>

\* Overview drag of a card onto a space of the same display.
MoveWindowToSpace(w, m, i) ==
  /\ Running
  /\ m \in Table(desk) /\ i \in DOMAIN desk.spaces[m]
  /\ w \in Cards(desk, m)
  /\ desk' = Track(desk, w, m, i)
  /\ UNCHANGED <<World, pending, settling, suppressed>>

Added(d, m) == [d EXCEPT !.spaces[m] = Append(@, {})]

\* Faulty variant: no cap.
AddSpaceUncapped(m) ==
  /\ Running
  /\ m \in Table(desk) /\ Len(desk.spaces[m]) <= MaxSpaces
  /\ desk' = Added(desk, m)
  /\ UNCHANGED <<World, pending, settling, suppressed>>

AddSpace(m) ==
  /\ Running
  /\ m \in Table(desk) /\ Len(desk.spaces[m]) < MaxSpaces
  /\ desk' = Added(desk, m)
  /\ UNCHANGED <<World, pending, settling, suppressed>>

\* Overview drag of a card onto the "New Space" tile.
MoveWindowToNewSpace(w, m) ==
  /\ Running
  /\ m \in Table(desk) /\ Len(desk.spaces[m]) < MaxSpaces
  /\ w \in Cards(desk, m)
  /\ desk' = LET added == Added(desk, m)
             IN  Track(added, w, m, Len(added.spaces[m]))
  /\ UNCHANGED <<World, pending, settling, suppressed>>

RemapAfterRemoval(i, removed) ==
  IF i > removed THEN i - 1
  ELSE IF i = removed /\ i > 1 THEN i - 1 ELSE i

RemovalMigrationTarget(removed) == IF removed = 1 THEN 2 ELSE removed - 1

\* The occupants of space i of m through track_window, one after another:
\* each is pushed onto space j or, when it is not manageable, restored and
\* forgotten.
Migrated(d, m, i, j) ==
  LET stays == {w \in d.spaces[m][i] : Valid(d, w)}
      goes  == d.spaces[m][i] \ stays
      moved == Place(d, [w \in stays |-> <<m, j>>])
  IN  [moved EXCEPT
         !.spaces = Dropped(@, goes), !.pinned = @ \ goes, !.focus = @ \ goes,
         !.win = [w \in Windows |->
                    IF w \notin goes THEN moved.win[w]
                    ELSE IF MustRestoreBeforeUntrack(d.win[w])
                    THEN Forgotten(Show(d.win[w], proxy)) ELSE Forgotten(d.win[w])]]

Shortened(d, m, i) ==
  [Migrated(d, m, i, RemovalMigrationTarget(i)) EXCEPT
     !.spaces[m] = RemoveAt(@, i), !.current[m] = RemapAfterRemoval(@, i)]

RemoveSpace(m, i) ==
  /\ Running
  /\ m \in Table(desk) /\ i \in DOMAIN desk.spaces[m] /\ Len(desk.spaces[m]) > 1
  /\ LET shorter == Shortened(desk, m, i)
     IN  SwitchFrom(shorter, m, shorter.current[m], NoWindow)
  /\ UNCHANGED <<World, pending, settling>>

\* Faulty variant: only the moved space is renumbered.
RemapMovedOnly(i, from, to) == IF i = from THEN to ELSE i

RemapAfterReorder(i, from, to) ==
  IF i = from THEN to
  ELSE IF from < i /\ i <= to THEN i - 1
  ELSE IF to <= i /\ i < from THEN i + 1 ELSE i

ReorderSpace(m, from, to) ==
  /\ Running
  /\ m \in Table(desk)
  /\ {from, to} \subseteq DOMAIN desk.spaces[m] /\ from # to
  /\ desk' = [desk EXCEPT
       !.spaces[m]  = InsertAt(RemoveAt(@, from), to, @[from]),
       !.current[m] = RemapAfterReorder(@, from, to)]
  /\ UNCHANGED <<World, pending, settling, suppressed>>

\* set_show_all_taskbar: re-hide what is hidden in the new mode.
SetShowAllTaskbar ==
  /\ Running
  /\ showAll' = ~showAll
  /\ desk' = [desk EXCEPT !.win = [w \in Windows |->
       IF /\ Valid(desk, w)
          /\ \E m \in Table(desk) : w \in On(desk, m) \ Up(desk, m)
       THEN Hide(Show(desk.win[w], proxy), ~showAll, proxy)
       ELSE desk.win[w]]]
  /\ UNCHANGED <<plugged, notice, proxy, phase, pending, settling, suppressed>>

\* restore_workspace_rules, with one matching window w and one rule for it:
\* space i of display m.  apply_rule_to_window gives w the rule's placement,
\* which makes it visible, minimized or not; that it has reached the named
\* display when track_window runs is not certain.
RestoreWorkspaceRules(w, m, i, sticky) ==
  /\ "rules" \in Env
  /\ Running
  /\ Valid(desk, w)
  /\ \E minimized \in BOOLEAN, landed \in {desk.win[w].mon} \cup ({m} \cap plugged) :
       LET put    == [desk EXCEPT !.win[w] =
                        [@ EXCEPT !.visible = "yes", !.iconic = minimized,
                                  !.mon = landed]]
           placed == Track(put, w, m, i)
           pinned == IF sticky /\ Tracked(placed, w) THEN Pin(placed, w) ELSE placed
       IN  \E scanned \in (IF Table(pinned) = {} THEN {pinned} ELSE {pinned, Scan(pinned)}) :
             LET shown == Refresh(scanned, Table(scanned))
             IN  \E f \in {NoWindow} \cup UNION {Landing(shown, n) : n \in Table(shown)} :
                   desk' = Focused(shown, f)
  /\ settling' = TRUE
  /\ suppressed' = (suppressed \/ Table(desk) # {})
  /\ UNCHANGED <<World, pending>>

-----------------------------------------------------------------------------
(* Shell and window events *)

\* handle_window_activated and resolve_activation.  A tracked window that sits
\* on another display is re-homed there instead of being switched to.
Activated(w) ==
  LET adopted == IF Tracked(desk, w) THEN desk ELSE AtCurrent(desk, {w})
      home    == Home(adopted, w)
      sits    == MonitorOf(adopted, w)
      moved   == sits \notin {NoMonitor, home[1]} /\ MayRehome(TRUE)
      rehomed == Track(adopted, w, sits, adopted.current[sits])
  IN  /\ Running
      /\ desk.win[w].live
      /\ w \notin desk.pinned
      /\ Tracked(desk, w) \/ (Valid(desk, w) /\ MonitorOf(desk, w) # NoMonitor)
      /\ IF moved
         THEN desk' = rehomed /\ UNCHANGED suppressed
         ELSE IF /\ ~suppressed
                 /\ home[2] # adopted.current[home[1]]
                 /\ Valid(adopted, w)
         THEN SwitchFrom(adopted, home[1], home[2], w)
         ELSE desk' = adopted /\ UNCHANGED suppressed
      /\ UNCHANGED <<World, pending, settling>>

\* HSHELL_WINDOWCREATED, and the scan that opens Overview.
ScanWindows ==
  /\ Running
  /\ desk' = Scan(desk)
  /\ UNCHANGED <<World, pending, settling, suppressed>>

\* HSHELL_WINDOWDESTROYED for a handle that is dead when it is handled.
WindowDestroyed(w) ==
  /\ Running
  /\ ~desk.win[w].live
  /\ desk' = RemoveWindow(desk, w)
  /\ UNCHANGED <<World, pending, settling, suppressed>>

\* TIMER_CLOSE_VERIFY
CloseVerify ==
  /\ Running
  /\ desk' = Prune(desk)
  /\ UNCHANGED <<World, pending, settling, suppressed>>

\* EVENT_OBJECT_SHOW and the minimize events, for an untracked window.
AdoptUntracked(w) ==
  /\ Running
  /\ ~Tracked(desk, w) /\ Valid(desk, w) /\ MonitorOf(desk, w) # NoMonitor
  /\ desk' = AtCurrent(desk, {w})
  /\ UNCHANGED <<World, pending, settling, suppressed>>

\* EVENT_SYSTEM_MOVESIZEEND: the one re-homing a settling placement does not
\* veto.
MoveSizeEnd(w) ==
  LET sits == MonitorOf(desk, w)
  IN  /\ Running
      /\ sits # NoMonitor
      /\ IF Tracked(desk, w) THEN Home(desk, w)[1] # sits /\ MayRehome(FALSE)
                             ELSE Valid(desk, w)
      /\ desk' = Track(desk, w, sits, desk.current[sits])
      /\ UNCHANGED <<World, pending, settling, suppressed>>

-----------------------------------------------------------------------------
(* Timers and display changes *)

SettleElapses ==
  /\ settling
  /\ settling' = FALSE
  /\ UNCHANGED <<desk, World, pending, suppressed>>

SuppressionElapses ==
  /\ suppressed
  /\ suppressed' = FALSE
  /\ UNCHANGED <<desk, World, pending, settling>>

\* schedule_reconcile, for WM_DISPLAYCHANGE.
DisplayChange ==
  /\ Running
  /\ notice
  /\ notice' = FALSE
  /\ pending' = TRUE
  /\ UNCHANGED <<desk, plugged, showAll, proxy, phase, settling, suppressed>>

\* schedule_reconcile, for a session change or a resume.
SessionChange ==
  /\ "topology" \in Env
  /\ Running
  /\ ~pending
  /\ pending' = TRUE
  /\ UNCHANGED <<desk, World, settling, suppressed>>

\* handle_display_change up to its scan: displays keep their spaces by stable
\* id, new ones start with DefaultSpaces, and what was tracked on a vanished
\* one is shown if it is valid and loses its property in any case.
Rebuilt(d) ==
  LET gone    == Table(d) \ plugged
      fresh   == plugged \ Table(d)
      loosed  == UNION {On(d, m) : m \in gone}
      restore == {w \in loosed : Valid(d, w)}
  IN  [d EXCEPT
         !.spaces  = [m \in Monitors |->
                        IF m \in fresh THEN [i \in 1..DefaultSpaces |-> {}]
                        ELSE IF m \in gone THEN <<>> ELSE d.spaces[m]],
         !.current = [m \in Monitors |->
                        IF m \in fresh \cup gone THEN 1 ELSE d.current[m]],
         !.pinned  = {w \in @ : d.win[w].live},
         !.win = [w \in Windows |->
                    IF w \notin loosed THEN d.win[w]
                    ELSE IF w \in restore THEN Forgotten(Show(d.win[w], proxy))
                    ELSE Forgotten(d.win[w])]]

\* Faulty variant: no scan at the end.
ReconcileWithoutScan ==
  /\ Running
  /\ pending
  /\ desk' = Rebuilt(desk)
  /\ pending' = FALSE
  /\ suppressed' = FALSE
  /\ UNCHANGED <<World, settling>>

\* TIMER_RECONCILE, for a topology with no stored layout to replay.  The scan
\* runs before reconcile_pending is cleared.
Reconcile ==
  /\ Running
  /\ pending
  /\ desk' = Scan(Rebuilt(desk))
  /\ pending' = FALSE
  /\ suppressed' = FALSE
  /\ UNCHANGED <<World, settling>>

-----------------------------------------------------------------------------
(* The daemon's life *)

\* What a process that ends leaves behind: the windows and their properties.
Ended(d) == [d EXCEPT !.spaces  = [m \in Monitors |-> <<>>],
                      !.current = [m \in Monitors |-> 1],
                      !.pinned = {}, !.focus = {}]

\* Faulty variant: without the final sweep.
ReleasedManaged(d) ==
  [d EXCEPT !.win = [w \in Windows |->
     IF Tracked(d, w) /\ Valid(d, w) THEN Forgotten(Show(d.win[w], proxy))
     ELSE d.win[w]]]

\* windows_show_all, with the sweep over every window that ends it.
Released(d) ==
  LET managed == {w \in Windows : Tracked(d, w) /\ Valid(d, w)}
  IN  [d EXCEPT !.win = [w \in Windows |->
         Reclaim(IF w \in managed THEN Forgotten(Show(d.win[w], proxy))
                 ELSE d.win[w], proxy)]]

Exit ==
  /\ Running
  /\ desk' = Ended(Released(desk))
  /\ phase' = "exited"
  /\ pending' = FALSE /\ settling' = FALSE /\ suppressed' = FALSE
  /\ UNCHANGED <<plugged, notice, showAll, proxy>>

Crash ==
  /\ "crash" \in Env
  /\ Running
  /\ desk' = Ended(desk)
  /\ phase' = "crashed"
  /\ pending' = FALSE /\ settling' = FALSE /\ suppressed' = FALSE
  /\ UNCHANGED <<plugged, notice, showAll, proxy>>

\* SpaceManager::new
Start ==
  /\ ~Running
  /\ LET reclaimed == [desk EXCEPT !.win = [w \in Windows |-> Reclaim(@[w], proxy)]]
     IN  desk' = Scan(Rebuilt(reclaimed))
  /\ phase' = "running"
  /\ notice' = FALSE
  /\ UNCHANGED <<plugged, showAll, proxy, pending, settling, suppressed>>

-----------------------------------------------------------------------------
(* The environment.  Env holds the behaviours it is allowed:                *)
(*   "title"     a window loses or regains its title                        *)
(*   "hide"      an application hides or shows its own window               *)
(*   "minimize"  the user minimizes and restores windows                    *)
(*   "taskbar"   ... also one the daemon force-minimized                    *)
(*   "drift"     a window ends up on another display, hidden or not         *)
(*   "shell"     the shell cloak stops working, or answers without effect,  *)
(*               or DWM refuses to lift a cloak                             *)
(*   "topology"  displays are attached and detached                         *)
(*   "crash"     the daemon is killed                                       *)
(*   "recycle"   a handle is reused before the daemon notices its death     *)
(*   "rules"     there are workspace rules to restore                       *)

OnlyDesk == UNCHANGED <<plugged, notice, pending, settling, suppressed,
                        showAll, proxy, phase>>

Dead(x) == [x EXCEPT !.live = FALSE, !.titled = TRUE, !.visible = "yes",
                     !.iconic = FALSE, !.cloak = {}, !.prop = {}]

Alter(w, x) == desk' = [desk EXCEPT !.win[w] = x] /\ OnlyDesk

Open(w) ==
  /\ ~desk.win[w].live
  /\ "recycle" \in Env \/ ~(Tracked(desk, w) \/ w \in desk.pinned \cup desk.focus)
  /\ \E m \in plugged : Alter(w, [desk.win[w] EXCEPT !.live = TRUE, !.mon = m])

Close(w) ==
  /\ desk.win[w].live
  /\ desk' = [desk EXCEPT !.win[w] = Dead(@), !.fg = IF @ = w THEN NoWindow ELSE @]
  /\ OnlyDesk

Retitle(w) ==
  /\ "title" \in Env
  /\ desk.win[w].live
  /\ Alter(w, [desk.win[w] EXCEPT !.titled = ~@])

AppHide(w) ==
  /\ "hide" \in Env
  /\ desk.win[w].live /\ desk.win[w].visible = "yes"
  /\ Alter(w, [desk.win[w] EXCEPT !.visible = "app"])

AppShow(w) ==
  /\ "hide" \in Env
  /\ desk.win[w].live /\ desk.win[w].visible # "yes"
  /\ Alter(w, [desk.win[w] EXCEPT !.visible = "yes"])

Minimize(w) ==
  /\ "minimize" \in Env
  /\ OnScreen(desk.win[w])
  /\ Alter(w, [desk.win[w] EXCEPT !.iconic = TRUE])

\* A DWM-cloaked window has no taskbar button; the other two backends keep it.
Restore(w) ==
  /\ "minimize" \in Env
  /\ desk.win[w].live /\ desk.win[w].visible = "yes" /\ desk.win[w].iconic
  /\ "dwm" \notin desk.win[w].cloak
  /\ "FORCED_MINIMIZED" \in desk.win[w].prop => "taskbar" \in Env
  /\ Alter(w, [desk.win[w] EXCEPT !.iconic = FALSE])

\* The user drags a window they see; the event is MoveSizeEnd.
Drag(w, m) ==
  /\ m \in plugged \ {desk.win[w].mon}
  /\ OnScreen(desk.win[w]) \/ ("drift" \in Env /\ desk.win[w].live)
  /\ Alter(w, [desk.win[w] EXCEPT !.mon = m])

\* The OS gives the foreground to a window that is on screen or has a taskbar
\* button, or to none the daemon knows.
Focus(w) ==
  /\ w # desk.fg
  /\ w # NoWindow => /\ desk.win[w].live /\ desk.win[w].visible = "yes"
                     /\ "dwm" \notin desk.win[w].cloak
  /\ desk' = [desk EXCEPT !.fg = w]
  /\ OnlyDesk

ShellChanges(p) ==
  /\ "shell" \in Env
  /\ p # proxy
  /\ proxy' = p
  /\ UNCHANGED <<desk, plugged, notice, pending, settling, suppressed, showAll, phase>>

\* The OS reflows the windows of a display that goes before anyone is told.
PlugOrUnplug(S) ==
  /\ "topology" \in Env
  /\ S # plugged
  /\ plugged' = S
  /\ \E to \in [Windows -> Monitors] :
       /\ \A w \in Windows : to[w] \in S \cup {desk.win[w].mon}
       /\ \A w \in Windows : (to[w] = desk.win[w].mon) <=>
            desk.win[w].mon \in S \/ S = {} \/ ~desk.win[w].live
       /\ desk' = [desk EXCEPT !.win = [w \in Windows |-> [@[w] EXCEPT !.mon = to[w]]]]
  /\ notice' = Running
  /\ UNCHANGED <<pending, settling, suppressed, showAll, proxy, phase>>

-----------------------------------------------------------------------------
(* The specification *)

\* The daemon has not been started: windows are open or not yet, and none of
\* them has a property.
NewWindow(w, live, m) ==
  [live |-> live, titled |-> TRUE, elevated |-> w \in Elevated, visible |-> "yes",
   iconic |-> FALSE, cloak |-> {}, prop |-> {}, mon |-> m]

Init ==
  /\ plugged = Monitors
  /\ \E live \in [Windows -> BOOLEAN], at \in [Windows -> Monitors] :
       desk = [win     |-> [w \in Windows |-> NewWindow(w, live[w], at[w])],
               spaces  |-> [m \in Monitors |-> <<>>],
               current |-> [m \in Monitors |-> 1],
               pinned  |-> {}, focus |-> {}, fg |-> NoWindow]
  /\ notice = FALSE /\ pending = FALSE /\ settling = FALSE /\ suppressed = FALSE
  /\ showAll \in BOOLEAN
  /\ proxy \in {"works", "fails"}
  /\ phase = "exited"

Indices == 1..MaxSpaces

Command ==
  \/ \E m \in Monitors, i \in Indices :
       GoToSpace(m, i) \/ TraySwitch(m, i) \/ MoveToSpace(m, i) \/ RemoveSpace(m, i)
  \/ \E m \in Monitors, i, j \in Indices : ReorderSpace(m, i, j)
  \/ \E m \in Monitors : AddSpace(m)
  \/ \E w \in Windows, m \in Monitors, i \in Indices :
       MoveWindowToSpace(w, m, i) \/ \E s \in BOOLEAN : RestoreWorkspaceRules(w, m, i, s)
  \/ \E w \in Windows, m \in Monitors : MoveWindowToNewSpace(w, m)
  \/ \E w \in Windows : TogglePin(w)
  \/ SetShowAllTaskbar

Event ==
  \/ \E w \in Windows :
       Activated(w) \/ WindowDestroyed(w) \/ AdoptUntracked(w) \/ MoveSizeEnd(w)
  \/ ScanWindows \/ CloseVerify

Timer ==
  SettleElapses \/ SuppressionElapses \/ DisplayChange \/ SessionChange \/ Reconcile

Life == Exit \/ Crash \/ Start

Environment ==
  \/ \E w \in Windows :
       Open(w) \/ Close(w) \/ Retitle(w) \/ AppHide(w) \/ AppShow(w)
         \/ Minimize(w) \/ Restore(w)
  \/ \E w \in Windows, m \in Monitors : Drag(w, m)
  \/ \E w \in Windows \cup {NoWindow} : Focus(w)
  \/ \E p \in Proxies : ShellChanges(p)
  \/ \E S \in SUBSET Monitors : PlugOrUnplug(S)

Next == Command \/ Event \/ Timer \/ Life \/ Environment

Spec == Init /\ [][Next]_vars
=============================================================================
