# WinSpaces in TLA+

WinSpaces gives every display of a Windows desktop its own row of *spaces*
(virtual desktops). A daemon keeps, for each display, one list of windows per
space, shows the windows of the current space and hides the rest; around it are
a memory of layouts per set of displays, a tiler, an overview, a tray menu, a
settings process and helpers that restart it elevated. This directory holds TLA+
models of these parts, the TLC configurations that check them on small
instances, and machine-checked proofs of most of what they check, for every
value of the constants.

    tlc -workers 2 -config MCOneDisplay.cfg MCSpaces
    for m in *Proofs.tla; do tlapm $m; done

## 1. The system

| part | state | operations | with whom | module |
|---|---|---|---|---|
| window state (`spaces/state.rs`, `visibility.rs`, `eligibility.rs`) | a bit set written on each window (`SetProp`), which outlives the daemon | show, hide (DWM cloak, shell cloak, forced minimize, `SW_HIDE`), the eligibility probe, the reclaiming of orphans | the OS, the shell's COM proxy | `WindowState` |
| space manager (`spaces/*.rs`) with the handlers (`winspaces/src`) and workspace rules | per display: space lists, current space, suppression deadline; globally: pins, focus memory, `reconcile_pending` | track, detach, scan, prune, switch, move, pin, add/remove/reorder spaces, display change, activation, rules | window state; called by every handler | `Spaces` |
| topology, layout store and shadow (`topology.rs`, `layout_store.rs`, `shadow.rs`) | last signature, shadow, dirty flag, stored layouts, file | debounced reconcile, shadow tick, debounced persist, merged space counts, replay | space manager, disk | `Layout` |
| restore enforcement (`enforce.rs`, `rehome.rs`) | targets, sliding deadline, ceiling, in ticks that wrap | push back, verify, heal at show time | space manager | `Enforcement` |
| tiling (`tiling/`) | per space: slots, ratio, split, strikes, dirty flag; floating sets; a drag | retile and verify timers, membership, drags, shortcuts | space manager | `TilingLayouts`, `Tiling` |
| hotkeys (`hotkeys.rs`) and configuration (`config.rs`, `ipc.rs`) | registered identifiers; a file shared by two processes | register all, unregister all, decode; load, save, reload posts | space counts, settings | `Hotkeys`, `HotkeyTable`, `Control` |
| Overview (`winspaces-ui/overview`) | cards, armed buttons, press, drag, capture | show, refresh, hide, gestures, keys | space manager through host functions | `Overview` |
| tray menu (`menu.rs`, `tray_menu.rs`, `commands.rs`) | rows, submenu, selection, timers, two hooks | open, hover, press, keys, command, decode | daemon's window by posted commands | `TrayMenu` |
| settings window (`winspaces-ui/settings`) | page, focus, press, dropdown, recorder, banner, timers, dialog | input, autosave, capture, dialogs | the file, the daemon, the helpers | `SettingsWindow` |
| elevation and single instance (`elevation.rs`, `autostart.rs`, `main.rs`) | scheduled task, Run value, processes | enable, disable, restart; guard, start, exit | the OS's logon, settings | `Elevation` |
| space indicator, drawing, logging, translations, Win32 wrappers, benchmarks | | | | not modelled |

**How it runs.** The daemon is one message-loop thread, and a handler runs to
its end inside `with_app_state`. What is concurrent is the world: users,
applications and the OS change windows and displays between two handlers and
announce it late, and the events of the daemon's own actions (a focus change)
come back as if they were the user's. So a handler is one step of a model, and
between any two steps the environment takes as many as it likes. Where the code
gives up the thread or talks to another process, the handler is cut there:
`RegisterHotKey` is called once per key with other applications in between
(`Control`), a helper of `--enable-elevation` is a process with a program
counter beside the daemon's (`Elevation`), and a file dialog or the wait for a
helper splits a handler of the settings window (`SettingsWindow`).

**What is hard.** One window is described three times: by the OS (is it on
screen?), by its property (did *we* hide it?) and by the lists (where does it
belong?). Different code writes each. The property is the only thing that can
bring a hidden window back, cloaks can answer success and do nothing, windows
change display while hidden, displays vanish before the daemon knows, and a kill
leaves only the properties. Windows itself rearranges windows after a reconnect,
which looks like the user's doing. The tiler and its windows may disagree for
ever. Every piece of user interface holds state across messages that something
else can rebuild. Two processes write one file. PROJECT.json lists these hazards
at their lines.

**What makes each part correct.**

- Window state: hidden implies recorded; a show that did not work keeps its
  record; an exit or a start gives back all that was hidden.
- Space manager: a window is on one space at most; spaces and current indices
  stay in bounds; list and property agree; a pinned window is up; a switch
  leaves its display settled and focuses a window that is up; renumbering does
  not change the view; no manageable window is lost.
- Layout: the table converges to the attached displays, a returning topology
  finds its windows and its space counts, and the layout reaches the disk.
- Enforcement: deadlines are exact across the wrap, the fight ends, and what
  Windows moved is never adopted.
- Tiling: tiles partition the area, the screen becomes the layout, the timers
  come to rest, the user's floats stand.
- Hotkeys and configuration: the table is all or nothing, a pressed key keeps
  its meaning, the digits are those of the space counts, the daemon ends up with
  the file's configuration.
- Overview, tray menu and settings: a release acts on what was pressed; a press,
  a hook and a popup end with the state that explains them; a command does what
  its row said.
- Elevation: autostart is not lost and the daemon comes back.

## 2. Modules

| module | content |
|---|---|
| `WindowState` | constant-level: the record of one window and the operators on it: the probe `IsValid`, `Show`, `Hide`, `TrackedProp`, `Reclaim` |
| `Spaces`, `SpacesProperties`, `MCSpaces` | the space manager with the handlers that drive it; its properties; model checking |
| `SpacesProofs` | proofs: types and bounds, one list per window, what a renumbering leaves in view and where a switch lands; what is hidden is on record, an exit and a start give it back, pins last, a pinned window stays up, none is lost from the lists, a switch settles its display, no record is lost to a failed show |
| `Layout`, `LayoutProperties`, `MCLayout` | displays, reconcile, shadow, persist, store, kill and restart |
| `LayoutProofs` | proofs: the counts survive, a known topology gets its layout back |
| `Enforcement`, `MCEnforcement` | what follows a replay, with a wrapping clock |
| `EnforcementProofs` | proofs: deadlines across the wrap, nothing Windows moved is adopted |
| `TilingLayouts` | constant-level: the dwindle layout, neighbours, drops, in whole pixels |
| `Tiling`, `TilingProperties`, `MCTiling` | the tiling engine on top of it |
| `TilingProofs` | proofs: what a layout partitions, what is on screen becomes it, the user's floats stand, the retiles end |
| `Hotkeys` | constant-level: identifiers, the plan of registrations, decoding |
| `HotkeyTable` | abstract specification: a table that each handler leaves empty or complete |
| `Control`, `ControlProperties`, `MCControl` | file, daemon, settings and the system's hotkey table; `Table!Spec`, the refinement |
| `ControlProofs` | proofs: keys, digits, configuration, the refinement of `HotkeyTable` |
| `Overview`, `OverviewProperties`, `MCOverview` | the overlay over a reduced space manager |
| `OverviewProofs` | proofs: presses, releases, cards |
| `TrayMenu`, `TrayMenuProperties`, `MCTrayMenu` | the menu and the command it posts |
| `TrayMenuProofs` | proofs: hooks, submenu, one command an opening, which does as its row says |
| `Elevation` | processes, task and Run value |
| `SettingsWindow`, `SettingsProperties`, `MCSettings` | the settings window, composed with `Elevation` |
| `SettingsProofs` | proofs: recorder hook, dropdown, autostart across helpers |

Each property module extends its component, each `MC` module extends the
property module, and the `.cfg` files give values. The components share no
variables: what one needs of another it has in reduced form (the Overview's
space manager has lists without visibility; `Layout`'s has one place per window).

**`Spaces`.** `desk` is what a handler reads and writes: `win` (the OS side of
each window and its property), `spaces`, `current`, `pinned`
(`sticky_windows`), `focus` (`focus_memory`) and `fg` (the OS foreground). The
manager's methods are operators from a desk to a desk, so that a handler is their
composition in the order of the code: `Reconcile` is `Scan(Rebuilt(desk))`,
`RemoveSpace` is `Shortened` followed by `SwitchFrom`. Beside it: `plugged`
(attached displays) and `notice` (a posted `WM_DISPLAYCHANGE`), `pending`
(`reconcile_pending`), `settling` and `suppressed` (the deadlines of
`suppress_rehome_until` and `suppress_foreground_until`, which may pass at any
time), `showAll` (`show_all_taskbar`), `proxy` (what the shell cloak and DWM answer:
they work, the shell's proxy fails or answers without effect, DWM refuses to lift
a cloak) and `phase`. The constant `Env` says which behaviours of the environment a
model has.

**`Layout`.** `mgr` is the manager reduced to displays, counts, current spaces
and one place per window; `app` is AppState's part (`last_signature`, `shadow`,
`shadow_dirty`, the armed persist timer, the layouts in memory), `disk` is
`layouts.json`. `Reconcile` is `reconcile_topology` to its end, the replay
included; `ShadowTick` and `PersistTimer` are the two timers, the second also
when its write fails; `Crash` loses everything but `disk`.

**`Enforcement`.** `now` and the deadlines are tick values modulo `Wrap`, and
`age` counts the same ticks without wrapping: it and the other observers are read
by the properties only. A window of the snapshot is always placed; `Replay`
starts over with another order of the displays, since targets hold table indices.

**`Tiling`.** `ts` is one `TileSpace` per space. The retile request and its
timer are one flag, as is the verify timer; a window answers a placement
according to its `kind`. Ratios, `f32` in the code, are tenths, and rectangles
are computed in whole pixels with the code's rounding. `Slack` is the tolerance of
a verification (8 pixels), `DragSlack` the movement that tells a resize from a move
(4); the run has 2 and 1, in scale with its displays.

**`Control`.** `daemon` and `settings` are the two processes, `held` is the
system's table of the daemon's hotkeys and `foreign` the keys of others. A
registration under way is `daemon.work`; each attempt is a step. `Table` maps it
to `HotkeyTable`: the table is `held` when no registration is under way, else
empty. The refinement so speaks of what a handler leaves behind; other
applications can see the keys of a round being taken one at a time.

**`Overview`.** `ov` is `OVERVIEW_STATE`: what is shown and what is pressed.
Positions are places in the list of cards. `meant` and `deed` are observers: what
the button went down on, and what its release did.

**`TrayMenu`.** `menu` is `MENU_STATE` with the rows built at the opening,
`window`, `hook`, `timers` and `posted` are the OS's side of it, `commands` are
the posted `WM_COMMAND`s, each with the row that posted it (an observer), decoded
against the table of the moment they are handled.

**`SettingsWindow`.** `win` is the window with its dropdown, recorder, banner and
view of the daemon; `call` is what its thread waits for, deaf to all else.
`hand` bounds a behaviour to a few controls and gestures, each set covering those
that interact; processes of `Elevation` move in the behaviours about them.

**Faulty variants.** A definition introduced by "Faulty variant" is used by no
action: it is a plausible bug, kept to show that a property notices it
("mutants" in PROJECT.json). The type invariants `TypeOK` of `Layout`,
`Enforcement`, `Tiling`, `Control` and `Overview` document the state; the runs
list only properties that say more.

**Abstractions.**

- Displays and spaces count from 1. Monitors are named by stable id, so the
  matching of `handle_display_change` is identity.
- In `Spaces` a space is a set. The order decides only which of several windows
  a switch focuses; `Landing` is the set of the possible ones. `Overview` and
  `Tiling`, where positions matter, have sequences.
- Titles, classes and styles are one flag (`titled`); the probe of an owned
  dialog through its root owner is left out (each window is its own owner).
- Time is left out except in `Enforcement`: a deadline may pass and a timer fire
  whenever it is armed. A switch may or may not be within the scan throttle. All
  per-display suppression deadlines are one flag, since every switch arms them
  all and a rebuild drops them all.
- Outside `Tiling` a window's geometry is the display it is on. A window whose
  display is not in the table has no monitor (`MonitorOf`), as in
  `monitor_index_for_hwnd`.
- `Elevated` windows refuse `DWMWA_CLOAK` and accept `SW_HIDE`.
- `RestoreWorkspaceRules` has one rule that matches one window; `Reconcile` and
  `Start` of `Spaces` are those without a stored layout, `Layout` has the rest.
- In `Layout` every window is the only one of its application, so the scoring of
  `resolve_assignment` always finds it.
- The overlay's hover is left out: a key may act on any card, except while a window
  is dragged (its lift leaves no card under the pointer; that of a space does not
  touch the card it was over).
  Fields a hidden overlay keeps and the next opening overwrites are normalised.
- In `SettingsWindow` a point is the control that lies there. Pixels, fonts and
  the wording of banners are left out.
- `Config` has the fields the two processes both write or act on. Parsing is
  reduced to a missing file, a corrupt one and a good one.

## 3. Runs

All bounds are constants of the `.cfg` files.

| run | instance | shows |
|---|---|---|
| `one_display` | 2 windows, 1 display, up to 3 spaces | lists, bounds and marks agree; a switch settles its display and lands on a window that is up; renumbering keeps the view |
| `hiding` | a window that refuses the cloak, one of the exact-title list; applications that hide and show; kills | nothing is hidden unrecorded; an exit and a start give everything back |
| `shell_cloak` | 1 window, 1 display; a proxy that fails or lies, a DWM that refuses; rules, minimizing, the taskbar mode, reused handles, titles | a running daemon never loses the record of a hidden window |
| `topology` | 1 window, 2 displays, down to none; drags and drift while hidden | a pinned window is never hidden and keeps its pin; a manageable one that lost its display is tracked again in the same step |
| `layout` | 1 window, two desk displays and a remote one, a store of two entries, 4 acts | a topology that returns finds its layout and counts; the table follows the displays; what is on screen reaches the disk |
| `enforcement` | 1 window, 2 displays, a tick count that wraps at 32 | deadlines are exact at every tick, the fight ends, what Windows moved is not adopted |
| `tiling` | 2 windows, one of which may clamp or be elevated; a wide and a tall display of different DPI, 3 spaces, 2 acts | tiles partition the area, the screen becomes the layout, the timers rest, the user's floats stand |
| `control` | 2 spaces, 6 keys, a queue of 2, 5 acts | registration is atomic (a refinement); keys keep their meaning; digits follow the counts; daemon and file agree |
| `overview` | 2 windows, 2 displays, 2 spaces, 1 change behind the overlay | a release acts on what was pressed; a press has the capture; the cards are the spaces' |
| `tray_menu` | 2 displays, 2 spaces, 2 openings, 1 posted message in flight, 1 change | hooks, submenu and commands belong to the window and row they came from |
| `settings` | the `hand`s of `MCSettings`; 3 processes, 2 flags, 1 failing call, 1 logon | recorder hook and dropdown end with their state; autostart is kept; the daemon comes back |
| `standard_after_disable` | as `settings` | a violation: section 4 |

**Bounds, and why they are enough.**

- *Windows*: one or two. No operation of the manager relates more than two (one
  that leaves, one that arrives); a property of one window's record needs one.
  Two tiles give the dwindle one split, in a wide area and in a tall one, at the
  ratios that drags and shortcuts reach; that any number of tiles partitions its
  area is proved (section 5).
- *Displays*: one where the property is about one, two where windows travel,
  three in `Layout` where the third is the remote one.
- *`MaxSpaces`* is 2 or 3 (9 in the program): 2 makes "at the cap", "only one
  left" and "elsewhere" reachable, 3 gives a reorder a space in between.
  `DefaultSpaces` is 1 or 2 (4 in the program).
- *`Env`* (`Spaces`, `Tiling`) splits the state space: each run has the
  environment its question needs. With all of it at once the divergences of
  section 4 would mask the rest.
- *`MaxTopologies`* is 2, so that a third topology evicts one.
- *`Wrap`* is 32 against an enforcement of 3 ticks: all deadlines of a replay lie
  within a half of the clock, as in the program (60 s against 24 days), and
  replays start at every tick. *`MaxAge`* 14 lies past the ceiling of 4
  enforcement times.
- *`StrikeLimit`* is the program's 4 (engine.rs:333): three strikes that are
  forgiven and one that is not.
- *`Budget`, `MaxOpenings`, `MaxFlags`, `MaxSlips`, `Logons`, `QueueLimit`,
  `MaxPosted`* count acts of the user or of other programs, or messages in
  flight. Each is large enough for the act to interrupt what the property is
  about: two flags overlap a helper with the settings window's, a queue of two
  holds a key behind a reload. `MaxProcs` 3 is a helper between the old daemon
  and the new one.
- *`Elevations`* is `{FALSE}`: the settings window is a standard user's. One opened
  by an elevated daemon passes its elevation on to what it starts; the run passes
  with `{TRUE}` as well, and the theorems hold for both.
- *`Overlap`* is `FALSE`: with overlapping set-ups the code loses the autostart
  (section 4).

**Restrictions that properties have, and why.** In each case the code does not
keep the unrestricted property; section 4 says where a document claims it.

- `SwitchSettles` is checked without failing cloaks (what cannot be hidden is
  not), without the user undoing a forced minimize and without rules.
- `HidingRecorded` and `PinnedIsUp` are checked without title changes combined
  with vanishing displays, `ExitReleases` without a bad proxy. `RecordKept`
  excepts a window whose title is gone.
- With vanishing displays, `PinnedIsUp` and `NeverSilentlyUntracked` are checked
  and proved without windows on the system list and without applications that
  hide their windows (`Adoptable`): section 4 says what becomes of those.
- `MarkedIffTracked` excludes a handle reused before its death is noticed.
- `CountsSurvive` excepts the remote session. `DriftNeverAdopted` excepts
  windows the user has moved since and a table enumerated in another order. It
  and `DeadlinesAreExact` except deadlines that fall on the tick 0, which is none.
- `DigitsFollowCounts` excepts a change of displays; `ConfigConverges` excepts
  edits by hand and messages lost while the daemon starts.

**Fairness.** `layout` assumes weak fairness of `DisplayChange`, `Reconcile`,
`ShadowTick`, `PersistTimer`, the two elapsing deadlines and `Start`: Windows
delivers posted messages to a thread that pumps them and fires armed timers, and
somebody starts the daemon again (the logon does). `settings` assumes it of every
step of a process and of the return of a call the window waits for: processes
get the processor. Nothing is assumed of the user, of other applications, or of
a display.

**Deadlock** is checked except in `tiling`, `control`, `tray_menu`, `settings`
and `standard_after_disable`, where the bounded acts may all be spent with the
menu or window closed and nothing left to do.

**Refinement.** `Control` implements `HotkeyTable` under `Table`: between the
first and the last `RegisterHotKey` of a round the abstract table is still empty,
and the last call, or the end of the rollback, is the abstract step.

## 4. Where code and documents disagree

`standard_after_disable` checks docs/ipc-and-config.md:245, "Deletes the
scheduled task, restores `HKCU\Run` autostart, and starts the standard user
daemon". The helper deletes the task with an administrator's token and starts
the daemon itself (elevation.rs:248), so that daemon is elevated.

The rest was met while modelling; no run checks it. Some contradict a document
or comment, which is named, the others are only surprising. Files are named by
their last part.

*Window state and spaces.*

- The property of a hidden window that fails the probe is cleared when its
  display vanishes (manager.rs:295), against docs/dwm.md:203.
- It is cleared under a stale proxy too (visibility.rs:52; docs/dwm.md:201).
- The replay of a rule shows a window and keeps its hidden bits, which
  manager.rs:887 reads as "already hidden".
- A stale `WAS_ICONIC` makes a switch minimize a pinned window the user has
  restored (visibility.rs:202; manager.rs:883 says it stays up).
- Activating a window that drifted while hidden re-homes it and leaves it
  hidden (activation.rs:95; docs/overview.md:81 says it is switched to).
- An activation adopts a window of the exact-title list, which manager.rs:663
  excludes. Moving a remembered window can bring two on one space
  (manager.rs:56). A pinned window without a title keeps its pin outside every
  list (compare sticky.rs:47).
- A pinned window of the exact-title list whose display vanishes is hidden by the
  scan that ends the reconcile; one its application hides is adopted by no scan
  until it is activated.

*Layouts and enforcement.*

- A reconcile drops a dirty shadow of the topology it leaves; displays that flap
  within the debounce leave the signature unchanged, and nothing is replayed; a
  failed write is not tried again before the next change; counts are not applied
  in a remote session.
- Ties between equal scores are broken by the order of enumeration
  (layout_store.rs:245), against the comment above it.
- A deadline is never reset to 0: after 24.8 days it reads as the future
  (index_math.rs:9), and one that falls on 0 is none. docs/display-topology.md:119
  relies on targets rather than time.
- `restore_targets` hold indices of the table and of spaces, and outlive both a
  new table and a reorder.

*Tiling.*

- Pinning and unpinning mark no space dirty. A drop reorders by positions among
  the tiles that take part, where the slots may hold more. A window minimized
  before the verification gets a strike; one that is being dragged can be struck
  out and floated.
- The ratio from a border drag is right for two tiles side by side, not for
  three (resize.rs:20). Nothing selects `MasterStack`.

*Hotkeys and configuration.*

- After a reconcile the hotkeys are not registered anew although the largest
  count may have changed. Toggling the hotkeys off unregisters the key that
  would toggle them on. `Ctrl+Alt+Shift+S` reaches `toggle_hotkeys`
  (spaces.rs:100), not the taskbar mode of docs/user-guide.md:236.
- The settings window saves its whole draft, over toggles and captured rules the
  daemon wrote since. The 300 ms after a capture is a guess. A file edited by hand
  (docs/user-guide.md:96) is overwritten by the next save of either process.
- A daemon that is starting has no window to post a reload to.
- The recorder reads the modifiers when its message is handled, not when the key
  went down.

*Overview, tray menu, settings.*

- `refresh_overview` disarms the close button and not the pin button
  (overview.rs:361, against the comment on stale press state above it): a release
  pins the window that took the slot, or the armed button swallows the next
  click. An activation or a reconcile does not refresh an open overlay.
- The close timer of a submenu left a moment ago closes one that was just
  clicked open. A submenu window destroyed from outside leaves its state. The
  label "Remove Space n" may be of another table by the time it is pressed.
- A dropdown's banner has no timer. Deleting a rule after the list was reloaded
  deletes what is now at its place. A press and the scrollbar's drag survive a
  lost capture. The keyboard opens a dropdown under a held press. A gap off the
  presets becomes a preset on Enter.

*Elevation.*

- `--enable-elevation` starts the daemon itself, not through the task.
- The guard in main.rs checks for a window that the other daemon has yet to
  create: two that start together both stay. Overlapping set-ups leave neither
  task nor Run value. Switching autostart off while elevated leaves the Run value.
- When the old daemon takes longer than the five seconds, the new one finds it
  and exits, and then the old one does: none remains. After a failed
  installation of the task no daemon is started again.
- A user who keeps starting helpers can keep the daemon from coming up.

## 5. Proofs

A theorem `XCorrect` proves the property `X` of a run for every value of the
constants that satisfies the assumptions of the model (sets of windows and
displays may be infinite, bounds like `Budget` or `MaxOpenings` any number). Each
proof module first proves an invariant that is inductive, one lemma per handler
or action, and then reads the properties off it. The variables are those of the
model: nothing is proved of a simplified copy.

**`Spaces`**, under `SpacesAssumption` (system and elevated windows are windows,
the two null values are fresh, `1 <= DefaultSpaces <= MaxSpaces`) and for every
`Env` but where said.

- `TypeCorrect`: `Spec => []TypeOK`, and `BoundsCorrect`: `Spec =>
  []SpacesInBounds`. Neither is inductive alone: a reorder or a landing indexes
  `spaces[m][current[m]]`, whose type needs the index in bounds, and the bounds
  need the type. They are proved together: `TypedAndBounded` is the type
  invariant with `Bounded(desk)`, which also pins down `current` for displays
  that are not in the table. Each method of the manager has a lemma that it
  takes a desk with these properties to another (`PlaceSound`, `TrackSound`,
  `ScanSound`, ...); each action then follows from the methods it composes.
- `TrackedOnceCorrect`: `Spec => []TrackedOnce`. The invariant is
  `TypedBoundedApart`, which adds `Apart(desk)`: any two list entries of a window
  are the same entry. A step is one of two kinds. It *thins*: every entry after
  it was there before (detach, prune, crash). Or it *places*: what it pushes
  has left every list first. `ReorderSpace` and `RemoveSpace` renumber the entries.
  `TrackedOnce`, a statement on cardinalities, follows last.
- *Hiding.* `HidingInv` adds, while the daemon runs, that each window is
  `Booked` (listed exactly when marked) and `Safe`: one hiding technique at a
  time, on record, of a kind that a show can undo; and while it does not run,
  that no list is left and an orderly exit has freed every window. `Safe` says
  more than `HidingRecorded` because a show reads the bits to decide what to
  undo: with two of them set, or `WAS_ICONIC` beside `FORCED_MINIMIZED`, it would
  clear one and leave the other's effect. `MarkedIffTracked`, `HidingRecorded`,
  `ExitReleases`, and of the steps `StartRecovers` and `PinSurvives`, follow.
- `PinnedIsUpCorrect` and `NeverSilentlyUntrackedCorrect` rest on a relation
  between the desk before and after a method, `Follows`: a pinned window gets no
  hidden bit, a window that is `TRACKED` stays so, a pin is put only on a window
  that is shown and tracked. It composes, each method has a lemma that it keeps
  it (or, where a method gives up what fails the probe, that it keeps it for the
  windows that pass, `FollowsValid`), and by `HidingInv` the bit stands for the
  lists. A display that vanishes is the one case in which a handler first lets
  go and then takes back: `RebuiltFrees` and `ScanGathers` say that the scan
  ending the reconcile finds each of them again, since a window it could not see
  (`ReachInv`: one on no attached display) was not tracked in a running table.
- *Hypotheses on `Env`.* The hiding theorems assume `Orderly`: no window loses
  its title, the cloak does not start to fail or to lie, no handle is reused
  before its death is noticed, and rules are not replayed where displays come
  and go. In each excluded case the code does give up a record (section 4): a
  window without a title, or a rule's window on no attached display, is forgotten
  whatever state it is in, and a lying cloak cannot be lifted. What is left has
  hides by applications, minimizing, kills, drags, drift, display changes and the
  taskbar mode, in any mixture, where the runs take them a few at a time.
  `MarkedIffTracked` and `PinSurvives` need less: no reuse of a handle, and for
  pins the hypothesis about rules. `NeverSilentlyUntracked` needs no reuse of a
  handle, and `Orderly` only where displays come and go. There it and
  `PinnedIsUp` also assume `Adoptable`: no window is on the system list, and no
  application hides one. The scan that ends a reconcile adopts neither; it hides
  the first.
- `SwitchSettlesCorrect` assumes `Orderly` and `Undisturbed`: nobody but the
  daemon undoes its hiding (no restores from the taskbar, no rule that shows a
  window, and where applications show theirs no window refuses the cloak). Then
  `HidingInv` also has `Effective`: what a hidden bit says was done still holds,
  so a window that a switch finds already hidden is out of sight. A switch visits
  every live window of its display; it shows those it wants up (`ShowFrees`)
  and what it does to the others is effective (`HideEffective`,
  `RefreshSettles`); focusing one of those shown disturbs none
  (`FocusedSettles`). The run has no `Env`; the theorem adds minimizing, drags,
  drift, hides by applications, changes of the displays and kills.
- `RecordKeptCorrect` holds where `Orderly` does not: the shell cloak may start to
  fail or to lie and DWM to refuse, titles come and go and handles are reused. `Traced` is what is
  left of `Safe` there: a window with a property is hidden in one way at most and
  on record, and only an untracked system window is under a DWM cloak that is not
  the daemon's own. A window that passes the probe therefore has nothing hidden off
  the record (`ValidIsOurs`), and one with a title that the probe rejects has no
  record to lose if it is listed (`RejectedHasNone`), so that forgetting it is
  harmless whether or not the show before it worked. `Carries` relates the desk
  before and after a method, as `Follows` does. The hypothesis is `Tame`: the
  displays stay attached, and if handles are reused no window is on the system
  list. Both are needed. A display that vanishes has its windows shown and
  forgotten even when the show failed (`Rebuilt`), and a reused handle can be
  listed while its property says no more than that a system window was cloaked,
  which a removal of its space forgets. TLC finds either one once it is allowed.
- `RenumberingKeepsViewCorrect` and `SwitchLandsUpCorrect`, for every `Env`. Of the first: moving or shortening a list and remapping
  `current` name the same space (`ReorderLeaves`, `ShortenedLeaves`); the switch
  and the scan that follow a removal then leave a live window that stands on the
  display where it is, because `Apart` makes its home there the only one
  (`SwitchLeaves`, `ScanLeaves`). Of the second: whatever `Landing` picks is valid
  and on the display, and is `NoWindow` only when nothing there can be focused.

**`Layout`**, under `LayoutAssumption` (`Remote` is a topology, `1 <=
DefaultSpaces <= MaxSpaces`, room for one entry), for every number of displays,
windows and topologies, every size of the store, and every `Budget`. `LayoutInv`
says of the manager that rows have a current space and that windows are tracked
on spaces that exist; of the store that it has one entry a topology and no more
than `MaxTopologies`; and between the two that what is stored and shadowed for the
present displays has their counts. None of these is inductive alone: a shadow
with other counts would be written over the merged ones, two entries of a topology
would let a merge change one and a replay read the other. The store has a lemma
(`UpsertKeeps`), each method of the manager has one, and `CountsSurvive` is a
part of the invariant. `ReplayReturns` follows from what `restore_snapshot` does on
a sound manager (`ReplayedSound`): the displays of an entry are those of its
signature, so none of its windows is passed over. A daemon that ends forgets both
deadlines, so that one which starts and enforces has replayed.

**`TrayMenu`**, for at most nine spaces a display (`TrayMenuAssumption`: above it
the offsets of the commands overlap). `MenuInvariant`: every index the menu holds
is one of its rows, a row's identifier encodes what it says, nothing waits for a
window that is gone, commands in flight are of earlier openings. Hence
`HooksFollowWindow`, `SubmenuIsParents`, `OneCommandAnOpening` and, by decoding
what was encoded, `CommandsDoAsRowsSay`. The mouse hook may be off under an open menu, since its
installation can fail; it is never on without one.

**`SettingsWindow`** with `Elevation`. `WindowInvariant` covers whichever control
is activated by whatever gesture: the hook is there exactly while a field
records under it, the popup exactly while a dropdown is open. `HelpersSound`
covers the helpers: a helper that has come to the Run value still has the task
it registered, which is why the Run value may go. It holds for helpers one at a
time, so `AutostartRetainedCorrect` assumes `~Overlap`; with overlapping set-ups
the code loses the autostart (section 4).

**`Control`** with `Hotkeys`. `NothingAssumption`: the value that stands for
"none" is not a process. `ControlInvariant` says of the table that what is held
is of the bindings in force and, with what is left to register, the whole of the
plan; of the queue, that a waiting key means what it meant; of the file, that a
daemon with nothing unread runs by it. `KeysMeanTheirBinding`, `DigitsFollowCounts`
and `ConfigConverges` follow. The refinement `HotkeysAreAtomic` is a step
simulation: the last attempt of a round installs the whole plan (`EndInstalls`),
every other step leaves the abstract table alone or empties it (`StepSound`).

**`Enforcement`**. `ClockInvariant` says where clock and deadlines stand as
offsets from the instant of the replay. With the lemma that two instants less
than half a wrap apart compare as without wrapping (`TickBeforeIsBefore`),
`DeadlinesAreExact` and `EnforcementEnds` follow for every `Wrap`, `SettleMs <
VerifyMs < EnforceMs` with 4 `EnforceMs` below half a wrap, and a model followed
for less than half a wrap, which is what the comparison of the code can tell
apart. `DriftNeverAdopted` needs besides that a window nobody rearranged is
tracked at its target for as long as targets are enforced.

**`Overview`**. `OverviewInv`: the cards shown are those of the space shown
unless the spaces have changed behind the overlay; what a press remembers is in
range and is what it was made on. The point of the proof is `Answered`: every
call into the daemon either leaves the overlay as it was or redraws it with
nothing armed. `ReleaseActsOnPressed`, `PressesHoldCapture`, `CardsFollowSpaces`
follow, and `PressesInRange`, which makes the unchecked indexing of
`on_lbuttonup` safe. The armed pin button, which a refresh does not disarm
(section 4), is the one press the properties leave out.

**`Tiling`** with `TilingLayouts`, under `TilingAssumption` (the sets the
constants come from; at least one strike) and `NoneAssumption` (the value for
"none" is no space, rectangle or drag), for every set of windows and kinds,
every arrangement of displays, gap, DPI and limit of strikes.

- *Recursion.* `Dwindle` is a recursive function and `SelectSeq` one of the
  standard modules. The library's induction theorems take operators, which no
  installed prover can instantiate; the proofs instead take the least natural
  number at which something fails (`LeastNatural`, from the well-foundedness of
  `<`), with the set of failures as an ordinary argument. `Recursion` yields the
  functions so defined, and from them what a cut, an order that is reconciled,
  a selection or an index return, for every length.
- `TilesPartitionCorrect`: `Spec => []TilesPartition` where `Roomy` holds: on
  every display the area inside the outer gap has sides of at least
  `10 * Room + gap` for all windows at once, `Room` being what one pixel needs
  to survive the halvings. A display of 1920 by 1080 with a gap of 8 has room
  for eight windows; the run's displays have room for its two, which TLC evaluates
  (`RoomyAssumption`). Without it the code yields tiles that are empty or leave the
  area: nothing in `compute_dwindle` bounds their number. The argument: one cut of a
  rectangle yields two that lie in it, gap apart, and end where it ends (`side` or
  `stacked`), so that the remaining area of every step keeps the right and
  bottom edges and is disjoint from the tiles already placed.
- `TypeCorrect`: `Spec => [](TypeOK /\ Sound)`. `Sound` adds to the types that an
  order has no window twice, that a window has an
  expected rectangle on no space but its own, and that only a tracked window is
  dragged, and only while the tiler is on.
- `FloatDecisionStandsCorrect`: the only handlers that take a window out of
  `floating` are the user's toggle, a prune of a dead window and a readmission,
  and the last takes only what is in `auto`.
- `LayoutSettlesCorrect`: `Spec => []LayoutSettles`. It is far from inductive.
  `Asked` says that a visible dirty space has a retile asked for, or is held by a
  drag that asks for one when it ends: this is the chain from the flag to the
  timer, and every handler that marks a space must keep it.
  `KnownSettled` says what a clean visible space knows: its slots are its
  candidates, each with its rectangle as the expected one and, when it yields and
  is not maximized, at that rectangle, unless a move has happened that the tiler was
  not told of (`untold`) or has yet to notice (`dead`). A retile establishes it
  (`LayoutIs`, what `retile_space` returns), a verification only takes from it what it
  marks (`SweepIs`).
- `ConvergesCorrect`: `Spec => []Converges` for `StrikeLimit >= 3`: between two
  acts of the user the timer lays the windows out at most
  `StrikeLimit * (n + 1) + 1` times. Neither the number of retiles nor that of
  strikes is bounded by what a single step does: a layout counts strikes of its own
  (windows that came maximized and cannot be restored), resets others, and
  readmits windows that had struck out. `Period` is the account. The retiles so
  far, the one that is asked for and `StrikeLimit` for every window in `Alive`, those
  that can still strike out, stay within the bound plus the strikes `M` and `K` that
  two such windows have: one resists the rectangle it was given, the other cannot be
  restored. They are two, since only the first has a slot (`StrikesLeft`), so the
  account closes. `Pending` pays for the spaces that nobody has laid out since
  the user acted, the only ones that readmit (`ArrangedReadmits`) or that hold
  rectangles of an earlier layout. `Arranged` is what a layout leaves of a space
  (`DueArranged`), and every later layout and verification keeps it
  (`SweptArranged`). That a window goes on failing from one step to the next is
  `FailureStays`, `StuckStays` and `SweptFails`: a second layout gives it the
  same rectangle. With limits of 1 and 2 the account lacks the margin for
  `Pending`; the program's is 4.

**Only model-checked.**

- *Liveness, beyond this prover*: `TableFollows`, `LayoutReachesDisk`,
  `DaemonComesBack`. The last says nothing once a call has failed, a wait has run
  out, the user has logged off or another helper is asked for: section 4 lists how
  the daemon then stays away.
- What the hypotheses exclude: `AutostartRetained` with overlapping helpers is
  false, and so are the hiding properties without `Orderly`; the runs check them
  under the restrictions of section 3.

## 6. Not modelled

- *The scoring of `resolve_assignment`*: every window of `Layout` is the only one
  of its application. With equal windows the outcome depends on the enumeration.
- *A kill between a cloak and the write of its bit*: a handler is one step.
- *Events dropped by `with_app_state`* (app.rs:20) while a handler runs: whether
  a Win32 call dispatches messages is not in the source.
- *The tray menu's default table* (tray_menu.rs:42): a right click handled while the
  state is borrowed shows one display with the default count. Whether that can
  happen is the same question; the rows may then not be those of the table.
- *Space indicator*: one window whose fade is a function of the time since it was
  shown. Two things seen in it: a toast that replaces a visible one is backdated
  by `now - FADE_IN_MS` (space_indicator.rs:365), which underflows in the first
  110 ms of the tick count; a toast is skipped while the Overview is open.
- *Staleness of a replayed layout*: `ReplayReturns` holds a replay to the entry that
  is stored. That the entry is the last capture is `LayoutReachesDisk`, with its
  exceptions.
- *Enforcement with tiling on*: `Enforcement` has tiling off. With it,
  `tiling_owns_window` (engine.rs:27) takes the windows it lays out from every
  push-back and heal, and each `flush_retile` settles for another 500 ms
  (engine.rs:178), so `DeadlinesAreExact` and `DriftNeverAdopted` say nothing of it.
- *Drawing, hit-test geometry, animation, DPI of the windows of the interface,
  the drag preview, the menu used when the custom one cannot be built*: pixels.
- *The keyboard hook of the Win key*: a filter that swallows keys; its state
  belongs to Windows.
- *Parsing and migration of the configuration*, translations, logging, paths:
  input and output without state.
- *Win32 wrappers*: modelled by what their callers use of them.
- *Benchmarks, scripts, installer, site*: not part of the daemon.

## 7. Plan

Modelling is complete as planned, but for two modules that could be added:
`CloakProtocol` (show and hide split at their calls, with a kill in between) and
`Assignment` (windows to stored entries, one to one).

Every invariant and every action property of the passing runs is the subject of a
theorem; what a proof could still add is fewer hypotheses: `Roomy` if the program
bounded the tiles of a display, and the refinements of the two modules above.
