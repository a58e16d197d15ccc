-------------------------------- MODULE Tiling --------------------------------
(***************************************************************************)
(* The tiling engine (winspaces-core/src/tiling/engine.rs) with what the    *)
(* space manager and the handlers tell it.  Every change marks a space as   *)
(* dirty and asks for a retile; a debounced timer lays out the visible      *)
(* spaces, another verifies afterwards that the windows took their places,  *)
(* strikes those that did not, and floats a window after StrikeLimit.       *)
(*                                                                          *)
(* kind is how a window answers: one that yields takes any place, one that  *)
(* clamps is never smaller than MinSize, and an elevated one neither moves  *)
(* nor leaves its maximized state.                                          *)
(***************************************************************************)
EXTENDS TilingLayouts

CONSTANTS
  Windows,
  Kinds,        \* how the windows may answer: functions from windows to kinds
  FloatRuled,   \* windows that match a float rule
  Rows,         \* [displays -> numbers of spaces]
  Work,         \* [displays -> work areas]
  Dpi,          \* [displays -> DPI]
  InnerGap, OuterGap,
  MinSize,      \* of a window that clamps
  Slack,        \* VERIFY_TOLERANCE_PX: 8
  DragSlack,    \* the 4 of classify_drag (resize.rs)
  StrikeLimit,  \* 4
  Deltas,       \* bound: by how much the user drags a border
  Env,          \* which of "drag", "pin", "float", "close" happen
  Budget        \* bound: how often the user acts

ASSUME TilingAssumption ==
  /\ IsFiniteSet(Windows) /\ None \notin Windows
  /\ FloatRuled \subseteq Windows
  /\ Kinds \subseteq [Windows -> {"yields", "clamps", "elevated"}]
  /\ Rows \in [DOMAIN Rows -> Nat \ {0}]
  /\ Work \in [DOMAIN Rows -> Rect] /\ Dpi \in [DOMAIN Rows -> Nat]
  /\ {InnerGap, OuterGap, MinSize, Slack, DragSlack, Budget} \subseteq Nat
  /\ StrikeLimit \in Nat \ {0} /\ Deltas \subseteq Int

VARIABLES
  kind,
  home,       \* where a window is tracked: <<display, space>>, None when not open
  dead,       \* closed, and not pruned yet
  iconic, zoomed, sticky,
  floating,   \* floating_windows
  auto,       \* auto_floated
  frame,      \* the rectangle of the window, or the one a restore returns it to
  current,    \* the current spaces
  fg,         \* the foreground window
  ts,         \* TileSpace of every space
  drag,       \* tiling_drag
  enabled,
  retile,     \* WM_WINSPACES_RETILE is posted or TIMER_RETILE armed
  verify,     \* TIMER_RETILE_VERIFY is armed
  untold,     \* observer: windows whose change of place the tiler was not told of
  rounds,     \* observer: retiles since the user last did something, or a
              \* window was found gone
  budget

world == <<iconic, zoomed, frame>>
vars == <<kind, home, dead, world, sticky, floating, auto, current, fg, ts, drag,
          enabled, retile, verify, untold, rounds, budget>>

Monitors == DOMAIN Rows
Spaces == UNION {{m} \X (1..Rows[m]) : m \in Monitors}

\* Where windows are that are no tile, and where a minimized window is.
Loose == [l |-> -9, t |-> -9, r |-> -5, b |-> -5]
Nowhere == [l |-> -99, t |-> -99, r |-> -99, b |-> -99]

NoFrames == [w \in Windows |-> None]
NoStrikes == [w \in Windows |-> 0]

\* TileSpace::new
NewTileSpace == [order |-> <<>>, ratio |-> DefaultRatio, split |-> "auto", expected |-> NoFrames,
                 strikes |-> NoStrikes, flat |-> NoStrikes, max |-> {}, dirty |-> FALSE]

TileSpace == [order : Seq(Windows), ratio : MinRatio..MaxRatio,
              split : {"auto", "side", "stacked"},
              expected : [Windows -> {None} \cup Rect], strikes : [Windows -> 0..(StrikeLimit - 1)],
              flat : [Windows -> 0..(StrikeLimit - 1)], max : SUBSET Windows, dirty : BOOLEAN]

Drag == [w : Windows, start : Rect, at : Spaces, fromMax : BOOLEAN]

TypeOK ==
  /\ home \in [Windows -> Spaces \cup {None}]
  /\ dead \cup iconic \cup zoomed \cup sticky \cup floating \cup auto \cup untold \subseteq Windows
  /\ kind \in Kinds
  /\ current \in [Monitors -> Nat] /\ \A m \in Monitors : <<m, current[m]>> \in Spaces
  /\ frame \in [Windows -> Rect]
  /\ ts \in [Spaces -> TileSpace]
  /\ drag # None => drag \in Drag
  /\ fg \in Windows \cup {None}
  /\ enabled \in BOOLEAN /\ retile \in BOOLEAN /\ verify \in BOOLEAN
  /\ rounds \in Nat /\ budget \in 0..Budget

\* None is no space, no rectangle and no drag.
ASSUME NoneAssumption == None \notin Spaces /\ None \notin Rect /\ None \notin Drag

-----------------------------------------------------------------------------
(* Spaces and their tiles *)

Visible(s) == current[s[1]] = s[2]

Area(m) == Inset(Work[m], Scaled(OuterGap, Dpi[m]))

\* The rectangles of a TileSpace of display m.
Rects(m, t) == Dwindle(Area(m), Len(t.order), t.ratio, Scaled(InnerGap, Dpi[m]), t.split)

Floating(w, F) == w \in F \cup FloatRuled

\* tile_candidates, when F are the floating windows.
Candidates(s, F) ==
  {w \in Windows : home[w] = s /\ w \notin dead \cup sticky \cup iconic /\ ~Floating(w, F)}

\* Another strike is one too many.
StruckOut(strikes) == strikes + 1 >= StrikeLimit

\* forget_window
Forgotten(t, w) ==
  [t EXCEPT !.expected[w] = None, !.strikes[w] = 0, !.flat[w] = 0, !.max = @ \ {w}]

Dirtied(T, s) == [T EXCEPT ![s].dirty = TRUE]

\* detach_window.  (Faulty variant: the space that is left stays clean.)
DetachedQuietly(T, w) ==
  [s \in Spaces |-> IF s # home[w] THEN T[s]
     ELSE [T[s] EXCEPT !.expected[w] = None, !.strikes[w] = 0, !.flat[w] = 0]]

Detached(T, w) ==
  [s \in Spaces |-> IF s # home[w] THEN T[s]
     ELSE [T[s] EXCEPT !.dirty = TRUE, !.expected[w] = None, !.strikes[w] = 0, !.flat[w] = 0]]

\* tiling_owns_window
Owned(w) ==
  /\ enabled /\ home[w] # None
  /\ w \notin sticky /\ ~Floating(w, floating)
  /\ LET t == ts[home[w]]
     IN  w \in ToSet(t.order) \/ t.expected[w] # None \/ t.flat[w] > 0

\* The tiles that focus, swap and drag see.
Shown(t) == Selected(t.order, {w \in Windows : t.expected[w] # None})

Index(seq, w) == IF w \in ToSet(seq) THEN CHOOSE k \in DOMAIN seq : seq[k] = w ELSE 0

Swapped(seq, i, j) == [seq EXCEPT ![i] = seq[j], ![j] = seq[i]]

-----------------------------------------------------------------------------
(* What changes tiles *)

Spend == budget > 0 /\ budget' = budget - 1

\* Faulty variant: any float is undone by a move.
ReadmittedWhateverFloats(W) == floating' = floating \ W /\ auto' = auto \ W

\* readmit_auto_floated
Readmitted(W) == floating' = floating \ (W \cap auto) /\ auto' = auto \ W

Schedule == retile' = (retile \/ enabled)

\* track_window
Track(w, s) ==
  /\ home' = [home EXCEPT ![w] = s]
  /\ ts' = Dirtied(Detached(ts, w), s)
  /\ IF home[w] # s THEN Readmitted({w}) ELSE UNCHANGED <<floating, auto>>
  /\ Schedule

\* A window appears, maximized or not, and is adopted.
Open(w, m, big) ==
  /\ Spend
  /\ home[w] = None
  /\ Track(w, <<m, current[m]>>)
  /\ zoomed' = (IF big THEN zoomed \cup {w} ELSE zoomed \ {w})
  /\ iconic' = iconic \ {w}
  /\ frame' = [frame EXCEPT ![w] = Loose]
  /\ UNCHANGED <<kind, dead, sticky, current, fg, drag, enabled, verify, untold>>

Close(w) ==
  /\ "close" \in Env /\ Spend
  /\ home[w] # None /\ w \notin dead
  /\ dead' = dead \cup {w}
  /\ fg' = IF fg = w THEN None ELSE fg
  /\ UNCHANGED <<kind, home, world, sticky, floating, auto, current, ts, drag, enabled,
                 retile, verify, untold>>

\* prune_dead_windows
Prune ==
  LET lost == {s \in Spaces : \E w \in dead : home[w] = s}
      only(f, none) == [w \in Windows |-> IF w \in dead THEN none ELSE f[w]]
  IN  /\ dead # {}
      /\ home' = only(home, None)
      /\ ts' = [s \in Spaces |-> IF s \notin lost THEN ts[s]
                  ELSE [ts[s] EXCEPT !.dirty = TRUE, !.expected = only(@, None),
                                     !.strikes = only(@, 0), !.flat = only(@, 0)]]
      /\ sticky' = sticky \ dead /\ floating' = floating \ dead /\ auto' = auto \ dead
      /\ drag' = IF drag # None /\ drag.w \in dead THEN None ELSE drag
      /\ Schedule
      /\ dead' = {}
      /\ untold' = untold \ dead
      /\ UNCHANGED <<kind, world, current, fg, enabled, verify, budget>>

\* minimize_hook_proc, at the start and at the end.
Minimize(w) ==
  /\ Spend
  /\ home[w] # None /\ w \notin dead
  /\ iconic' = IF w \in iconic THEN iconic \ {w} ELSE iconic \cup {w}
  /\ IF enabled THEN ts' = Dirtied(ts, home[w]) /\ retile' = TRUE ELSE UNCHANGED <<ts, retile>>
  /\ UNCHANGED <<kind, home, dead, zoomed, frame, sticky, floating, auto, current, fg, drag,
                 enabled, verify, untold>>

Shows(w) == home[w] # None /\ w \notin dead \cup iconic /\ (Visible(home[w]) \/ w \in sticky)

Maximize(w) ==
  /\ Spend
  /\ Shows(w) /\ w \notin zoomed
  /\ zoomed' = zoomed \cup {w}
  /\ UNCHANGED <<kind, home, dead, iconic, frame, sticky, floating, auto, current, fg, ts,
                 drag, enabled, retile, verify, untold>>

\* tiling_on_window_restored, on location_hook_proc.
OnRestored(w) ==
  IF enabled /\ w \in ts[home[w]].max
     /\ \E m \in Monitors : ts[<<m, current[m]>>].max # {}
  THEN /\ ts' = [ts EXCEPT ![home[w]].max = @ \ {w}, ![home[w]].dirty = TRUE]
       /\ retile' = TRUE
  ELSE UNCHANGED <<ts, retile>>

Unmaximize(w) ==
  /\ Spend
  /\ Shows(w) /\ w \in zoomed
  /\ zoomed' = zoomed \ {w}
  /\ OnRestored(w)
  /\ UNCHANGED <<kind, home, dead, iconic, frame, sticky, floating, auto, current, fg, drag,
                 enabled, verify, untold>>

\* toggle_sticky: nothing tells the tiler, unless the window is tracked anew.
TogglePin(w) ==
  /\ "pin" \in Env /\ Spend
  /\ home[w] # None /\ w \notin dead
  /\ sticky' = IF w \in sticky THEN sticky \ {w} ELSE sticky \cup {w}
  /\ untold' = untold \cup {w}
  /\ LET here == <<home[w][1], current[home[w][1]]>>
     IN  IF w \in sticky /\ home[w] # here THEN Track(w, here)
         ELSE UNCHANGED <<home, ts, floating, auto, retile>>
  /\ UNCHANGED <<kind, dead, world, current, fg, drag, enabled, verify>>

\* A card dropped on a space, or a window moved there with its space shown.
Send(w, s) ==
  /\ Spend
  /\ home[w] # None /\ w \notin dead /\ s # home[w] /\ s \in Spaces
  /\ Track(w, s)
  /\ UNCHANGED <<kind, dead, world, sticky, current, fg, drag, enabled, verify, untold>>

\* switch_space
SwitchSpace(m, i) ==
  /\ Spend
  /\ i \in 1..Rows[m] /\ i # current[m]
  /\ current' = [current EXCEPT ![m] = i]
  /\ ts' = Dirtied(ts, <<m, i>>)
  /\ Schedule
  /\ UNCHANGED <<kind, home, dead, world, sticky, floating, auto, fg, drag, enabled, verify,
                 untold>>

Activate(w) ==
  /\ Spend
  /\ Shows(w) /\ w # fg
  /\ fg' = w
  /\ UNCHANGED <<kind, home, dead, world, sticky, floating, auto, current, ts, drag, enabled,
                 retile, verify, untold>>

-----------------------------------------------------------------------------
(* Commands *)

\* set_tiling_enabled
ToggleTiling ==
  /\ Spend
  /\ enabled' = ~enabled
  /\ ts' = [s \in Spaces |->
       IF enabled'
       THEN [ts[s] EXCEPT !.dirty = TRUE]
       ELSE [ts[s] EXCEPT !.dirty = FALSE, !.expected = NoFrames, !.strikes = NoStrikes,
                          !.flat = NoStrikes, !.max = {}]]
  /\ drag' = IF enabled' THEN drag ELSE None
  /\ retile' = (retile \/ enabled')
  /\ UNCHANGED <<kind, home, dead, world, sticky, floating, auto, current, fg, verify, untold>>

\* tiling_toggle_float
ToggleFloat(w) ==
  /\ "float" \in Env /\ Spend
  /\ enabled /\ home[w] # None /\ w \notin dead /\ w \notin FloatRuled
  /\ floating' = IF w \in floating THEN floating \ {w} ELSE floating \cup {w}
  /\ auto' = auto \ {w}
  /\ ts' = [ts EXCEPT ![home[w]] =
       [(IF w \in floating THEN @ ELSE Forgotten(@, w)) EXCEPT !.dirty = TRUE]]
  /\ retile' = TRUE
  /\ UNCHANGED <<kind, home, dead, world, sticky, current, fg, drag, enabled, verify, untold>>

\* A command on the space the display of the foreground window shows.
Commanded == enabled /\ fg # None /\ home[fg] # None
Here == <<home[fg][1], current[home[fg][1]]>>

\* tiling_toggle_split_at: the direction on screen is flipped, not the stored one.
Flipped(split, area) == IF Effective(split, area) = "side" THEN "stacked" ELSE "side"

SplitToggled(s) == [ts EXCEPT ![s].split = Flipped(@, Area(s[1])), ![s].dirty = TRUE]

OnlyTiles == UNCHANGED <<kind, home, dead, world, sticky, floating, auto, current, fg, drag,
                         enabled, verify, untold>>

ToggleSplit ==
  /\ Spend /\ Commanded
  /\ Len(ts[Here].order) >= 2
  /\ ts' = SplitToggled(Here) /\ retile' = TRUE
  /\ OnlyTiles

\* tiling_adjust_ratio
AdjustRatio(delta) ==
  /\ Spend /\ Commanded
  /\ ts' = [ts EXCEPT ![Here].ratio = ClampedRatio(@ + delta), ![Here].dirty = TRUE]
  /\ retile' = TRUE
  /\ OnlyTiles

\* The tile beside the foreground window; both commands refuse otherwise.
Beside(dir) == IF Commanded /\ home[fg] = Here
               THEN Neighbor(fg, dir, Shown(ts[Here]), ts[Here].expected) ELSE None

\* tiling_swap
Swap(dir) ==
  /\ Spend /\ Beside(dir) # None
  /\ LET t == ts[Here].order
     IN  ts' = [ts EXCEPT ![Here].order = Swapped(@, Index(t, fg), Index(t, Beside(dir))),
                          ![Here].dirty = TRUE]
  /\ retile' = TRUE
  /\ OnlyTiles

\* tiling_focus
FocusTile(dir) ==
  /\ Beside(dir) # None
  /\ fg' = Beside(dir)
  /\ UNCHANGED <<kind, home, dead, world, sticky, floating, auto, current, ts, drag, enabled,
                 retile, verify, untold, budget>>

-----------------------------------------------------------------------------
(* Drags *)

\* tiling_on_movesize_start
DragStart(w) ==
  /\ "drag" \in Env /\ Spend
  /\ drag = None /\ Shows(w) /\ Owned(w) /\ Visible(home[w])
  /\ drag' = [w |-> w, at |-> home[w],
              start |-> IF ts[home[w]].expected[w] # None THEN ts[home[w]].expected[w] ELSE frame[w],
              fromMax |-> w \in ts[home[w]].max \/ w \in zoomed]
  /\ UNCHANGED <<kind, home, dead, world, sticky, floating, auto, current, fg, ts, enabled,
                 retile, verify, untold>>

\* The window follows the mouse; a maximized one is restored by the first move.
DragMove ==
  /\ drag # None /\ drag.w \notin dead
  /\ frame[drag.w] # Loose \/ drag.w \in zoomed
  /\ frame' = [frame EXCEPT ![drag.w] = Loose]
  /\ zoomed' = zoomed \ {drag.w}
  /\ IF drag.w \in zoomed THEN OnRestored(drag.w) ELSE UNCHANGED <<ts, retile>>
  /\ UNCHANGED <<kind, home, dead, iconic, sticky, floating, auto, current, fg, drag, enabled,
                 verify, untold, budget>>

\* What a drop on the dragged window's own display does.
Resolved(t, m, does) ==
  [(CASE does.does = "ratio"  -> [t EXCEPT !.ratio = does.ratio]
      [] does.does = "swap"   -> [t EXCEPT !.order = Swapped(@, does.from, does.to)]
      [] does.does = "toggle" /\ Len(t.order) >= 2 -> [t EXCEPT !.split = Flipped(@, Area(m))]
      [] OTHER -> t) EXCEPT !.dirty = TRUE]

\* tiling_on_movesize_end: the window has the size of new and was dropped over
\* the tile `over`, or over none.
DragEnd(new, over, shift) ==
  LET s     == drag.at
      tiles == Shown(ts[s])
      does  == Classify(Index(tiles, drag.w), drag.start, new,
                        [k \in DOMAIN tiles |-> ts[s].expected[tiles[k]]],
                        Index(tiles, over), shift, drag.fromMax, DragSlack)
      kept  == IF drag.fromMax THEN [ts[s] EXCEPT !.max = @ \ {drag.w}] ELSE ts[s]
  IN  /\ drag # None /\ drag.w \notin dead
      /\ drag' = None
      /\ frame' = [frame EXCEPT ![drag.w] = new]
      /\ untold' = IF home[drag.w] = s THEN untold ELSE untold \cup {drag.w}
      /\ IF enabled
         THEN ts' = [ts EXCEPT ![s] = Resolved(kept, s[1], does)] /\ retile' = TRUE
         ELSE UNCHANGED <<ts, retile>>
      /\ UNCHANGED <<kind, home, dead, iconic, zoomed, sticky, floating, auto, current, fg,
                     enabled, verify, budget>>

DropMoved(over, shift) ==
  /\ drag # None
  /\ DragEnd([drag.start EXCEPT !.l = @ - 1, !.r = @ - 1], over, shift)

DropResized(dw, dh) ==
  /\ drag # None
  /\ Width(drag.start) + dw > 0 /\ Height(drag.start) + dh > 0
  /\ DragEnd([drag.start EXCEPT !.r = @ + dw, !.b = @ + dh], None, FALSE)

\* adopt_cross_monitor_move of a drop on another display.
DropElsewhere(m) ==
  /\ drag # None /\ drag.w \notin dead /\ home[drag.w] # None /\ m # home[drag.w][1]
  /\ drag' = None
  /\ Track(drag.w, <<m, current[m]>>)
  /\ UNCHANGED <<kind, dead, world, sticky, current, fg, enabled, verify, untold>>
  /\ UNCHANGED budget

-----------------------------------------------------------------------------
(* The timers *)

\* The place where a window comes to rest that is pushed to x.
Lands(w, x) ==
  CASE kind[w] = "yields" -> x
    [] kind[w] = "clamps" -> [x EXCEPT !.r = Larger(@, x.l + MinSize), !.b = Larger(@, x.t + MinSize)]
    [] kind[w] = "elevated" -> frame[w]

\* Faulty variant: the window that has just struck out counts as a departure.
PreviousTilesAll(s) == Len(ts[s].order)

PreviousTiles(s) == Cardinality(ToSet(ts[s].order) \ auto)

\* readmit_if_space_grew
Readmits(s) ==
  IF Cardinality(Candidates(s, floating)) < PreviousTiles(s)
  THEN {w \in auto : home[w] = s} ELSE {}

Held(s) == drag # None /\ drag.at = s

Due == {s \in Spaces : Visible(s) /\ ts[s].dirty /\ ~Held(s)}

\* retile_space: what becomes of space s.
Layout(s) ==
  LET cands   == Candidates(s, floating \ Readmits(s))
      kept    == {w \in cands \cap zoomed : w \in ToSet(ts[s].order)}
      stuck   == {w \in (cands \cap zoomed) \ kept : kind[w] = "elevated"}
      struck  == {w \in stuck : StruckOut(ts[s].flat[w])}
      ready   == cands \ stuck
      order   == ReconcileOrder(ts[s].order, SetToSeq(ready), fg)
      t       == [ts[s] EXCEPT !.order = order,
                    !.strikes = [w \in Windows |-> IF w \in struck THEN 0 ELSE @[w]],
                    !.flat = [w \in Windows |-> IF w \in ready \cup struck THEN 0
                                                ELSE IF w \in stuck THEN @[w] + 1 ELSE @[w]],
                    !.max = kept, !.dirty = (stuck \ struck # {})]
      rects   == Rects(s[1], t)
  IN  [tile   |-> [t EXCEPT !.expected = [w \in Windows |->
                     IF w \in ToSet(order) THEN rects[Index(order, w)] ELSE None]],
       struck |-> struck, flattened |-> (cands \cap zoomed) \ (kept \cup stuck),
       pushed |-> ToSet(order) \ kept]

\* TIMER_RETILE: flush_retile, and the verification is armed.
Retile ==
  /\ retile /\ verify' = TRUE
  /\ \E out \in {[s \in Due |-> Layout(s)]} :
       LET back   == UNION {Readmits(s) : s \in Due}
           struck == UNION {out[s].struck : s \in Due}
       IN  IF enabled
           THEN /\ ts' = [s \in Spaces |-> IF s \in Due THEN out[s].tile ELSE ts[s]]
                /\ frame' = [w \in Windows |->
                     IF \E s \in Due : w \in out[s].pushed
                     THEN Lands(w, out[home[w]].tile.expected[w]) ELSE frame[w]]
                /\ zoomed' = zoomed \ UNION {out[s].flattened : s \in Due}
                /\ floating' = (floating \ back) \cup struck
                /\ auto' = (auto \ back) \cup struck
                /\ retile' = (back # {} \/ \E s \in Due : out[s].tile.dirty)
                /\ untold' = {w \in untold : home[w] \notin Due}
           ELSE retile' = FALSE /\ UNCHANGED <<ts, frame, zoomed, floating, auto, untold>>
  /\ UNCHANGED <<kind, home, dead, iconic, sticky, current, fg, drag, enabled, budget>>

\* What the verification sees of a window.
Actual(w) == IF w \in iconic THEN Nowhere ELSE IF w \in zoomed THEN Work[home[w][1]] ELSE frame[w]

Checked(s) == {w \in Windows : Visible(s) /\ ts[s].expected[w] # None /\ w \notin dead}

InPlace(w, x) ==
  /\ Aligned(Actual(w).l, x.l, Slack) /\ Aligned(Actual(w).t, x.t, Slack)
  /\ Aligned(Width(Actual(w)), Width(x), Slack) /\ Aligned(Height(Actual(w)), Height(x), Slack)

\* IsZoomed: while a maximized window is minimized, it is not.
IsZoomed(w) == w \in zoomed \ iconic

\* classify_mismatch
Mismatch(w, x, t) ==
  CASE IsZoomed(w) -> IF w \in t.max THEN "honoured" ELSE "zoomed"
    [] /\ ~IsZoomed(w)
       /\ Aligned(Actual(w).l, x.l, Slack) /\ Aligned(Actual(w).t, x.t, Slack)
       /\ Width(Actual(w)) + Slack >= Width(x) /\ Height(Actual(w)) + Slack >= Height(x) -> "overflow"
    [] OTHER -> "resisting"

\* The sweep over space s: its strikes, and those that float.
Sweep(s) ==
  LET t      == ts[s]
      wrong  == {w \in Checked(s) : ~InPlace(w, t.expected[w])}
      resist == {w \in wrong : Mismatch(w, t.expected[w], t) = "resisting"}
      big    == {w \in wrong : Mismatch(w, t.expected[w], t) = "zoomed"}
      clear  == Checked(s) \ (resist \cup big)
      out    == {w \in resist : StruckOut(t.strikes[w])}
                  \cup {w \in big : StruckOut(t.flat[w])}
      count(f, S) == [w \in Windows |-> IF w \in clear \cup out THEN 0
                                        ELSE IF w \in S THEN f[w] + 1 ELSE f[w]]
  IN  [tile |-> [t EXCEPT !.strikes = count(@, resist), !.flat = count(@, big),
                   !.expected = [w \in Windows |-> IF w \in out THEN None ELSE @[w]],
                   !.max = @ \ out,
                   !.dirty = @ \/ resist \cup big # {}],
       out |-> out, again |-> resist \cup big # {}]

\* TIMER_RETILE_VERIFY: verify_retile.
Verify ==
  /\ verify /\ verify' = FALSE
  /\ \E sweep \in {[s \in Spaces |-> Sweep(s)]} :
       LET out == UNION {sweep[s].out : s \in Spaces}
       IN  IF enabled
           THEN /\ ts' = [s \in Spaces |-> sweep[s].tile]
                /\ floating' = floating \cup out /\ auto' = auto \cup out
                /\ retile' = (retile \/ \E s \in Spaces : sweep[s].again)
           ELSE UNCHANGED <<ts, floating, auto, retile>>
  /\ UNCHANGED <<kind, home, dead, world, sticky, current, fg, drag, enabled, untold, budget>>

-----------------------------------------------------------------------------
\* The daemon has found windows on the current spaces, and set_tiling_enabled.
Init ==
  /\ kind \in Kinds
  /\ home \in [Windows -> {None} \cup {<<m, 1>> : m \in Monitors}]
  /\ zoomed \in SUBSET {w \in Windows : home[w] # None}
  /\ dead = {} /\ iconic = {} /\ sticky = {} /\ floating = {} /\ auto = {}
  /\ frame = [w \in Windows |-> Loose]
  /\ current = [m \in Monitors |-> 1] /\ fg = None
  /\ ts = [s \in Spaces |-> [NewTileSpace EXCEPT !.dirty = TRUE]]
  /\ drag = None /\ enabled = TRUE /\ retile = TRUE /\ verify = FALSE
  /\ untold = {} /\ rounds = 0 /\ budget = Budget

Dirs == {"left", "right", "up", "down"}

User ==
  \/ \E w \in Windows, m \in Monitors, big \in BOOLEAN : Open(w, m, big)
  \/ \E w \in Windows : Close(w) \/ Minimize(w) \/ Maximize(w) \/ Unmaximize(w)
                          \/ TogglePin(w) \/ Activate(w) \/ ToggleFloat(w) \/ DragStart(w)
  \/ \E w \in Windows, s \in Spaces : Send(w, s)
  \/ \E s \in Spaces : SwitchSpace(s[1], s[2])
  \/ ToggleTiling \/ ToggleSplit
  \/ \E delta \in {-1, 1} : AdjustRatio(delta)
  \/ \E dir \in Dirs : Swap(dir) \/ FocusTile(dir)
  \/ DragMove
  \/ \E over \in Windows \cup {None}, shift \in BOOLEAN : DropMoved(over, shift)
  \/ \E d \in Deltas : DropResized(d, 0) \/ DropResized(0, d)
  \/ \E m \in Monitors : DropElsewhere(m)

Next ==
  \/ (User \/ Prune) /\ rounds' = 0
  \/ Verify /\ UNCHANGED rounds
  \/ Retile /\ rounds' = rounds + 1

Spec == Init /\ [][Next]_vars
=============================================================================
