-------------------------- MODULE TilingProperties --------------------------
(***************************************************************************)
(* What dynamic tiling promises.                                            *)
(***************************************************************************)
EXTENDS Tiling

Disjoint(x, y) == x.r <= y.l \/ y.r <= x.l \/ x.b <= y.t \/ y.b <= x.t

\* A side that is this long is still one pixel long after n cuts in two.
Room(gap, n) == LET side[i \in 0..n] == IF i = 0 THEN 1 ELSE 2 * side[i - 1] + gap IN side[n]

\* Display m has room for n tiles: its area can be cut at the smallest ratio,
\* whatever the direction, and what that leaves be halved, the longer side first.
HasRoom(m, n) ==
  LET gap  == Scaled(InnerGap, Dpi[m])
      need == 10 * Room(gap, (n - 1) \div 2) + gap
  IN  n >= 1 => Width(Area(m)) >= need /\ Height(Area(m)) >= need

\* Every display has room for all the windows there are.
Roomy == \A m \in Monitors : HasRoom(m, Cardinality(Windows))

\* Whatever the order, ratio and direction of a space, its tiles lie in the
\* work area inside the outer gap, do not overlap, and the last one ends
\* exactly at its right and bottom edges (compute_dwindle).
TilesPartition ==
  \A s \in Spaces :
    LET area == Area(s[1])
        xs   == Rects(s[1], ts[s])
    IN  /\ \A k \in DOMAIN xs : /\ area.l <= xs[k].l /\ xs[k].r <= area.r
                                /\ area.t <= xs[k].t /\ xs[k].b <= area.b
                                /\ xs[k].l < xs[k].r /\ xs[k].t < xs[k].b
        /\ \A j, k \in DOMAIN xs : j # k => Disjoint(xs[j], xs[k])
        /\ xs # <<>> => xs[Len(xs)].r = area.r /\ xs[Len(xs)].b = area.b

Quiet == enabled /\ ~retile /\ ~verify /\ drag = None

\* Once no timer is armed, what is on screen is the layout: on every visible
\* space the slots are held by exactly the windows that can hold one, and each
\* that yields and is not maximized is on its own; no change was lost between
\* the flag, the posted message and the timer (mark_tiling_dirty, flush_retile).
\* Left out: a space with a window whose death nobody has noticed, with a pin
\* that has changed since, or with a window that was dropped after a shortcut
\* had moved it there: the tiler is told of none of these.
LayoutSettles ==
  Quiet =>
    \A m \in Monitors :
      LET s == <<m, current[m]>>
      IN  (\A w \in dead \cup untold : home[w] # s) =>
            /\ ~ts[s].dirty
            /\ ToSet(ts[s].order) = Candidates(s, floating)
            /\ \A w \in Candidates(s, floating) \ zoomed :
                 kind[w] = "yields" => frame[w] = Rects(m, ts[s])[Index(ts[s].order, w)]

\* When the user stops, so does the tiler: the timers lay windows out at most
\* as often as it takes every window to strike out, and once more those that
\* the departure of another lets in again; no window, however it answers, is
\* pushed, struck, floated and readmitted for ever (verify_retile,
\* readmit_if_space_grew).
Converges == rounds <= StrikeLimit * (Cardinality(Windows) + 1) + 1

\* The tiler never undoes a float the user has made: not when the window is
\* moved, shown, or its space loses a tile (readmit_auto_floated).
FloatDecisionStands ==
  [][\A w \in (floating \ auto) \ dead : w \in floating' \/ ToggleFloat(w)]_vars

=============================================================================
