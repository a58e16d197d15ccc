---------------------------- MODULE TilingLayouts ----------------------------
(***************************************************************************)
(* The pure half of dynamic tiling (winspaces-core/src/tiling): the dwindle *)
(* layout, the order of the slots, the neighbour of a tile and what a drag  *)
(* of a tile means.  Rectangles are in pixels; ratios, f32 in the code, are *)
(* tenths.                                                                  *)
(***************************************************************************)
EXTENDS Integers, Sequences, SequencesExt, FiniteSets

CONSTANT None  \* no window, no place

Rect == [l : Int, t : Int, r : Int, b : Int]

Width(x) == x.r - x.l
Height(x) == x.b - x.t

Smaller(i, j) == IF i < j THEN i ELSE j
Larger(i, j) == IF i > j THEN i ELSE j
Distance(i, j) == Larger(i - j, j - i)

MinRatio == 1
MaxRatio == 9
DefaultRatio == 5

ClampedRatio(i) == Larger(MinRatio, Smaller(MaxRatio, i))

\* Gaps::scaled_for_dpi
Scaled(gap, dpi) == IF dpi = 0 THEN gap ELSE (gap * dpi + 48) \div 96

-----------------------------------------------------------------------------
(* compute_dwindle *)

Inset(work, outer) ==
  [l |-> work.l + outer, t |-> work.t + outer,
   r |-> Larger(work.r - outer, work.l + outer), b |-> Larger(work.b - outer, work.t + outer)]

\* The primary split as it is drawn now (effective_split_direction).
Effective(split, x) ==
  IF split # "auto" THEN split ELSE IF Width(x) >= Height(x) THEN "side" ELSE "stacked"

\* Part of a length that a ratio gives to the first tile, rounded.
Share(length, ratio) == (2 * length * ratio + 10) \div 20

\* One split: the tile it yields and the rest.  (Faulty variant: the gap is
\* taken from the first tile only.)
CutWithoutGap(x, ratio, inner, split) ==
  IF Effective(split, x) = "side"
  THEN LET w == Share(Width(x), ratio)
       IN  [tile |-> [x EXCEPT !.r = x.l + w], rest |-> [x EXCEPT !.l = x.l + w + inner]]
  ELSE LET h == Share(Height(x), ratio)
       IN  [tile |-> [x EXCEPT !.b = x.t + h], rest |-> [x EXCEPT !.t = x.t + h]]

Cut(x, ratio, inner, split) ==
  IF Effective(split, x) = "side"
  THEN LET w == Share(Larger(Width(x) - inner, 0), ratio)
       IN  [tile |-> [x EXCEPT !.r = x.l + w], rest |-> [x EXCEPT !.l = x.l + w + inner]]
  ELSE LET h == Share(Larger(Height(x) - inner, 0), ratio)
       IN  [tile |-> [x EXCEPT !.b = x.t + h], rest |-> [x EXCEPT !.t = x.t + h + inner]]

\* The rectangles of n tiles; only the first split has a ratio of its own and
\* a direction that can be overridden (no gesture sets a deeper ratio).
Dwindle(area, n, ratio, inner, split) ==
  LET cut(x, i) == IF i = 1 THEN Cut(x, ratio, inner, split)
                            ELSE Cut(x, DefaultRatio, inner, "auto")
      left[i \in 0..n] == IF i = 0 THEN area ELSE cut(left[i - 1], i).rest
  IN  [i \in 1..n |-> IF i = n THEN left[n - 1] ELSE cut(left[i - 1], i).tile]

-----------------------------------------------------------------------------
(* Order and direction *)

\* The elements of a sequence that are in W, in their order.  (SelectSeq, as a
\* recursive function that a proof can unfold.)
Selected(seq, W) ==
  LET upTo[i \in 0..Len(seq)] ==
        IF i = 0 THEN <<>>
        ELSE IF seq[i] \in W THEN Append(upTo[i - 1], seq[i]) ELSE upTo[i - 1]
  IN  upTo[Len(seq)]

\* reconcile_order: survivors keep their order; newcomers enter after the
\* focused tile, or at the end.
ReconcileOrder(order, ready, focused) ==
  LET kept == Selected(order, ToSet(ready))
      new  == Selected(ready, ToSet(ready) \ ToSet(kept))
      pos  == IF focused \in ToSet(kept)
              THEN CHOOSE i \in DOMAIN kept : kept[i] = focused ELSE Len(kept)
  IN  SubSeq(kept, 1, pos) \o new \o SubSeq(kept, pos + 1, Len(kept))

\* How far x lies in a direction from y, and how much the two face each other.
Ahead(x, y, dir) ==
  CASE dir = "left"  -> y.l - x.r
    [] dir = "right" -> x.l - y.r
    [] dir = "up"    -> y.t - x.b
    [] dir = "down"  -> x.t - y.b

Facing(x, y, dir) ==
  Larger(0, IF dir \in {"left", "right"}
            THEN Smaller(x.b, y.b) - Larger(x.t, y.t)
            ELSE Smaller(x.r, y.r) - Larger(x.l, y.l))

\* directional_neighbor: the nearest, then the one that faces most, then the
\* earlier; at maps the tiles to their rectangles.
Neighbor(w, dir, tiles, at) ==
  LET Ks == {k \in DOMAIN tiles : tiles[k] # w /\ Ahead(at[tiles[k]], at[w], dir) >= 0}
      far(k)  == Ahead(at[tiles[k]], at[w], dir)
      face(k) == Facing(at[tiles[k]], at[w], dir)
      before(j, k) == \/ far(j) < far(k)
                      \/ far(j) = far(k) /\ face(j) > face(k)
                      \/ far(j) = far(k) /\ face(j) = face(k) /\ j <= k
  IN  IF w \notin ToSet(tiles) \/ Ks = {} THEN None
      ELSE tiles[CHOOSE j \in Ks : \A k \in Ks : before(j, k)]

-----------------------------------------------------------------------------
(* Drags *)

Aligned(i, j, slack) == Distance(i, j) <= slack

\* The length of tile k after the drag, as a share of the first two tiles.
Wanted(k, length, total) ==
  ClampedRatio((20 * (IF k = 1 THEN length ELSE total - length) + total) \div (2 * total))

\* classify_drag of the tile at index k (0: none) of the rectangles xs:
\* the size changed by more than slack, or the tile was moved over tile `to`.
Classify(k, old, new, xs, to, shift, fromMax, slack) ==
  LET resized == ~fromMax /\ (\/ Distance(Width(new), Width(old)) > slack
                              \/ Distance(Height(new), Height(old)) > slack)
      primary == Len(xs) >= 2 /\ k \in {1, 2}
      wide    == Width(xs[1]) + Width(xs[2])
      high    == Height(xs[1]) + Height(xs[2])
      side    == wide > 0 /\ Aligned(xs[1].t, xs[2].t, slack) /\ Aligned(xs[1].b, xs[2].b, slack)
      stacked == high > 0 /\ Aligned(xs[1].l, xs[2].l, slack) /\ Aligned(xs[1].r, xs[2].r, slack)
  IN  CASE k = 0 -> [does |-> "snap"]
        [] k # 0 /\ resized /\ primary /\ side ->
             [does |-> "ratio", ratio |-> Wanted(k, Width(new), wide)]
        [] k # 0 /\ resized /\ primary /\ ~side /\ stacked ->
             [does |-> "ratio", ratio |-> Wanted(k, Height(new), high)]
        [] k # 0 /\ ~resized /\ shift -> [does |-> "toggle"]
        [] k # 0 /\ ~resized /\ ~shift /\ to \notin {0, k} ->
             [does |-> "swap", from |-> k, to |-> to]
        [] OTHER -> [does |-> "snap"]
=============================================================================
