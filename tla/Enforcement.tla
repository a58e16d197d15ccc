----------------------------- MODULE Enforcement -----------------------------
(***************************************************************************)
(* What follows the replay of a layout.  Placements land late, and for some *)
(* seconds Windows and some applications move windows again ("remember      *)
(* window locations"), so the daemon holds off re-homing while a replay     *)
(* settles and then pushes restored windows back for a sliding time with a  *)
(* ceiling (spaces/enforce.rs, rehome.rs, the healing in switch_space).     *)
(* Deadlines are values of GetTickCount, which wraps (index_math.rs).       *)
(* Tiling is off: with it the windows it lays out are not pushed back       *)
(* (tiling_owns_window), and each of its passes settles anew.               *)
(*                                                                          *)
(* Time counts in ticks modulo Wrap.  age counts the same ticks since the   *)
(* last replay without wrapping; it and the other observers (ends, strayed, *)
(* untouched, exact) are read by no action of the program.                  *)
(***************************************************************************)
EXTENDS Integers, Sequences, SequencesExt, FiniteSets

CONSTANTS
  Windows,     \* the windows the replay places
  Monitors,    \* displays, by stable id
  Rows,        \* [Monitors -> their numbers of spaces]
  Wrap,        \* 2^32, of the tick count
  SettleMs,    \* SETTLE_MS
  VerifyMs,    \* RESTORE_VERIFY_MS
  EnforceMs,   \* RESTORE_ENFORCE_MS
  MaxAge       \* bound: how long after a replay the model follows it, less
               \* than half a wrap: older deadlines would count as ahead again

ASSUME EnforcementAssumption ==
  /\ Rows \in [Monitors -> Nat \ {0}]
  /\ {Wrap, SettleMs, VerifyMs, EnforceMs, MaxAge} \subseteq Nat \ {0}
  /\ SettleMs < VerifyMs /\ VerifyMs < EnforceMs
  /\ 4 * EnforceMs < Wrap \div 2 /\ MaxAge < Wrap \div 2

VARIABLES
  now,           \* GetTickCount
  settleUntil,   \* suppress_rehome_until
  enforceUntil,  \* enforce_restore_until
  cap,           \* enforce_restore_cap
  verifyIn,      \* ticks until TIMER_RESTORE_VERIFY fires, -1 when not armed
  table,         \* the monitor table in the order of EnumDisplayMonitors
  at,            \* the display each window is on
  home,          \* where it is tracked: <<display, space>>
  current,       \* the current spaces
  targets,       \* restore_targets: index in the table and space
  age, ends, strayed, untouched, exact

clock == <<now, settleUntil, enforceUntil, cap, verifyIn, age, ends, exact>>
vars == <<clock, table, at, home, current, targets, strayed, untouched>>

Ticks == 0..(Wrap - 1)
Places == {p \in Monitors \X (1..10) : p[2] <= Rows[p[1]]}

TypeOK ==
  /\ {now, settleUntil, enforceUntil, cap} \subseteq Ticks
  /\ verifyIn \in -1..VerifyMs
  /\ table \in [1..Cardinality(Monitors) -> Monitors] /\ ToSet(table) = Monitors
  /\ at \in [Windows -> Monitors] /\ home \in [Windows -> Places]
  /\ current \in [Monitors -> 1..10] /\ \A m \in Monitors : current[m] <= Rows[m]
  /\ targets \in [Windows -> [idx : 1..Cardinality(Monitors), space : 1..10]]
  /\ age \in 0..MaxAge /\ ends \in 0..(4 * EnforceMs)
  /\ strayed \subseteq Windows /\ untouched \subseteq Windows /\ exact \in BOOLEAN

-----------------------------------------------------------------------------
(* The tick count *)

\* Faulty variant: a plain comparison.
TickBeforePlain(t, deadline) == t < deadline

\* tick_before: 0 is "no deadline".
TickBefore(t, deadline) == deadline # 0 /\ (t - deadline) % Wrap > (Wrap - 1) \div 2

In(ms) == (now + ms) % Wrap

Settling == TickBefore(now, settleUntil)
Enforcing == TickBefore(now, enforceUntil)

\* Faulty variant: the deadline slides without its ceiling.
ExtendedUncapped(t) == (t + EnforceMs) % Wrap

\* extend_restore_enforcement
Extended(t) ==
  LET want == (t + EnforceMs) % Wrap
  IN  IF TickBefore(want, cap) THEN want ELSE cap

\* A push-back or a heal: the deadline slides.
Slides ==
  /\ enforceUntil' = Extended(now)
  /\ ends' = IF age + EnforceMs < 4 * EnforceMs THEN age + EnforceMs ELSE 4 * EnforceMs
  /\ exact' = (exact /\ enforceUntil' # 0)
  /\ UNCHANGED <<now, settleUntil, cap, verifyIn, age>>

SlidesIf(fought) == IF fought THEN Slides ELSE UNCHANGED clock

-----------------------------------------------------------------------------
(* Placement *)

Hidden(w) == current[home[w][1]] # home[w][2]

\* The display and the space a target names now.
Goal(w) == <<table[targets[w].idx], targets[w].space>>

Drifted(w) == at[w] # home[w][1]

\* track_window, of a valid window
Tracked(p) == IF p[2] > Rows[p[1]] THEN <<p[1], Rows[p[1]]>> ELSE p

\* Where the windows of S go: try_enforce_restore for all of them, or the
\* current space of the display each is on.
PushBack(S) ==
  /\ at' = [w \in Windows |-> IF w \in S THEN Goal(w)[1] ELSE at[w]]
  /\ home' = [w \in Windows |-> IF w \in S THEN Tracked(Goal(w)) ELSE home[w]]
  /\ strayed' = strayed \ S
  /\ SlidesIf(S # {})

Adopt(S) ==
  /\ home' = [w \in Windows |-> IF w \in S THEN Tracked(<<at[w], current[at[w]]>>) ELSE home[w]]
  /\ untouched' = untouched \ S
  /\ UNCHANGED <<at, strayed, clock>>

\* adopt_cross_monitor_move for the windows of S.
CrossMonitor(S, honoursSettle) ==
  IF honoursSettle /\ Settling THEN UNCHANGED <<at, home, strayed, untouched, clock>>
  ELSE IF Enforcing THEN PushBack(S) /\ UNCHANGED untouched
  ELSE Adopt(S)

-----------------------------------------------------------------------------
(* The daemon *)

\* RestoreTarget
Target(order, p) ==
  [idx |-> CHOOSE k \in DOMAIN order : order[k] = p[1], space |-> p[2]]

\* restore_snapshot and the timer its callers arm: every window of the
\* snapshot to its display and space, hidden or not.
Replay(order, to, up) ==
  /\ table' = order /\ home' = to /\ current' = up
  /\ at' = [w \in Windows |-> to[w][1]]
  /\ targets' = [w \in Windows |-> Target(order, to[w])]
  /\ settleUntil' = In(SettleMs) /\ enforceUntil' = In(EnforceMs)
  /\ cap' = In(4 * EnforceMs)
  /\ verifyIn' = VerifyMs
  /\ age' = 0 /\ ends' = EnforceMs
  /\ strayed' = {} /\ untouched' = Windows
  /\ exact' = (0 \notin {settleUntil', enforceUntil', cap'})
  /\ UNCHANGED now

Orders == {s \in [1..Cardinality(Monitors) -> Monitors] : ToSet(s) = Monitors}
Current == {c \in [Monitors -> 1..10] : \A m \in Monitors : c[m] <= Rows[m]}

Reconnect ==
  \E order \in Orders, to \in [Windows -> Places], up \in Current : Replay(order, to, up)

\* handle_display_change for the same displays in another order: the topology
\* is unchanged, nothing is replayed, and the targets keep their indices.
Reordered ==
  /\ table' \in Orders \ {table}
  /\ untouched' = {}
  /\ UNCHANGED <<clock, at, home, current, targets, strayed>>

\* scan_untracked_windows: hidden windows are not looked at.
Scan ==
  /\ CrossMonitor({w \in Windows : ~Hidden(w) /\ Drifted(w)}, TRUE)
  /\ UNCHANGED <<table, current, targets>>

\* resolve_activation looks at hidden windows, too.
Activated(w) ==
  /\ Drifted(w)
  /\ CrossMonitor({w}, TRUE)
  /\ UNCHANGED <<table, current, targets>>

MoveSizeEnd(w) ==
  /\ Drifted(w) /\ ~Hidden(w)
  /\ CrossMonitor({w}, FALSE)
  /\ UNCHANGED <<table, current, targets>>

\* Faulty variant: healing stops with the enforcement.
HealedInTime(w, m, i) == Enforcing /\ Goal(w) = <<m, i>> /\ at[w] # m

\* heal_restored_placement: a window the switch shows, tracked where its
\* target is but found on another display.
Healed(w, m, i) == Goal(w) = <<m, i>> /\ at[w] # m

\* switch_space, after its scan.
SwitchSpace(m, i) ==
  LET shown == {w \in Windows : home[w] = <<m, i>>}
      heal  == {w \in shown : Healed(w, m, i)}
  IN  /\ i \in 1..Rows[m] /\ i # current[m]
      /\ current' = [current EXCEPT ![m] = i]
      /\ at' = [w \in Windows |-> IF w \in heal THEN m ELSE at[w]]
      /\ strayed' = strayed \ heal
      /\ SlidesIf(heal # {})
      /\ UNCHANGED <<table, home, targets, untouched>>

\* enforce_restore_pass, on TIMER_RESTORE_VERIFY.
Verify ==
  LET moved == {w \in Windows : ~Hidden(w) /\ at[w] # Goal(w)[1]}
      S     == IF Enforcing THEN moved ELSE {}
  IN  /\ verifyIn = 0
      /\ at' = [w \in Windows |-> IF w \in S THEN Goal(w)[1] ELSE at[w]]
      /\ home' = [w \in Windows |-> IF w \in S THEN Tracked(Goal(w)) ELSE home[w]]
      /\ strayed' = strayed \ S
      /\ verifyIn' = -1
      /\ IF S = {} THEN UNCHANGED <<enforceUntil, ends, exact>>
         ELSE /\ enforceUntil' = Extended(now)
              /\ ends' = IF age + EnforceMs < 4 * EnforceMs THEN age + EnforceMs
                         ELSE 4 * EnforceMs
              /\ exact' = (exact /\ enforceUntil' # 0)
      /\ UNCHANGED <<now, settleUntil, cap, age, table, current, targets, untouched>>

\* The user moves a window to another space of its display.
MoveToSpace(w, i) ==
  /\ ~Hidden(w) /\ i \in 1..Rows[home[w][1]] /\ i # home[w][2]
  /\ home' = [home EXCEPT ![w] = <<@[1], i>>]
  /\ untouched' = untouched \ {w}
  /\ UNCHANGED <<clock, table, at, current, targets, strayed>>

-----------------------------------------------------------------------------
(* The world *)

\* The message loop is never blocked for as long as a tick: a due timer fires.
Tick ==
  /\ age < MaxAge /\ verifyIn # 0
  /\ now' = (now + 1) % Wrap
  /\ age' = age + 1
  /\ verifyIn' = IF verifyIn > 0 THEN verifyIn - 1 ELSE verifyIn
  /\ UNCHANGED <<settleUntil, enforceUntil, cap, ends, exact,
                 table, at, home, current, targets, strayed, untouched>>

\* Windows moves windows again, hidden or not, until the verify timer fires.
OsMoves(w, m) ==
  /\ verifyIn > 0
  /\ m # at[w]
  /\ at' = [at EXCEPT ![w] = m]
  /\ strayed' = strayed \cup {w}
  /\ UNCHANGED <<clock, table, home, current, targets, untouched>>

Drag(w, m) ==
  /\ ~Hidden(w) /\ m # at[w]
  /\ at' = [at EXCEPT ![w] = m]
  /\ strayed' = strayed \ {w} /\ untouched' = untouched \ {w}
  /\ UNCHANGED <<clock, table, home, current, targets>>

-----------------------------------------------------------------------------
(* Properties *)

\* Across the wrap of the tick count, a deadline holds for exactly as long as
\* it was set for: a replay settles for SettleMs and is enforced until the
\* last push-back is EnforceMs old (tick_before).  A deadline that falls on 0
\* is none (exact), and a deadline must not be half a wrap old (MaxAge).
DeadlinesAreExact ==
  exact => /\ Settling <=> age < SettleMs
           /\ Enforcing <=> age < ends

\* However long Windows, an application or the user keeps moving a restored
\* window, it is pushed back no longer than four times the enforcement time
\* after the replay (extend_restore_enforcement).
EnforcementEnds == Enforcing => age < 4 * EnforceMs

\* A window that Windows has moved off the place a replay gave it, seen or
\* hidden, is never re-homed where Windows put it once it is on screen,
\* whether it surfaces before the enforcement ends or long after: it has been
\* pushed back or healed.  Left out (untouched): windows the user has
\* rearranged since, and a table reordered since, where the index of a target
\* names another display.
DriftNeverAdopted ==
  [][\A w \in strayed \cap untouched :
       exact /\ ~Hidden(w) /\ w \notin untouched'
       => home'[w][1] = home[w][1]]_vars

-----------------------------------------------------------------------------
Init ==
  /\ now \in Ticks
  /\ age = 0 /\ ends = EnforceMs
  /\ settleUntil = In(SettleMs) /\ enforceUntil = In(EnforceMs) /\ cap = In(4 * EnforceMs)
  /\ verifyIn = VerifyMs
  /\ table \in Orders /\ home \in [Windows -> Places] /\ current \in Current
  /\ at = [w \in Windows |-> home[w][1]]
  /\ targets = [w \in Windows |-> Target(table, home[w])]
  /\ strayed = {} /\ untouched = Windows
  /\ exact = (0 \notin {settleUntil, enforceUntil, cap})

Next ==
  \/ Tick \/ Scan \/ Verify \/ Reconnect \/ Reordered
  \/ \E w \in Windows : Activated(w) \/ MoveSizeEnd(w)
  \/ \E m \in Monitors, i \in 1..10 : SwitchSpace(m, i)
  \/ \E w \in Windows, i \in 1..10 : MoveToSpace(w, i)
  \/ \E w \in Windows, m \in Monitors : OsMoves(w, m) \/ Drag(w, m)

Spec == Init /\ [][Next]_vars
=============================================================================
