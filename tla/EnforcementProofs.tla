------------------------- MODULE EnforcementProofs -------------------------
(***************************************************************************)
(* Proofs about what follows the replay of a layout, for every set of       *)
(* windows and displays, every number of spaces, every length of the        *)
(* deadlines and wherever in the tick count the replay falls.               *)
(***************************************************************************)
EXTENDS Enforcement, TLAPS

-----------------------------------------------------------------------------
(* The tick count *)

\* k ticks after base, in a count that wraps.
After(base, k) == (base + k) % Wrap

LEMMA Constants ==
  /\ Wrap \in Nat \ {0} /\ MaxAge \in Nat \ {0}
  /\ SettleMs \in Nat \ {0} /\ VerifyMs \in Nat \ {0} /\ EnforceMs \in Nat \ {0}
  /\ SettleMs < VerifyMs /\ VerifyMs < EnforceMs
  /\ 4 * EnforceMs < Wrap \div 2 /\ MaxAge < Wrap \div 2
  BY EnforcementAssumption

LEMMA AfterInTicks ==
  ASSUME NEW base \in Ticks, NEW k \in Nat PROVE After(base, k) \in Ticks
  BY Constants DEF After, Ticks

LEMMA AfterAfter ==
  ASSUME NEW base \in Ticks, NEW j \in Nat, NEW k \in Nat, j < Wrap, k < Wrap
  PROVE  (After(base, j) + k) % Wrap = After(base, j + k)
  <1> DEFINE x == base + j
  <1>1. x \in Nat /\ x < 2 * Wrap
    BY Constants DEF Ticks
  <1> HIDE DEF x
  <1>2. ((x % Wrap) + k) % Wrap = (x + k) % Wrap
    <2>1. CASE x < Wrap
      BY <1>1, <2>1, Constants
    <2>2. CASE x >= Wrap
      <3>1. x % Wrap = x - Wrap
        BY <1>1, <2>2, Constants
      <3>2. (x + k - Wrap) % Wrap = (x + k) % Wrap
        BY <1>1, <2>2, Constants
      <3>3. QED
        BY <1>1, <3>1, <3>2, Constants
    <2>3. QED
      BY <1>1, <2>1, <2>2, Constants
  <1>3. QED
    BY <1>2, Constants DEF After, x, Ticks

\* Two instants less than half a wrap apart compare as they would in a count
\* that does not wrap, whatever lies between them; 0 is no deadline.
LEMMA TickBeforeIsBefore ==
  ASSUME NEW base \in Ticks, NEW j \in Nat, NEW k \in Nat,
         j < Wrap \div 2, k < Wrap \div 2
  PROVE  TickBefore(After(base, j), After(base, k)) <=> After(base, k) # 0 /\ j < k
  <1> DEFINE t == After(base, j)
             d == After(base, k)
  <1>1. /\ t = IF base + j < Wrap THEN base + j ELSE base + j - Wrap
        /\ d = IF base + k < Wrap THEN base + k ELSE base + k - Wrap
    BY Constants DEF After, Ticks
  <1>2. t \in Ticks /\ d \in Ticks
    BY AfterInTicks
  <1> HIDE DEF t, d
  <1>3. (t - d) % Wrap = IF j >= k THEN j - k ELSE j - k + Wrap
    <2>1. (t - d) % Wrap = IF t >= d THEN t - d ELSE t - d + Wrap
      BY <1>2, Constants DEF Ticks
    <2>2. QED
      BY <1>1, <2>1, Constants DEF Ticks
  <1>4. (t - d) % Wrap > (Wrap - 1) \div 2 <=> j < k
    BY <1>3, Constants
  <1>5. QED
    BY <1>4 DEF TickBefore, t, d

-----------------------------------------------------------------------------
(* The deadlines *)

\* Where the clock and the deadlines stand when the replay was at base: how long
\* ago that is, and what was set then or extended since.  A deadline that falls
\* on 0 is none, and a ceiling of 0 leaves none to extend to.
ClockAt(base) ==
  /\ age \in 0..MaxAge /\ ends \in EnforceMs..(4 * EnforceMs)
  /\ now = After(base, age)
  /\ settleUntil = After(base, SettleMs)
  /\ cap = After(base, 4 * EnforceMs)
  /\ enforceUntil \in {After(base, ends), 0}
  /\ exact \in BOOLEAN
  /\ exact => 0 \notin {settleUntil, enforceUntil, cap}
  /\ verifyIn \in -1..VerifyMs
  /\ verifyIn >= 0 => age = VerifyMs - verifyIn

ClockInvariant == \E base \in Ticks : ClockAt(base)

LEMMA SettlingIsExact ==
  ASSUME ClockInvariant PROVE Settling <=> settleUntil # 0 /\ age < SettleMs
  <1>1. PICK base \in Ticks : ClockAt(base)
    BY DEF ClockInvariant
  <1>2. now = After(base, age) /\ settleUntil = After(base, SettleMs) /\ age \in 0..MaxAge
    BY <1>1 DEF ClockAt
  <1>3. age < Wrap \div 2 /\ SettleMs < Wrap \div 2 /\ age \in Nat /\ SettleMs \in Nat
    BY <1>2, Constants
  <1>4. QED
    BY <1>2, <1>3, TickBeforeIsBefore DEF Settling

LEMMA EnforcingIsExact ==
  ASSUME ClockInvariant PROVE Enforcing <=> enforceUntil # 0 /\ age < ends
  <1>1. PICK base \in Ticks : ClockAt(base)
    BY DEF ClockInvariant
  <1>2. /\ now = After(base, age) /\ enforceUntil \in {After(base, ends), 0}
        /\ age \in 0..MaxAge /\ ends \in EnforceMs..(4 * EnforceMs)
    BY <1>1 DEF ClockAt
  <1>3. age < Wrap \div 2 /\ ends < Wrap \div 2 /\ age \in Nat /\ ends \in Nat
    BY <1>2, Constants
  <1>4. CASE enforceUntil = 0
    BY <1>4 DEF Enforcing, TickBefore
  <1>5. CASE enforceUntil = After(base, ends)
    BY <1>2, <1>3, <1>5, TickBeforeIsBefore DEF Enforcing
  <1>6. QED
    BY <1>2, <1>4, <1>5

LEMMA ClockProperties ==
  ASSUME ClockInvariant PROVE DeadlinesAreExact /\ EnforcementEnds
  <1>1. PICK base \in Ticks : ClockAt(base)
    BY DEF ClockInvariant
  <1>2. /\ exact => settleUntil # 0 /\ enforceUntil # 0
        /\ age \in Nat /\ ends \in EnforceMs..(4 * EnforceMs)
    BY <1>1 DEF ClockAt
  <1>3. QED
    BY <1>2, Constants, SettlingIsExact, EnforcingIsExact
       DEF DeadlinesAreExact, EnforcementEnds

\* The deadline a push-back sets, and the age up to which it counts.
Later(t) == IF t + EnforceMs < 4 * EnforceMs THEN t + EnforceMs ELSE 4 * EnforceMs

LEMMA ExtendedIs ==
  ASSUME NEW base \in Ticks, ClockAt(base)
  PROVE  /\ Later(age) \in EnforceMs..(4 * EnforceMs)
         /\ Extended(now) \in {After(base, Later(age)), 0}
  <1>1. /\ now = After(base, age) /\ cap = After(base, 4 * EnforceMs) /\ age \in 0..MaxAge
    BY DEF ClockAt
  <1>2. /\ age \in Nat /\ age + EnforceMs \in Nat /\ 4 * EnforceMs \in Nat
        /\ age < Wrap \div 2 /\ age < Wrap /\ EnforceMs < Wrap
    BY <1>1, Constants
  <1> DEFINE want == (now + EnforceMs) % Wrap
  <1>3. want = After(base, age + EnforceMs)
    BY <1>1, <1>2, Constants, AfterAfter
  <1>4. Later(age) \in EnforceMs..(4 * EnforceMs)
    BY <1>2, Constants DEF Later
  <1>5. TickBefore(want, cap) <=> cap # 0 /\ age + EnforceMs < 4 * EnforceMs
    <2>1. CASE age + EnforceMs < 4 * EnforceMs
      <3>1. age + EnforceMs < Wrap \div 2 /\ 4 * EnforceMs < Wrap \div 2
        BY <1>2, <2>1, Constants
      <3>2. QED
        BY <1>1, <1>2, <1>3, <3>1, TickBeforeIsBefore
    <2>2. CASE ~(age + EnforceMs < 4 * EnforceMs)
      <3>1. ~TickBefore(want, cap)
        <4> DEFINE first == After(base, EnforceMs)
        <4>1. first \in Ticks /\ 3 * EnforceMs \in Nat /\ 3 * EnforceMs < Wrap \div 2
          BY Constants, AfterInTicks
        <4>2. want = After(first, age)
          <5>1. (first + age) % Wrap = After(base, EnforceMs + age)
            BY <1>2, Constants, AfterAfter
          <5>2. QED
            BY <1>2, <1>3, <5>1, Constants DEF After
        <4>3. cap = After(first, 3 * EnforceMs)
          <5>1. (first + 3 * EnforceMs) % Wrap = After(base, EnforceMs + 3 * EnforceMs)
            <6>1. EnforceMs \in Nat /\ 3 * EnforceMs < Wrap /\ EnforceMs < Wrap
              BY Constants, <4>1
            <6>2. QED
              BY <4>1, <6>1, AfterAfter
          <5>2. EnforceMs + 3 * EnforceMs = 4 * EnforceMs
            BY Constants
          <5>3. QED
            BY <1>1, <5>1, <5>2 DEF After
        <4>4. ~(age < 3 * EnforceMs)
          BY <1>2, <2>2, Constants
        <4> HIDE DEF first, want
        <4>5. QED
          BY <1>2, <4>1, <4>2, <4>3, <4>4, TickBeforeIsBefore
      <3>2. QED
        BY <2>2, <3>1
    <2>3. QED
      BY <2>1, <2>2
  <1>6. Extended(now) = IF TickBefore(want, cap) THEN want ELSE cap
    BY DEF Extended
  <1> HIDE DEF want
  <1>7. QED
    BY <1>1, <1>3, <1>4, <1>5, <1>6 DEF Later

LEMMA ClockUnchanged ==
  ASSUME ClockInvariant, UNCHANGED clock PROVE ClockInvariant'
  BY DEF ClockInvariant, ClockAt, clock, After, Ticks

LEMMA SlidesKeeps ==
  ASSUME ClockInvariant, Slides PROVE ClockInvariant'
  <1>1. PICK base \in Ticks : ClockAt(base)
    BY DEF ClockInvariant
  <1>2. /\ enforceUntil' = Extended(now) /\ ends' = Later(age)
        /\ exact' = (exact /\ enforceUntil' # 0)
        /\ UNCHANGED <<now, settleUntil, cap, verifyIn, age>>
    BY DEF Slides, Later
  <1>3. /\ ends' \in EnforceMs..(4 * EnforceMs) /\ enforceUntil' \in {After(base, ends'), 0}
    BY <1>1, <1>2, ExtendedIs
  <1>4. exact' \in BOOLEAN /\ (exact' => 0 \notin {settleUntil', enforceUntil', cap'})
    BY <1>1, <1>2 DEF ClockAt
  <1>5. ClockAt(base)'
    BY <1>1, <1>2, <1>3, <1>4 DEF ClockAt, After
  <1>6. QED
    BY <1>5 DEF ClockInvariant, Ticks

LEMMA SlidesIfKeeps ==
  ASSUME ClockInvariant, NEW fought, SlidesIf(fought) PROVE ClockInvariant'
  BY SlidesKeeps, ClockUnchanged DEF SlidesIf

\* The clock moves on; the timer is due, and not late, when the replay is
\* VerifyMs old.
LEMMA TickKeeps ==
  ASSUME ClockInvariant, Tick PROVE ClockInvariant'
  <1>1. PICK base \in Ticks : ClockAt(base)
    BY DEF ClockInvariant
  <1>2. /\ age < MaxAge /\ verifyIn # 0 /\ now' = (now + 1) % Wrap /\ age' = age + 1
        /\ verifyIn' = IF verifyIn > 0 THEN verifyIn - 1 ELSE verifyIn
        /\ UNCHANGED <<settleUntil, enforceUntil, cap, ends, exact>>
    BY DEF Tick
  <1>3. age \in 0..MaxAge /\ now = After(base, age) /\ verifyIn \in -1..VerifyMs
    BY <1>1 DEF ClockAt
  <1>4. now' = After(base, age')
    <2>1. age \in Nat /\ 1 \in Nat /\ age < Wrap /\ 1 < Wrap
      BY <1>3, Constants
    <2>2. QED
      BY <1>2, <1>3, <2>1, AfterAfter
  <1>5. /\ age' \in 0..MaxAge /\ verifyIn' \in -1..VerifyMs
        /\ verifyIn' >= 0 => age' = VerifyMs - verifyIn'
    BY <1>1, <1>2, <1>3, Constants DEF ClockAt
  <1>6. ClockAt(base)'
    BY <1>1, <1>2, <1>4, <1>5 DEF ClockAt, After
  <1>7. QED
    BY <1>6 DEF ClockInvariant, Ticks

\* A replay, at any moment, is a new base.
LEMMA ReplayedClock ==
  ASSUME NEW t \in Ticks
  PROVE  After(t, 0) = t
  BY Constants DEF After, Ticks

LEMMA ReplayKeepsClock ==
  ASSUME ClockInvariant, NEW order, NEW to, NEW up, Replay(order, to, up)
  PROVE  ClockInvariant'
  <1>1. PICK base \in Ticks : ClockAt(base)
    BY DEF ClockInvariant
  <1>2. /\ settleUntil' = In(SettleMs) /\ enforceUntil' = In(EnforceMs)
        /\ cap' = In(4 * EnforceMs) /\ verifyIn' = VerifyMs /\ age' = 0 /\ ends' = EnforceMs
        /\ exact' = (0 \notin {settleUntil', enforceUntil', cap'}) /\ now' = now
    BY DEF Replay
  <1>3. now \in Ticks
    BY <1>1, AfterInTicks DEF ClockAt
  <1>4. now' = After(now, age')
    BY <1>2, <1>3, ReplayedClock
  <1>5. exact' \in BOOLEAN /\ (exact' => 0 \notin {settleUntil', enforceUntil', cap'})
    BY Zenon, <1>2
  <1>6. /\ settleUntil' = After(now, SettleMs) /\ cap' = After(now, 4 * EnforceMs)
        /\ enforceUntil' = After(now, ends')
    BY <1>2 DEF In, After
  <1>7. /\ age' \in 0..MaxAge /\ ends' \in EnforceMs..(4 * EnforceMs)
        /\ verifyIn' \in -1..VerifyMs /\ age' = VerifyMs - verifyIn'
    BY <1>2, Constants
  <1>8. ClockAt(now)' /\ now' \in Ticks'
    BY <1>2, <1>3, <1>4, <1>5, <1>6, <1>7 DEF ClockAt, After, Ticks
  <1>9. QED
    BY <1>8 DEF ClockInvariant

LEMMA VerifyKeepsClock ==
  ASSUME ClockInvariant, Verify PROVE ClockInvariant'
  <1>1. PICK base \in Ticks : ClockAt(base)
    BY DEF ClockInvariant
  <1>2. /\ verifyIn' = -1 /\ UNCHANGED <<now, settleUntil, cap, age>>
        /\ \/ UNCHANGED <<enforceUntil, ends, exact>>
           \/ /\ enforceUntil' = Extended(now) /\ ends' = Later(age)
              /\ exact' = (exact /\ enforceUntil' # 0)
    BY DEF Verify, Later
  <1>3. /\ ends' \in EnforceMs..(4 * EnforceMs) /\ enforceUntil' \in {After(base, ends'), 0}
        /\ exact' \in BOOLEAN /\ (exact' => 0 \notin {settleUntil', enforceUntil', cap'})
    <2>1. CASE UNCHANGED <<enforceUntil, ends, exact>>
      BY <1>1, <1>2, <2>1 DEF ClockAt
    <2>2. CASE /\ enforceUntil' = Extended(now) /\ ends' = Later(age)
               /\ exact' = (exact /\ enforceUntil' # 0)
      <3>1. /\ ends' \in EnforceMs..(4 * EnforceMs) /\ enforceUntil' \in {After(base, ends'), 0}
        BY <1>1, <2>2, ExtendedIs
      <3>2. exact' \in BOOLEAN /\ (exact' => 0 \notin {settleUntil', enforceUntil', cap'})
        BY <1>1, <1>2, <2>2 DEF ClockAt
      <3>3. QED
        BY <3>1, <3>2
    <2>3. QED
      BY <1>2, <2>1, <2>2
  <1>4. verifyIn' \in -1..VerifyMs /\ ~(verifyIn' >= 0)
    BY <1>2, Constants
  <1>5. ClockAt(base)'
    BY <1>1, <1>2, <1>3, <1>4 DEF ClockAt, After
  <1>6. QED
    BY <1>5 DEF ClockInvariant, Ticks

LEMMA CrossMonitorKeepsClock ==
  ASSUME ClockInvariant, NEW S, NEW honours, CrossMonitor(S, honours)
  PROVE  ClockInvariant'
  <1>1. UNCHANGED clock \/ SlidesIf(S # {})
    BY Zenon DEF CrossMonitor, PushBack, Adopt
  <1>2. QED
    BY <1>1, SlidesIfKeeps, ClockUnchanged

\* No step but these touches the clock.
LEMMA StepKeepsClock ==
  ASSUME ClockInvariant, [Next]_vars PROVE ClockInvariant'
  <1>1. CASE Tick \/ Scan \/ Verify \/ Reconnect \/ Reordered
    BY <1>1, TickKeeps, VerifyKeepsClock, ReplayKeepsClock, CrossMonitorKeepsClock,
       ClockUnchanged DEF Scan, Reconnect, Reordered
  <1>2. CASE \E w \in Windows : Activated(w) \/ MoveSizeEnd(w)
    BY <1>2, CrossMonitorKeepsClock DEF Activated, MoveSizeEnd
  <1>3. CASE \E m \in Monitors, i \in 1..10 : SwitchSpace(m, i)
    <2>1. PICK m \in Monitors, i \in 1..10 : SwitchSpace(m, i)
      BY <1>3
    <2>2. \E fought : SlidesIf(fought)
      BY Zenon, <2>1 DEF SwitchSpace
    <2>3. QED
      BY <2>2, SlidesIfKeeps
  <1>4. CASE \E w \in Windows, i \in 1..10 : MoveToSpace(w, i)
    BY <1>4, ClockUnchanged DEF MoveToSpace
  <1>5. CASE \E w \in Windows, m \in Monitors : OsMoves(w, m) \/ Drag(w, m)
    BY <1>5, ClockUnchanged DEF OsMoves, Drag
  <1>6. CASE UNCHANGED vars
    BY <1>6, ClockUnchanged DEF vars
  <1>7. QED
    BY <1>1, <1>2, <1>3, <1>4, <1>5, <1>6 DEF Next

LEMMA InitClock ==
  ASSUME Init PROVE ClockInvariant
  <1>1. now \in Ticks /\ now = After(now, age)
    BY ReplayedClock DEF Init
  <1>2. exact \in BOOLEAN /\ (exact => 0 \notin {settleUntil, enforceUntil, cap})
    BY Zenon DEF Init
  <1>3. /\ settleUntil = After(now, SettleMs) /\ cap = After(now, 4 * EnforceMs)
        /\ enforceUntil = After(now, ends)
    BY DEF Init, In, After
  <1>4. /\ age \in 0..MaxAge /\ ends \in EnforceMs..(4 * EnforceMs)
        /\ verifyIn \in -1..VerifyMs /\ age = VerifyMs - verifyIn
    BY Constants DEF Init
  <1>5. ClockAt(now)
    BY <1>1, <1>2, <1>3, <1>4 DEF ClockAt
  <1>6. QED
    BY <1>1, <1>5 DEF ClockInvariant

-----------------------------------------------------------------------------
(* Where the windows are *)

\* A window nobody has rearranged since the replay is tracked where its target
\* is; one that Windows has moved and that is on screen is back on its display,
\* or the verify timer has yet to fire.
PlacesSound ==
  /\ table \in Orders /\ current \in Current
  /\ at \in [Windows -> Monitors] /\ home \in [Windows -> Places]
  /\ targets \in [Windows -> [idx : 1..Cardinality(Monitors), space : 1..10]]
  /\ strayed \subseteq Windows /\ untouched \subseteq Windows
  /\ \A w \in untouched : Goal(w) = home[w]
  /\ exact => \A w \in strayed \cap untouched :
                ~Hidden(w) => verifyIn >= 0 \/ at[w] = home[w][1]

LEMMA AreWindows ==
  PlacesSound => strayed \subseteq Windows /\ untouched \subseteq Windows
  BY DEF PlacesSound

LEMMA PairOf ==
  ASSUME NEW p \in Places
  PROVE  p[1] \in Monitors /\ p[2] \in 1..10 /\ p[2] <= Rows[p[1]] /\ p = <<p[1], p[2]>>
  BY DEF Places

LEMMA TrackedIsAPlace ==
  ASSUME NEW m \in Monitors, NEW i \in 1..10
  PROVE  /\ Tracked(<<m, i>>) \in Places /\ Tracked(<<m, i>>)[1] = m
         /\ i <= Rows[m] => Tracked(<<m, i>>) = <<m, i>>
  <1>1. Rows[m] \in Nat \ {0}
    BY EnforcementAssumption
  <1>2. QED
    BY <1>1 DEF Tracked, Places

LEMMA GoalIsAPlace ==
  ASSUME PlacesSound, NEW w \in Windows
  PROVE  /\ Goal(w)[1] \in Monitors /\ Tracked(Goal(w)) \in Places
         /\ w \in untouched => Tracked(Goal(w)) = home[w] /\ Goal(w)[1] = home[w][1]
  <1>1. targets[w].idx \in 1..Cardinality(Monitors) /\ targets[w].space \in 1..10
    BY DEF PlacesSound
  <1>2. table \in [1..Cardinality(Monitors) -> Monitors]
    BY DEF PlacesSound, Orders
  <1>3. table[targets[w].idx] \in Monitors
    BY <1>1, <1>2
  <1> DEFINE m == table[targets[w].idx]
             i == targets[w].space
  <1>4. Goal(w) = <<m, i>>
    BY DEF Goal
  <1>5. w \in untouched => <<m, i>> = home[w] /\ i <= Rows[m]
    <2>1. w \in untouched => <<m, i>> = home[w]
      BY <1>4 DEF PlacesSound
    <2>2. home[w] \in Places
      BY DEF PlacesSound
    <2> HIDE DEF m, i
    <2>3. QED
      BY <2>1, <2>2, PairOf
  <1> HIDE DEF m, i
  <1>6. m \in Monitors /\ i \in 1..10
    BY <1>1, <1>3 DEF m, i
  <1>7. /\ Tracked(<<m, i>>) \in Places /\ (i <= Rows[m] => Tracked(<<m, i>>) = <<m, i>>)
    BY <1>6, TrackedIsAPlace
  <1>8. <<m, i>>[1] = m
    OBVIOUS
  <1>9. w \in untouched => Tracked(Goal(w)) = home[w] /\ Goal(w)[1] = home[w][1]
    <2>1. CASE w \in untouched
      <3>1. Tracked(Goal(w)) = <<m, i>> /\ Goal(w) = home[w]
        BY <1>4, <1>5, <1>7, <2>1
      <3>2. QED
        BY <1>4, <3>1
    <2>2. QED
      BY <2>1
  <1>10. QED
    BY <1>4, <1>6, <1>7, <1>8, <1>9

LEMMA HomeIsAPlace ==
  ASSUME PlacesSound, NEW w \in Windows
  PROVE  /\ home[w] \in Places /\ home[w][1] \in Monitors /\ home[w] = <<home[w][1], home[w][2]>>
         /\ at[w] \in Monitors
         /\ current[at[w]] \in 1..10 /\ Tracked(<<at[w], current[at[w]]>>) \in Places
  <1>1. home[w] \in Places /\ at[w] \in Monitors /\ current[at[w]] \in 1..10
    BY DEF PlacesSound, Current
  <1>2. QED
    BY <1>1, PairOf, TrackedIsAPlace

\* A window Windows has moved, in sight, is still pushed back if it is not on
\* its display.
LEMMA InSightIsEnforced ==
  ASSUME ClockInvariant, PlacesSound, exact, NEW w \in strayed \cap untouched,
         ~Hidden(w), Drifted(w)
  PROVE  Enforcing
  <1>1. verifyIn >= 0
    BY DEF PlacesSound, Drifted
  <1>2. PICK base \in Ticks : ClockAt(base)
    BY DEF ClockInvariant
  <1>3. /\ age = VerifyMs - verifyIn /\ verifyIn \in -1..VerifyMs
        /\ ends \in EnforceMs..(4 * EnforceMs) /\ enforceUntil # 0
    BY <1>1, <1>2 DEF ClockAt
  <1>4. age < ends
    BY <1>1, <1>3, Constants
  <1>5. QED
    BY <1>3, <1>4, EnforcingIsExact

\* What a step does to the place of windows none of which is re-homed.
LEMMA NoneRehomed ==
  ASSUME PlacesSound, UNCHANGED <<table, current, targets>>, at' \in [Windows -> Monitors],
         home' \in [Windows -> Places], exact' => exact, strayed' \subseteq Windows,
         \A w \in untouched' : w \in untouched /\ home'[w] = home[w],
         \A w \in strayed' \cap untouched' :
           \/ w \in strayed /\ at'[w] = at[w] /\ verifyIn' = verifyIn
           \/ at'[w] = home[w][1]
           \/ verifyIn' >= 0
  PROVE  PlacesSound'
  <1>1. /\ table' \in Orders /\ current' \in Current
        /\ targets' \in [Windows -> [idx : 1..Cardinality(Monitors), space : 1..10]]
    BY DEF PlacesSound
  <1>2. ASSUME NEW w \in untouched'
        PROVE  Goal(w)' = home'[w] /\ (Hidden(w)' <=> Hidden(w))
    BY DEF PlacesSound, Goal, Hidden
  <1>3. ASSUME exact', NEW w \in strayed' \cap untouched', ~Hidden(w)'
        PROVE  verifyIn' >= 0 \/ at'[w] = home'[w][1]
    BY <1>2, <1>3 DEF PlacesSound
  <1>4. QED
    BY <1>1, <1>2, <1>3 DEF PlacesSound, Orders, Current, Places

\* SlidesIf never makes an inexact deadline exact again.
LEMMA SlidesIfExact ==
  ASSUME NEW fought, SlidesIf(fought) PROVE (exact' => exact) /\ verifyIn' = verifyIn
  BY Zenon DEF SlidesIf, Slides, clock

LEMMA PushBackKeeps ==
  ASSUME PlacesSound, NEW S, PushBack(S), UNCHANGED <<table, current, targets, untouched>>
  PROVE  PlacesSound' /\ \A w \in untouched : home'[w] = home[w]
  <1>1. /\ at' = [w \in Windows |-> IF w \in S THEN Goal(w)[1] ELSE at[w]]
        /\ home' = [w \in Windows |-> IF w \in S THEN Tracked(Goal(w)) ELSE home[w]]
        /\ strayed' = strayed \ S /\ (exact' => exact) /\ verifyIn' = verifyIn
    BY SlidesIfExact DEF PushBack
  <1>2. at' \in [Windows -> Monitors] /\ home' \in [Windows -> Places]
    BY <1>1, GoalIsAPlace, HomeIsAPlace
  <1>3. \A w \in untouched : home'[w] = home[w]
    BY <1>1, GoalIsAPlace, AreWindows
  <1>4. \A w \in strayed' : w \in strayed /\ at'[w] = at[w]
    BY <1>1, AreWindows
  <1>5. QED
    BY <1>1, <1>2, <1>3, <1>4, NoneRehomed DEF PlacesSound

\* A drifted window is re-homed only when it is not one Windows has moved in sight.
LEMMA CrossMonitorKeeps ==
  ASSUME ClockInvariant, PlacesSound, NEW S, NEW honours, CrossMonitor(S, honours),
         \A w \in S : Drifted(w), UNCHANGED <<table, current, targets>>
  PROVE  /\ PlacesSound'
         /\ \A w \in strayed \cap untouched :
              exact /\ ~Hidden(w) /\ w \notin untouched' => home'[w][1] = home[w][1]
  <1>1. CASE UNCHANGED <<at, home, strayed, untouched, clock>>
    <2>1. exact' = exact /\ verifyIn' = verifyIn
      BY <1>1 DEF clock
    <2>2. PlacesSound'
      BY <1>1, <2>1, NoneRehomed DEF PlacesSound
    <2>3. QED
      BY <1>1, <2>2
  <1>2. CASE Enforcing /\ PushBack(S) /\ UNCHANGED untouched
    BY <1>2, PushBackKeeps
  <1>3. CASE ~Enforcing /\ Adopt(S)
    <2>1. /\ home' = [w \in Windows |-> IF w \in S THEN Tracked(<<at[w], current[at[w]]>>)
                                        ELSE home[w]]
          /\ untouched' = untouched \ S /\ at' = at /\ strayed' = strayed
          /\ exact' = exact /\ verifyIn' = verifyIn
      BY <1>3 DEF Adopt, clock
    <2>2. home' \in [Windows -> Places] /\ at' \in [Windows -> Monitors]
      BY <2>1, HomeIsAPlace DEF PlacesSound
    <2>3. PlacesSound'
      BY <2>1, <2>2, NoneRehomed DEF PlacesSound
    <2>4. ASSUME NEW w \in strayed \cap untouched, exact, ~Hidden(w),
                 w \notin untouched'
          PROVE  FALSE
      BY <1>3, <2>1, <2>4, InSightIsEnforced
    <2>5. QED
      BY <2>3, <2>4
  <1>4. QED
    BY Zenon, <1>1, <1>2, <1>3 DEF CrossMonitor

\* What the action property says of a step.
NoAdoption ==
  \A w \in strayed \cap untouched :
    exact /\ ~Hidden(w) /\ w \notin untouched' => home'[w][1] = home[w][1]

LEMMA ScanKeeps ==
  ASSUME ClockInvariant, PlacesSound,
         Scan \/ \E w \in Windows : Activated(w) \/ MoveSizeEnd(w)
  PROVE  PlacesSound' /\ NoAdoption
  <1>1. CASE Scan
    <2> DEFINE S == {w \in Windows : ~Hidden(w) /\ Drifted(w)}
    <2>1. CrossMonitor(S, TRUE) /\ UNCHANGED <<table, current, targets>>
      BY <1>1 DEF Scan
    <2>2. \A w \in S : Drifted(w)
      OBVIOUS
    <2> HIDE DEF S
    <2>3. QED
      BY <2>1, <2>2, CrossMonitorKeeps DEF NoAdoption
  <1>2. CASE \E w \in Windows : Activated(w) \/ MoveSizeEnd(w)
    <2>1. PICK w \in Windows, honours \in BOOLEAN : /\ Drifted(w) /\ CrossMonitor({w}, honours)
                                                   /\ UNCHANGED <<table, current, targets>>
      BY <1>2 DEF Activated, MoveSizeEnd
    <2>2. QED
      BY <2>1, CrossMonitorKeeps DEF NoAdoption
  <1>3. QED
    BY <1>1, <1>2

LEMMA VerifyKeeps ==
  ASSUME ClockInvariant, PlacesSound, Verify PROVE PlacesSound' /\ NoAdoption
  <1> DEFINE moved == {w \in Windows : ~Hidden(w) /\ at[w] # Goal(w)[1]}
             S == IF Enforcing THEN moved ELSE {}
  <1>1. /\ verifyIn = 0 /\ UNCHANGED <<table, current, targets, untouched>>
        /\ at' = [w \in Windows |-> IF w \in S THEN Goal(w)[1] ELSE at[w]]
        /\ home' = [w \in Windows |-> IF w \in S THEN Tracked(Goal(w)) ELSE home[w]]
        /\ strayed' = strayed \ S
    BY DEF Verify
  <1>2. exact' => exact
    BY Zenon DEF Verify
  <1>3. at' \in [Windows -> Monitors] /\ home' \in [Windows -> Places]
    BY <1>1, GoalIsAPlace, HomeIsAPlace
  <1>4. \A w \in untouched : home'[w] = home[w]
    BY <1>1, GoalIsAPlace, AreWindows
  <1>5. exact => Enforcing
    <2>1. PICK base \in Ticks : ClockAt(base)
      BY DEF ClockInvariant
    <2>2. /\ age = VerifyMs /\ ends \in EnforceMs..(4 * EnforceMs)
          /\ exact => enforceUntil # 0
      BY <1>1, <2>1, Constants DEF ClockAt
    <2>3. age < ends
      BY <2>2, Constants
    <2>4. QED
      BY <2>2, <2>3, EnforcingIsExact
  <1>6. ASSUME exact', NEW w \in strayed' \cap untouched', ~Hidden(w)'
        PROVE  at'[w] = home'[w][1]
    <2>1. w \notin moved /\ w \in untouched
      BY <1>1, <1>2, <1>5, <1>6
    <2>2. ~Hidden(w)
      BY <1>1, <1>4, <1>6, <2>1 DEF Hidden
    <2>3. at[w] = Goal(w)[1]
      BY <2>1, <2>2, AreWindows
    <2>4. at'[w] = at[w] /\ home'[w] = home[w] /\ Goal(w)[1] = home[w][1]
      BY <1>1, <1>4, <2>1, GoalIsAPlace, AreWindows
    <2>5. QED
      BY <2>3, <2>4
  <1> HIDE DEF S, moved
  <1>7. \A w \in untouched' : Goal(w)' = home'[w]
    BY <1>1, <1>4 DEF PlacesSound, Goal
  <1>8. PlacesSound'
    BY <1>1, <1>3, <1>6, <1>7 DEF PlacesSound, Orders, Current, Places
  <1>9. QED
    BY <1>1, <1>8 DEF NoAdoption

\* A target names the place it was made from.
LEMMA TargetNamesPlace ==
  ASSUME NEW order \in Orders, NEW p \in Places
  PROVE  /\ Target(order, p) \in [idx : 1..Cardinality(Monitors), space : 1..10]
         /\ <<order[Target(order, p).idx], Target(order, p).space>> = p
  <1>1. p[1] \in Monitors /\ p[2] \in 1..10 /\ p = <<p[1], p[2]>>
    BY PairOf
  <1>2. /\ order \in [1..Cardinality(Monitors) -> Monitors] /\ DOMAIN order = 1..Cardinality(Monitors)
        /\ ToSet(order) = Monitors
    BY DEF Orders
  <1>3. \E k \in DOMAIN order : order[k] = p[1]
    BY <1>1, <1>2 DEF ToSet
  <1> DEFINE i == CHOOSE k \in DOMAIN order : order[k] = p[1]
  <1>4. i \in DOMAIN order /\ order[i] = p[1]
    BY <1>3
  <1>5. Target(order, p) = [idx |-> i, space |-> p[2]]
    BY DEF Target
  <1> HIDE DEF i
  <1>6. QED
    BY <1>1, <1>2, <1>4, <1>5

LEMMA ReconnectKeeps ==
  ASSUME PlacesSound, Reconnect PROVE PlacesSound' /\ NoAdoption
  <1>1. PICK order \in Orders, to \in [Windows -> Places], up \in Current : Replay(order, to, up)
    BY DEF Reconnect
  <1>2. /\ table' = order /\ home' = to /\ current' = up
        /\ at' = [w \in Windows |-> to[w][1]]
        /\ targets' = [w \in Windows |-> Target(order, to[w])]
        /\ strayed' = {} /\ untouched' = Windows
    BY <1>1 DEF Replay
  <1>3. at' \in [Windows -> Monitors]
    BY <1>2, PairOf
  <1>4. targets' \in [Windows -> [idx : 1..Cardinality(Monitors), space : 1..10]]
    BY <1>2, TargetNamesPlace
  <1>5. ASSUME NEW w \in Windows PROVE Goal(w)' = home'[w]
    <2>1. targets'[w] = Target(order, to[w]) /\ to[w] \in Places
      BY <1>2
    <2>2. QED
      BY <1>2, <2>1, TargetNamesPlace DEF Goal
  <1>6. PlacesSound'
    BY <1>2, <1>3, <1>4, <1>5 DEF PlacesSound, Orders, Current, Places
  <1>7. QED
    BY <1>2, <1>6, AreWindows DEF NoAdoption

LEMMA ReorderedKeeps ==
  ASSUME PlacesSound, Reordered PROVE PlacesSound' /\ NoAdoption
  BY DEF Reordered, PlacesSound, NoAdoption, Orders, Current, Places

LEMMA SwitchKeeps ==
  ASSUME PlacesSound, NEW m \in Monitors, NEW i \in 1..10, SwitchSpace(m, i)
  PROVE  PlacesSound' /\ NoAdoption
  <1> DEFINE shown == {w \in Windows : home[w] = <<m, i>>}
             heal == {w \in shown : Healed(w, m, i)}
  <1>1. /\ i \in 1..Rows[m] /\ current' = [current EXCEPT ![m] = i]
        /\ at' = [w \in Windows |-> IF w \in heal THEN m ELSE at[w]]
        /\ strayed' = strayed \ heal /\ SlidesIf(heal # {})
        /\ UNCHANGED <<table, home, targets, untouched>>
    BY DEF SwitchSpace
  <1>2. /\ current \in Current /\ at \in [Windows -> Monitors] /\ Rows[m] \in Nat \ {0}
    BY EnforcementAssumption DEF PlacesSound
  <1>3. current' \in Current /\ at' \in [Windows -> Monitors]
    BY <1>1, <1>2 DEF Current
  <1>4. \A w \in untouched' : Goal(w)' = home'[w]
    BY <1>1 DEF PlacesSound, Goal
  <1>5. (exact' => exact) /\ verifyIn' = verifyIn
    BY <1>1, SlidesIfExact
  <1>6. ASSUME exact', NEW w \in strayed' \cap untouched', ~Hidden(w)'
        PROVE  verifyIn' >= 0 \/ at'[w] = home'[w][1]
    <2>1. /\ w \in strayed /\ w \in untouched /\ w \notin heal /\ at'[w] = at[w]
          /\ home'[w] = home[w] /\ home[w] = <<home[w][1], home[w][2]>>
          /\ home[w][1] \in Monitors
      BY <1>1, <1>6, HomeIsAPlace, AreWindows
    <2>2. CASE home[w][1] = m
      <3>1. home[w] = <<m, i>>
        BY <1>1, <1>2, <1>6, <2>1, <2>2 DEF Hidden, Current
      <3>2. Goal(w) = <<m, i>>
        BY <2>1, <3>1 DEF PlacesSound
      <3>3. at[w] = m
        BY <2>1, <3>1, <3>2, AreWindows DEF Healed
      <3>4. QED
        BY <2>1, <2>2, <3>3
    <2>3. CASE home[w][1] # m
      <3>1. ~Hidden(w)
        BY <1>1, <1>2, <1>6, <2>1, <2>3 DEF Hidden, Current
      <3>2. QED
        BY <1>5, <1>6, <2>1, <3>1 DEF PlacesSound
    <2>4. QED
      BY <2>2, <2>3
  <1> HIDE DEF heal
  <1>7. PlacesSound'
    BY <1>1, <1>3, <1>4, <1>6 DEF PlacesSound, Orders, Current, Places
  <1>8. QED
    BY <1>1, <1>7 DEF NoAdoption

LEMMA UserKeeps ==
  ASSUME ClockInvariant, PlacesSound,
         \/ \E w \in Windows, i \in 1..10 : MoveToSpace(w, i)
         \/ \E w \in Windows, m \in Monitors : OsMoves(w, m) \/ Drag(w, m)
  PROVE  PlacesSound' /\ NoAdoption
  <1>1. CASE \E w \in Windows, i \in 1..10 : MoveToSpace(w, i)
    <2>1. PICK v \in Windows, i \in 1..10 : MoveToSpace(v, i)
      BY <1>1
    <2>2. /\ i \in 1..Rows[home[v][1]] /\ home' = [home EXCEPT ![v] = <<home[v][1], i>>]
          /\ untouched' = untouched \ {v}
          /\ UNCHANGED <<clock, table, at, current, targets, strayed>>
      BY <2>1 DEF MoveToSpace
    <2>3. home \in [Windows -> Places] /\ at \in [Windows -> Monitors] /\ home[v][1] \in Monitors
      BY HomeIsAPlace DEF PlacesSound
    <2>4. <<home[v][1], i>> \in Places
      BY <2>2, <2>3, EnforcementAssumption DEF Places
    <2>5. home' \in [Windows -> Places]
      BY <2>2, <2>3, <2>4
    <2>6. \A w \in Windows \ {v} : home'[w] = home[w]
      BY <2>2, <2>3
    <2>7. home'[v][1] = home[v][1]
      BY <2>2, <2>3
    <2>8. exact' = exact /\ verifyIn' = verifyIn
      BY <2>2 DEF clock
    <2>9. PlacesSound'
      BY <2>2, <2>3, <2>5, <2>6, <2>8, NoneRehomed DEF PlacesSound
    <2>10. QED
      BY <2>6, <2>7, <2>9, AreWindows DEF NoAdoption
  <1>2. CASE \E w \in Windows, m \in Monitors : OsMoves(w, m)
    <2>1. PICK v \in Windows, m \in Monitors : OsMoves(v, m)
      BY <1>2
    <2>2. /\ verifyIn > 0 /\ at' = [at EXCEPT ![v] = m] /\ strayed' = strayed \cup {v}
          /\ UNCHANGED <<clock, table, home, current, targets, untouched>>
          /\ at \in [Windows -> Monitors] /\ home \in [Windows -> Places]
      BY <2>1 DEF OsMoves, PlacesSound
    <2>3. exact' = exact /\ verifyIn' = verifyIn
      BY <2>2 DEF clock
    <2>4. verifyIn' >= 0
      <3>1. verifyIn \in -1..VerifyMs
        BY DEF ClockInvariant, ClockAt
      <3>2. QED
        BY <2>2, <2>3, <3>1, Constants
    <2>5. at' \in [Windows -> Monitors]
      BY <2>2
    <2>6. QED
      BY <2>2, <2>3, <2>4, <2>5, NoneRehomed DEF NoAdoption, PlacesSound
  <1>3. CASE \E w \in Windows, m \in Monitors : Drag(w, m)
    <2>1. PICK v \in Windows, m \in Monitors : Drag(v, m)
      BY <1>3
    <2>2. /\ at' = [at EXCEPT ![v] = m] /\ strayed' = strayed \ {v}
          /\ untouched' = untouched \ {v}
          /\ UNCHANGED <<clock, table, home, current, targets>>
          /\ at \in [Windows -> Monitors] /\ home \in [Windows -> Places]
      BY <2>1 DEF Drag, PlacesSound
    <2>3. exact' = exact /\ verifyIn' = verifyIn
      BY <2>2 DEF clock
    <2>4. at' \in [Windows -> Monitors] /\ \A w \in Windows \ {v} : at'[w] = at[w]
      BY <2>2
    <2>5. QED
      BY <2>2, <2>3, <2>4, NoneRehomed DEF NoAdoption, PlacesSound
  <1>4. QED
    BY <1>1, <1>2, <1>3

\* The clock moves on, and no window; the timer that is due fires first.
LEMMA TickKeepsPlaces ==
  ASSUME ClockInvariant, PlacesSound, Tick \/ UNCHANGED vars PROVE PlacesSound' /\ NoAdoption
  <1>1. /\ UNCHANGED <<table, at, home, current, targets, strayed, untouched, exact>>
        /\ verifyIn >= 0 => verifyIn' >= 0
    <2>1. CASE UNCHANGED vars
      BY <2>1 DEF vars, clock
    <2>2. CASE Tick
      <3>1. verifyIn \in -1..VerifyMs
        BY DEF ClockInvariant, ClockAt
      <3>2. QED
        BY <2>2, <3>1, Constants DEF Tick
    <2>3. QED
      BY <2>1, <2>2
  <1>2. PlacesSound'
    BY <1>1 DEF PlacesSound, Goal, Hidden, Orders, Current, Places
  <1>3. QED
    BY <1>1, <1>2 DEF NoAdoption

LEMMA StepKeepsPlaces ==
  ASSUME ClockInvariant, PlacesSound, [Next]_vars PROVE PlacesSound' /\ NoAdoption
  BY ScanKeeps, VerifyKeeps, ReconnectKeeps, ReorderedKeeps, SwitchKeeps, UserKeeps,
     TickKeepsPlaces DEF Next

LEMMA InitPlaces ==
  ASSUME Init PROVE PlacesSound
  <1>1. /\ table \in Orders /\ home \in [Windows -> Places] /\ current \in Current
        /\ at = [w \in Windows |-> home[w][1]]
        /\ targets = [w \in Windows |-> Target(table, home[w])] /\ strayed = {}
    BY DEF Init
  <1>2. at \in [Windows -> Monitors]
    BY <1>1, PairOf
  <1>3. targets \in [Windows -> [idx : 1..Cardinality(Monitors), space : 1..10]]
    BY <1>1, TargetNamesPlace
  <1>4. \A w \in Windows : Goal(w) = home[w]
    BY <1>1, TargetNamesPlace DEF Goal
  <1>5. QED
    BY <1>1, <1>2, <1>3, <1>4 DEF PlacesSound, Init

-----------------------------------------------------------------------------
(* The invariants hold, and what follows from them *)

\* The strengthened invariant: the deadlines stand where a count that does not
\* wrap would put them, and what nobody has rearranged is tracked at its target.
THEOREM EnforcementAlwaysSound == Spec => [](ClockInvariant /\ PlacesSound)
  <1>1. Init => ClockInvariant /\ PlacesSound
    BY InitClock, InitPlaces
  <1>2. ClockInvariant /\ PlacesSound /\ [Next]_vars => (ClockInvariant /\ PlacesSound)'
    BY StepKeepsClock, StepKeepsPlaces
  <1>3. QED
    BY <1>1, <1>2, PTL DEF Spec

\* However the tick count falls against the replay, also across its wrap, each
\* deadline holds for as long as it was set for, unless it falls on 0
\* (tick_before, suppress_rehome_until, enforce_restore_until).
THEOREM DeadlinesAreExactCorrect == Spec => []DeadlinesAreExact
  <1>1. ClockInvariant /\ PlacesSound => DeadlinesAreExact
    BY ClockProperties
  <1>2. QED
    BY <1>1, EnforcementAlwaysSound, PTL

\* However often a push-back or a heal extends it, enforcement is over when the
\* replay is four times EnforceMs old (extend_restore_enforcement).
THEOREM EnforcementEndsCorrect == Spec => []EnforcementEnds
  <1>1. ClockInvariant /\ PlacesSound => EnforcementEnds
    BY ClockProperties
  <1>2. QED
    BY <1>1, EnforcementAlwaysSound, PTL

\* A window that Windows has moved off its place after a replay, in sight or
\* hidden, is pushed back or healed and never re-homed where it was put, in
\* whatever order it surfaces, is activated, scanned for and switched to
\* (adopt_cross_monitor_move, enforce_restore_pass, switch_space).
THEOREM DriftNeverAdoptedCorrect == Spec => DriftNeverAdopted
  <1>1. ClockInvariant /\ PlacesSound /\ [Next]_vars =>
          [\A w \in strayed \cap untouched :
             exact /\ ~Hidden(w) /\ w \notin untouched'
             => home'[w][1] = home[w][1]]_vars
    BY StepKeepsPlaces DEF NoAdoption, PlacesSound
  <1>2. QED
    BY <1>1, EnforcementAlwaysSound, PTL DEF Spec, DriftNeverAdopted
=============================================================================
