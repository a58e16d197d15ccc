---------------------------- MODULE ControlProofs ----------------------------
(***************************************************************************)
(* Proofs about the settings file, the daemon and the hotkeys, for every    *)
(* number of spaces, every set of keys and specials, every configuration,   *)
(* every length of the daemon's queue and every budget of acts.             *)
(***************************************************************************)
EXTENDS ControlProperties, TLAPS, SequenceTheorems

Attempts == [id : Ids, key : {None} \cup Keys]

\* The attempts that the bindings stand for.
Of(bind) == {a \in Attempts : a.key = KeyOf(bind, a.id)}

-----------------------------------------------------------------------------
(* The identifiers and the plan of a registration *)

LEMMA Numbers ==
  /\ MaxSpaces \in Nat \ {0} /\ SpecialBase = 2 * MaxSpaces /\ MoveBase = MaxSpaces
  /\ Exit = 2 * MaxSpaces /\ Toggle = 2 * MaxSpaces + 1
  /\ LastId \in Nat /\ LastId >= Toggle
  /\ Exit \in Ids /\ Toggle \in Ids
  /\ \A id \in Ids : id \in Nat
  /\ 0 .. 2 * MaxSpaces - 1 \subseteq Ids
  BY SpacesAssumption, LenProperties
     DEF SpecialBase, MoveBase, Exit, Toggle, LastId, Ids

LEMMA KeyOfIsAKey ==
  ASSUME NEW bind \in Bindings, NEW id \in Ids
  PROVE  KeyOf(bind, id) \in {None} \cup Keys
  <1>1. CASE id = Exit
    BY Zenon, <1>1, KeysAssumption DEF KeyOf
  <1>2. CASE id = Toggle
    <2>1. Toggle # Exit
      BY Numbers
    <2>2. KeyOf(bind, id) = ToggleKey
      BY Zenon, <1>2, <2>1 DEF KeyOf
    <2>3. QED
      BY <2>2, KeysAssumption
  <1>3. CASE id \in Configurable
    <2>1. id # Exit /\ id # Toggle
      BY <1>3 DEF Configurable
    <2>2. KeyOf(bind, id) = bind[id]
      BY Zenon, <2>1 DEF KeyOf
    <2>3. QED
      BY <1>3, <2>2 DEF Bindings
  <1>4. QED
    BY <1>1, <1>2, <1>3 DEF Configurable

LEMMA DigitKey ==
  ASSUME NEW bind \in Bindings, NEW id \in 0 .. 2 * MaxSpaces - 1
  PROVE  KeyOf(bind, id) = bind[id] /\ id \in Ids
  <1>1. id # Exit /\ id # Toggle /\ id \in Ids
    BY Numbers
  <1>2. QED
    BY Zenon, <1>1 DEF KeyOf

LEMMA DigitsAreOf ==
  ASSUME NEW bind \in Bindings, NEW n \in 1 .. MaxSpaces
  PROVE  Digits(bind, n, MoveBase) \in Seq(Of(bind))
  <1> DEFINE space(i) == (i - 1) \div 2
             digit(i) == IF i % 2 = 1 THEN [id |-> space(i), key |-> bind[space(i)]]
                         ELSE [id |-> MoveBase + space(i), key |-> bind[MaxSpaces + space(i)]]
  <1>1. n \in Nat /\ 2 * n \in Nat
    BY Numbers
  <1>2. ASSUME NEW i \in 1 .. 2 * n PROVE digit(i) \in Of(bind)
    <2>1. space(i) \in 0 .. n - 1
      BY <1>1
    <2>2. /\ space(i) \in 0 .. 2 * MaxSpaces - 1
          /\ MaxSpaces + space(i) \in 0 .. 2 * MaxSpaces - 1
      BY <1>1, <2>1, Numbers
    <2> HIDE DEF space
    <2>3. ASSUME NEW id \in 0 .. 2 * MaxSpaces - 1
          PROVE  [id |-> id, key |-> bind[id]] \in Of(bind)
      <3>1. id \in Ids /\ KeyOf(bind, id) = bind[id]
        BY DigitKey
      <3>2. [id |-> id, key |-> bind[id]] \in Attempts
        BY <3>1, KeyOfIsAKey DEF Attempts
      <3>3. QED
        BY <3>1, <3>2 DEF Of
    <2>4. QED
      BY <2>2, <2>3 DEF MoveBase
  <1>3. Digits(bind, n, MoveBase) = [i \in 1 .. 2 * n |-> digit(i)]
    BY DEF Digits
  <1> HIDE DEF digit
  <1>4. QED
    BY <1>1, <1>2, <1>3, IsASeq

LEMMA OthersAreOf ==
  ASSUME NEW bind \in Bindings PROVE Others(bind) \in Seq(Of(bind))
  <1> DEFINE id(i) == SpecialBase + i - 1
             other(i) == [id |-> id(i), key |-> KeyOf(bind, id(i))]
  <1>1. LastId - SpecialBase + 1 \in Nat
    BY Numbers
  <1>2. ASSUME NEW i \in 1 .. LastId - SpecialBase + 1 PROVE other(i) \in Of(bind)
    <2>1. id(i) \in Ids
      BY Numbers DEF Ids
    <2> HIDE DEF id
    <2>2. KeyOf(bind, id(i)) \in {None} \cup Keys
      BY <2>1, KeyOfIsAKey
    <2>3. QED
      BY <2>1, <2>2 DEF Of, Attempts
  <1>3. Others(bind) = [i \in 1 .. LastId - SpecialBase + 1 |-> other(i)]
    BY DEF Others
  <1> HIDE DEF other
  <1>4. QED
    BY <1>1, <1>2, <1>3, IsASeq

\* Every attempt of a plan is one of the bindings'.
LEMMA PlanIsOf ==
  ASSUME NEW bind \in Bindings, NEW n \in 1 .. MaxSpaces
  PROVE  Plan(bind, n) \in Seq(Of(bind))
  BY DigitsAreOf, OthersAreOf, ConcatProperties DEF Plan

LEMMA OfAreAttempts ==
  ASSUME NEW bind, NEW s \in Seq(Of(bind)) PROVE s \in Seq(Attempts)
  <1>1. \A i \in 1 .. Len(s) : s[i] \in Attempts
    BY ElementOfSeq DEF Of
  <1>2. s = [i \in 1 .. Len(s) |-> s[i]] /\ Len(s) \in Nat
    BY LenProperties
  <1>3. QED
    BY <1>1, <1>2, IsASeq

\* What is left to register once the first attempt is dealt with.
LEMMA BoundIdsOfTail ==
  ASSUME NEW bind, NEW s \in Seq(Of(bind)), s # <<>>
  PROVE  /\ Tail(s) \in Seq(Of(bind)) /\ Head(s) \in Of(bind)
         /\ BoundIds(s) = BoundIds(Tail(s)) \cup
                          (IF Head(s).key = None THEN {} ELSE {Head(s).id})
  <1>1. /\ Tail(s) \in Seq(Of(bind)) /\ Head(s) = s[1] /\ Head(s) \in Of(bind)
        /\ DOMAIN s = 1 .. Len(s) /\ Len(s) \in Nat /\ Len(s) >= 1
        /\ DOMAIN Tail(s) = 1 .. Len(s) - 1
        /\ \A i \in 1 .. Len(s) - 1 : Tail(s)[i] = s[i + 1]
    BY HeadTailProperties, LenProperties, EmptySeq
  <1> DEFINE t == Tail(s)
             h == Head(s)
  <1> HIDE DEF t, h
  <1>2. ASSUME NEW x \in BoundIds(s)
        PROVE  x \in BoundIds(t) \/ (h.key # None /\ x = h.id)
    <2>1. PICK i \in 1 .. Len(s) : s[i].key # None /\ x = s[i].id
      BY <1>1 DEF BoundIds
    <2>2. CASE i = 1
      BY <1>1, <2>1, <2>2 DEF h
    <2>3. CASE i # 1
      <3>1. i - 1 \in 1 .. Len(s) - 1 /\ s[i] = t[i - 1]
        BY <1>1, <2>3 DEF t
      <3>2. QED
        BY <1>1, <2>1, <3>1 DEF BoundIds, t
    <2>4. QED
      BY <2>2, <2>3
  <1>3. ASSUME NEW x \in BoundIds(t) PROVE x \in BoundIds(s)
    <2>1. PICK i \in 1 .. Len(s) - 1 : t[i].key # None /\ x = t[i].id
      BY <1>1 DEF BoundIds, t
    <2>2. i + 1 \in 1 .. Len(s) /\ s[i + 1] = t[i]
      BY <1>1 DEF t
    <2>3. QED
      BY <1>1, <2>1, <2>2 DEF BoundIds
  <1>4. ASSUME h.key # None PROVE h.id \in BoundIds(s)
    <2>1. 1 \in DOMAIN s /\ s[1] = h
      BY <1>1 DEF h
    <2>2. QED
      BY <1>4, <2>1 DEF BoundIds
  <1>5. BoundIds(s) = BoundIds(t) \cup (IF h.key = None THEN {} ELSE {h.id})
    BY <1>2, <1>3, <1>4
  <1>6. QED
    BY <1>1, <1>5 DEF t, h

-----------------------------------------------------------------------------
(* The invariant *)

\* What the daemon holds h is of its bindings, and with what a registration has
\* yet to attempt the whole of its plan; what a registration that is over left
\* is all of the plan or nothing.
HeldSound(d, h, mv) ==
  /\ DOMAIN h \subseteq Ids /\ h = [id \in DOMAIN h |-> KeyOf(d.cfg.bind, id)]
  /\ d.work # None =>
        /\ d.work.todo \in Seq(Of(d.cfg.bind))
        /\ DOMAIN h \cup BoundIds(d.work.todo) = BoundIds(Plan(d.cfg.bind, d.max))
  /\ d.work = None /\ d.handle /\ ~mv => h \in {NoKeys, Wanted(d.cfg.bind, d.max)}

NoReload(q) == \A i \in DOMAIN q : q[i].kind # "reload"

QueueSound(q) ==
  /\ q \in Seq(Messages) /\ Len(q) <= QueueLimit
  /\ \A i \in DOMAIN q : q[i].kind = "hotkey" => Decode(q[i].id) \in q[i].meant

\* The daemon runs by the file, but for what it has not been told or has yet to read.
FileFollowed == daemon # None /\ ~dark /\ NoReload(queue) => daemon.cfg = file

ControlInvariant ==
  /\ TypeOK
  /\ KeysMeanTheirBinding
  /\ ~Running => held = NoKeys /\ queue = <<>>
  /\ Running => HeldSound(daemon, held, moved)
  /\ FileFollowed

\* The bindings in force and the table, as HotkeyTable sees them.
InForce == IF daemon = None THEN DefaultBind ELSE daemon.cfg.bind
Seen    == IF Idle THEN held ELSE NoKeys

\* What every step keeps but the one that ends a registration.
Kept == /\ ControlInvariant'
        /\ Seen' = NoKeys \/ (Seen' = Seen /\ InForce' = InForce)

LEMMA QueueIsSound ==
  ControlInvariant => QueueSound(queue)
  BY DEF ControlInvariant, TypeOK, KeysMeanTheirBinding, QueueSound

LEMMA AppendSound ==
  ASSUME NEW q, QueueSound(q), Len(q) < QueueLimit, NEW m \in Messages,
         m.kind = "hotkey" => Decode(m.id) \in m.meant
  PROVE  /\ QueueSound(Append(q, m))
         /\ NoReload(Append(q, m)) => NoReload(q) /\ m.kind # "reload"
  <1> DEFINE r == Append(q, m)
  <1>1. /\ r \in Seq(Messages) /\ Len(r) = Len(q) + 1 /\ Len(q) \in Nat
        /\ DOMAIN r = 1 .. Len(q) + 1 /\ DOMAIN q = 1 .. Len(q)
        /\ \A i \in 1 .. Len(q) : r[i] = q[i]
        /\ r[Len(q) + 1] = m
    BY AppendProperties, LenProperties DEF QueueSound
  <1> HIDE DEF r
  <1>2. QueueSound(r)
    BY <1>1, ControlAssumption DEF QueueSound
  <1>3. ASSUME NoReload(r) PROVE NoReload(q) /\ m.kind # "reload"
    <2>1. Len(q) + 1 \in DOMAIN r
      BY <1>1
    <2>2. QED
      BY <1>1, <1>3, <2>1 DEF NoReload
  <1>4. QED
    BY <1>2, <1>3 DEF r

LEMMA TailSound ==
  ASSUME NEW q, QueueSound(q), q # <<>>
  PROVE  /\ QueueSound(Tail(q)) /\ Head(q) \in Messages
         /\ Head(q).kind = "hotkey" => Head(q).id \in Ids
         /\ NoReload(Tail(q)) /\ Head(q).kind # "reload" => NoReload(q)
  <1> DEFINE r == Tail(q)
             h == Head(q)
  <1>1. /\ r \in Seq(Messages) /\ h = q[1] /\ h \in Messages
        /\ DOMAIN q = 1 .. Len(q) /\ Len(q) \in Nat /\ Len(q) >= 1
        /\ Len(r) = Len(q) - 1 /\ DOMAIN r = 1 .. Len(q) - 1
        /\ \A i \in 1 .. Len(q) - 1 : r[i] = q[i + 1]
    BY HeadTailProperties, LenProperties, EmptySeq DEF QueueSound
  <1> HIDE DEF r, h
  <1>2. QueueSound(r)
    BY <1>1, ControlAssumption DEF QueueSound
  <1>3. h.kind = "hotkey" => h.id \in Ids
    BY <1>1 DEF Messages
  <1>4. ASSUME NoReload(r), h.kind # "reload" PROVE NoReload(q)
    <2>1. ASSUME NEW i \in 1 .. Len(q) PROVE q[i].kind # "reload"
      <3>1. CASE i = 1
        BY <1>1, <1>4, <3>1
      <3>2. CASE i # 1
        <4>1. i - 1 \in 1 .. Len(q) - 1 /\ r[i - 1] = q[i]
          BY <1>1, <3>2
        <4>2. QED
          BY <1>1, <1>4, <4>1 DEF NoReload
      <3>3. QED
        BY <3>1, <3>2
    <2>2. QED
      BY <1>1, <2>1 DEF NoReload
  <1>5. QED
    BY <1>1, <1>2, <1>3, <1>4 DEF r, h

LEMMA EmptyQueue == QueueSound(<<>>) /\ NoReload(<<>>)
  BY ControlAssumption DEF QueueSound, NoReload

LEMMA NoKeysHeld ==
  ASSUME NEW bind
  PROVE  /\ DOMAIN NoKeys = {} /\ NoKeys = [id \in DOMAIN NoKeys |-> KeyOf(bind, id)]
         /\ DOMAIN NoKeys \subseteq Ids /\ NoKeys \in [DOMAIN NoKeys -> Keys]
  <1>1. DOMAIN NoKeys = {}
    BY DEF NoKeys
  <1>2. NoKeys = [id \in {} |-> KeyOf(bind, id)]
    BY DEF NoKeys
  <1>3. QED
    BY <1>1, <1>2

LEMMA PlanOfConfig ==
  ASSUME NEW c \in Config, NEW n \in 1 .. MaxSpaces, NEW why \in Whys
  PROVE  /\ c.bind \in Bindings
         /\ Registering(why, c, n) \in Registrations
         /\ Registering(why, c, n).todo = Plan(c.bind, n)
         /\ Registering(why, c, n).todo \in Seq(Of(c.bind))
  <1>1. c.bind \in Bindings
    BY DEF Config
  <1>2. Plan(c.bind, n) \in Seq(Of(c.bind)) /\ Plan(c.bind, n) \in Seq(Attempts)
    BY <1>1, PlanIsOf, OfAreAttempts
  <1>3. QED
    BY <1>1, <1>2 DEF Registering, Registrations, Attempts

\* A registration that starts from an empty table.
LEMMA FreshRegistration ==
  ASSUME NEW d, d.cfg \in Config, d.max \in 1 .. MaxSpaces, NEW why \in Whys,
         d.work = Registering(why, d.cfg, d.max), NEW mv
  PROVE  HeldSound(d, NoKeys, mv)
  <1>1. d.work.todo = Plan(d.cfg.bind, d.max) /\ d.work.todo \in Seq(Of(d.cfg.bind))
    BY PlanOfConfig
  <1>2. QED
    BY <1>1, NoKeysHeld DEF HeldSound

LEMMA NothingHeld ==
  ASSUME NEW d, d.work = None, NEW mv PROVE HeldSound(d, NoKeys, mv)
  BY NoKeysHeld DEF HeldSound

LEMMA SameHeld ==
  ASSUME NEW d, NEW e, NEW h, NEW mv, HeldSound(d, h, mv),
         e.cfg.bind = d.cfg.bind, e.work = d.work, e.max = d.max, e.handle = d.handle
  PROVE  HeldSound(e, h, mv)
  BY DEF HeldSound

LEMMA DaemonParts ==
  ASSUME NEW d \in Daemon
  PROVE  /\ d.cfg \in Config /\ d.max \in 1 .. MaxSpaces /\ d.work \in {None} \cup Registrations
         /\ d.phase \in {"booting", "running"} /\ d.handle \in BOOLEAN
         /\ d.tiling \in BOOLEAN /\ d.taskbar \in BOOLEAN
  BY DEF Daemon

LEMMA ConfigParts ==
  ASSUME NEW c \in Config
  PROVE  /\ c.bind \in Bindings /\ c.tiling \in BOOLEAN /\ c.taskbar \in BOOLEAN
         /\ \A b \in BOOLEAN : /\ [c EXCEPT !.tiling = b] \in Config
                               /\ [c EXCEPT !.taskbar = b] \in Config
                               /\ [c EXCEPT !.rules = b] \in Config
                               /\ [c EXCEPT !.tiling = b].bind = c.bind
                               /\ [c EXCEPT !.taskbar = b].bind = c.bind
                               /\ [c EXCEPT !.rules = b].bind = c.bind
  BY DEF Config

LEMMA LoadedIsAConfig ==
  ASSUME file \in {Missing, Corrupt} \cup Config
  PROVE  Loaded \in Config /\ Default \in Config
  BY ControlAssumption DEF Loaded, Default, Config

-----------------------------------------------------------------------------
(* A registration *)

LEMMA RegistrationFrame ==
  ASSUME ControlInvariant, Running, daemon.work # None
  PROVE  /\ daemon \in Daemon /\ daemon.work \in Registrations /\ daemon.cfg.bind \in Bindings
         /\ daemon.work.todo \in Seq(Of(daemon.cfg.bind)) /\ daemon.work.why \in Whys
  <1>1. daemon \in Daemon
    BY DEF ControlInvariant, TypeOK, Running
  <1>2. daemon.work \in Registrations /\ daemon.cfg \in Config
    BY <1>1, DaemonParts
  <1>3. daemon.work.todo \in Seq(Of(daemon.cfg.bind))
    BY DEF ControlInvariant, HeldSound
  <1>4. QED
    BY <1>1, <1>2, <1>3, ConfigParts DEF Registrations

\* One attempt less to make.
LEMMA OneLess ==
  ASSUME ControlInvariant, Running, daemon.work # None, daemon.work.todo # <<>>,
         daemon' = [daemon EXCEPT !.work.todo = Tail(daemon.work.todo)]
  PROVE  /\ daemon' \in Daemon /\ Running' /\ daemon' # None
         /\ daemon'.cfg = daemon.cfg /\ daemon'.max = daemon.max
         /\ daemon'.handle = daemon.handle
         /\ daemon'.work # None /\ daemon'.work.todo = Tail(daemon.work.todo)
  <1> DEFINE w == [daemon.work EXCEPT !.todo = Tail(daemon.work.todo)]
  <1>1. /\ daemon \in Daemon /\ daemon.work \in Registrations /\ daemon.cfg.bind \in Bindings
        /\ daemon.work.todo \in Seq(Of(daemon.cfg.bind))
    BY RegistrationFrame
  <1>2. Tail(daemon.work.todo) \in Seq(Attempts)
    BY <1>1, BoundIdsOfTail, OfAreAttempts
  <1>3. w \in Registrations /\ w.todo = Tail(daemon.work.todo)
    BY <1>1, <1>2 DEF Registrations, Attempts
  <1>4. w # None
    BY <1>3, NothingAssumption
  <1>5. daemon' = [daemon EXCEPT !.work = w]
    BY <1>1 DEF Daemon
  <1> HIDE DEF w
  <1>6. daemon' \in Daemon
    BY <1>1, <1>3, <1>5 DEF Daemon
  <1>7. /\ daemon'.phase = daemon.phase /\ daemon'.cfg = daemon.cfg
        /\ daemon'.max = daemon.max /\ daemon'.handle = daemon.handle /\ daemon'.work = w
    BY <1>1, <1>5 DEF Daemon
  <1>8. daemon' # None /\ Running'
    BY <1>6, <1>7, NothingAssumption DEF Running
  <1>9. QED
    BY <1>3, <1>4, <1>6, <1>7, <1>8

LEMMA PassOverKeeps ==
  ASSUME ControlInvariant, PassOver PROVE Kept
  <1>1. /\ Running /\ daemon.work # None /\ daemon.work.todo # <<>>
        /\ Head(daemon.work.todo).key = None
        /\ daemon' = [daemon EXCEPT !.work.todo = Tail(daemon.work.todo)]
        /\ UNCHANGED <<file, held, foreign, queue, settings, acts, dark, moved>>
    BY DEF PassOver
  <1>2. /\ daemon' \in Daemon /\ Running' /\ daemon' # None
        /\ daemon'.cfg = daemon.cfg /\ daemon'.max = daemon.max
        /\ daemon'.handle = daemon.handle
        /\ daemon'.work # None /\ daemon'.work.todo = Tail(daemon.work.todo)
    BY <1>1, OneLess
  <1>3. /\ Tail(daemon.work.todo) \in Seq(Of(daemon.cfg.bind))
        /\ BoundIds(daemon.work.todo) = BoundIds(Tail(daemon.work.todo))
    BY <1>1, RegistrationFrame, BoundIdsOfTail
  <1>4. HeldSound(daemon, held, moved)
    BY <1>1 DEF ControlInvariant
  <1>5. HeldSound(daemon', held', moved')
    BY <1>1, <1>2, <1>3, <1>4 DEF HeldSound
  <1>6. TypeOK' /\ KeysMeanTheirBinding' /\ FileFollowed'
    BY <1>1, <1>2 DEF ControlInvariant, TypeOK, KeysMeanTheirBinding, FileFollowed, NoReload,
                      Running
  <1>7. Seen' = NoKeys
    BY <1>2 DEF Seen, Idle
  <1>8. QED
    BY <1>2, <1>5, <1>6, <1>7 DEF ControlInvariant, Kept

LEMMA RegisterOneKeeps ==
  ASSUME ControlInvariant, RegisterOne PROVE Kept
  <1> DEFINE todo == daemon.work.todo
             bind == daemon.cfg.bind
             id   == Head(todo).id
             key  == Head(todo).key
  <1>1. /\ Running /\ daemon.work # None /\ todo # <<>> /\ key # None
        /\ held' = [i \in DOMAIN held \cup {id} |-> IF i = id THEN key ELSE held[i]]
        /\ daemon' = [daemon EXCEPT !.work.todo = Tail(todo)]
        /\ UNCHANGED <<file, foreign, queue, settings, acts, dark, moved>>
    BY DEF RegisterOne
  <1>2. /\ daemon' \in Daemon /\ Running' /\ daemon' # None
        /\ daemon'.cfg = daemon.cfg /\ daemon'.max = daemon.max
        /\ daemon'.handle = daemon.handle
        /\ daemon'.work # None /\ daemon'.work.todo = Tail(todo)
    BY <1>1, OneLess
  <1>3. /\ Tail(todo) \in Seq(Of(bind)) /\ Head(todo) \in Of(bind)
        /\ BoundIds(todo) = BoundIds(Tail(todo)) \cup {id}
    BY <1>1, RegistrationFrame, BoundIdsOfTail
  <1>4. id \in Ids /\ key \in Keys /\ key = KeyOf(bind, id)
    BY <1>1, <1>3 DEF Of, Attempts
  <1>5. /\ HeldSound(daemon, held, moved)
        /\ DOMAIN held \subseteq Ids /\ held \in [DOMAIN held -> Keys]
        /\ held = [i \in DOMAIN held |-> KeyOf(bind, i)]
        /\ DOMAIN held \cup BoundIds(todo) = BoundIds(Plan(bind, daemon.max))
    BY <1>1 DEF ControlInvariant, TypeOK, HeldSound
  <1> HIDE DEF todo, bind, id, key
  <1>6. /\ DOMAIN held' = DOMAIN held \cup {id} /\ DOMAIN held' \subseteq Ids
        /\ held' \in [DOMAIN held' -> Keys]
        /\ held' = [i \in DOMAIN held' |-> KeyOf(bind, i)]
    BY <1>1, <1>4, <1>5
  <1>7. HeldSound(daemon', held', moved')
    BY <1>1, <1>2, <1>3, <1>5, <1>6 DEF HeldSound, bind
  <1>8. TypeOK' /\ KeysMeanTheirBinding' /\ FileFollowed'
    BY <1>1, <1>2, <1>6 DEF ControlInvariant, TypeOK, KeysMeanTheirBinding, FileFollowed,
                            NoReload, Running
  <1>9. Seen' = NoKeys
    BY <1>2 DEF Seen, Idle
  <1>10. QED
    BY <1>2, <1>7, <1>8, <1>9 DEF ControlInvariant, Kept

\* No registration is under way any more.
LEMMA WorkOver ==
  ASSUME ControlInvariant, Running, NEW e,
         e = [daemon EXCEPT !.work = None] \/ e = [daemon EXCEPT !.work = None, !.handle = FALSE]
  PROVE  /\ e \in Daemon /\ e # None /\ e.phase = "running" /\ e.work = None
         /\ e.cfg = daemon.cfg /\ e.max = daemon.max
  <1>1. daemon \in Daemon /\ daemon.phase = "running"
    BY DEF ControlInvariant, TypeOK, Running
  <1>2. e \in Daemon
    BY <1>1 DEF Daemon
  <1>3. /\ e.phase = daemon.phase /\ e.work = None /\ e.cfg = daemon.cfg /\ e.max = daemon.max
    BY <1>1 DEF Daemon
  <1>4. QED
    BY <1>1, <1>2, <1>3, NothingAssumption

\* The file is left in order where it is read.
LEMMA FileRead ==
  ASSUME ControlInvariant
  PROVE  /\ Loaded \in Config /\ Opened \in Settings
         /\ daemon # None /\ ~dark /\ NoReload(queue) => file = Loaded /\ daemon.cfg = file
         /\ settings \in {None} \cup Settings
  <1>1. Loaded \in Config
    BY LoadedIsAConfig DEF ControlInvariant, TypeOK
  <1>2. Opened \in Settings
    BY <1>1 DEF Opened, Settings
  <1>3. ASSUME daemon # None, ~dark, NoReload(queue) PROVE file = Loaded /\ daemon.cfg = file
    <2>1. daemon.cfg = file /\ daemon \in Daemon
      BY <1>3 DEF ControlInvariant, FileFollowed, TypeOK
    <2>2. file \in Config
      BY <2>1, DaemonParts
    <2>3. QED
      BY <2>1, <2>2, NothingAssumption DEF Loaded
  <1>4. QED
    BY <1>1, <1>2, <1>3 DEF ControlInvariant, TypeOK

LEMMA RegistrationFailsKeeps ==
  ASSUME ControlInvariant, RegistrationFails PROVE Kept
  <1>1. /\ Running /\ held' = NoKeys
        /\ \/ daemon' = [daemon EXCEPT !.work = None]
           \/ daemon' = [daemon EXCEPT !.work = None, !.handle = FALSE]
        /\ settings' = Launched \/ settings' = settings
        /\ file' = Loaded \/ file' = file
        /\ UNCHANGED <<foreign, queue, acts, dark, moved>>
    BY DEF RegistrationFails, GivenUp
  <1>2. /\ daemon' \in Daemon /\ daemon' # None /\ daemon'.phase = "running"
        /\ daemon'.work = None
        /\ daemon'.cfg = daemon.cfg /\ daemon'.max = daemon.max
    BY <1>1, WorkOver
  <1>3. Running'
    BY <1>2 DEF Running
  <1>4. HeldSound(daemon', held', moved')
    BY <1>1, <1>2, NothingHeld
  <1>5. settings' \in {None} \cup Settings /\ Loaded \in Config
    BY <1>1, FileRead DEF Launched
  <1>6. TypeOK'
    BY <1>1, <1>2, <1>5, NoKeysHeld DEF ControlInvariant, TypeOK
  <1>7. KeysMeanTheirBinding' /\ FileFollowed'
    BY <1>1, <1>2, FileRead DEF ControlInvariant, KeysMeanTheirBinding, FileFollowed, NoReload,
                                Running
  <1>8. Seen' = NoKeys
    BY <1>1 DEF Seen
  <1>9. QED
    BY <1>3, <1>4, <1>6, <1>7, <1>8 DEF ControlInvariant, Kept

LEMMA RegistrationEndsKeeps ==
  ASSUME ControlInvariant, RegistrationEnds PROVE ControlInvariant'
  <1>1. /\ Running /\ daemon.work # None /\ daemon.work.todo = <<>>
        /\ daemon' = [daemon EXCEPT !.work = None]
        /\ UNCHANGED <<file, held, foreign, queue, settings, acts, dark, moved>>
    BY DEF RegistrationEnds
  <1>2. /\ daemon' \in Daemon /\ daemon' # None /\ daemon'.phase = "running"
        /\ daemon'.work = None
        /\ daemon'.cfg = daemon.cfg /\ daemon'.max = daemon.max
    BY <1>1, WorkOver
  <1>3. Running'
    BY <1>2 DEF Running
  <1>4. BoundIds(daemon.work.todo) = {}
    BY <1>1 DEF BoundIds
  <1>5. HeldSound(daemon, held, moved)
    BY <1>1 DEF ControlInvariant
  <1>6. held = Wanted(daemon.cfg.bind, daemon.max)
    <2>1. DOMAIN held = BoundIds(Plan(daemon.cfg.bind, daemon.max))
      BY <1>1, <1>4, <1>5 DEF HeldSound
    <2>2. held = [id \in DOMAIN held |-> KeyOf(daemon.cfg.bind, id)]
      BY <1>5 DEF HeldSound
    <2>3. QED
      BY <2>1, <2>2 DEF Wanted
  <1>7. HeldSound(daemon', held', moved')
    BY <1>1, <1>2, <1>5, <1>6 DEF HeldSound
  <1>8. TypeOK' /\ KeysMeanTheirBinding' /\ FileFollowed'
    BY <1>1, <1>2 DEF ControlInvariant, TypeOK, KeysMeanTheirBinding, FileFollowed, NoReload,
                      Running
  <1>9. QED
    BY <1>3, <1>7, <1>8 DEF ControlInvariant

-----------------------------------------------------------------------------
(* Other applications, and what is posted *)

LEMMA SpendKeeps ==
  ASSUME acts \in Nat, Spend PROVE acts' \in Nat
  BY DEF Spend

LEMMA ForeignKeeps ==
  ASSUME ControlInvariant, NEW key \in Keys, Grab(key) \/ Release(key) PROVE Kept
  <1>1. /\ UNCHANGED <<file, daemon, held, queue, settings, dark, moved>>
        /\ foreign' \subseteq Keys /\ acts' \in Nat
    BY SpendKeeps DEF Grab, Release, ControlInvariant, TypeOK
  <1>2. ControlInvariant'
    BY <1>1 DEF ControlInvariant, TypeOK, KeysMeanTheirBinding, FileFollowed, NoReload, Running
  <1>3. QED
    BY <1>1, <1>2 DEF Kept, Seen, InForce, Idle, Running

\* A message more in the queue of a daemon that runs.
LEMMA PostedKeeps ==
  ASSUME ControlInvariant, Running, Len(queue) < QueueLimit, NEW m \in Messages,
         m.kind = "hotkey" => Decode(m.id) \in m.meant, queue' = Append(queue, m),
         UNCHANGED <<file, daemon, held, foreign, dark, moved>>,
         acts' \in Nat, settings' \in {None} \cup Settings
  PROVE  Kept
  <1>1. QueueSound(queue') /\ (NoReload(queue') => NoReload(queue))
    BY QueueIsSound, AppendSound
  <1>2. TypeOK' /\ KeysMeanTheirBinding'
    BY <1>1 DEF ControlInvariant, TypeOK, KeysMeanTheirBinding, QueueSound
  <1>3. FileFollowed'
    BY <1>1 DEF ControlInvariant, FileFollowed
  <1>4. Seen' = Seen /\ InForce' = InForce
    BY DEF Seen, InForce, Idle, Running
  <1>5. QED
    BY <1>2, <1>3, <1>4 DEF ControlInvariant, Running, Kept

LEMMA PressKeeps ==
  ASSUME ControlInvariant, NEW id \in Ids, Press(id) PROVE Kept
  <1> DEFINE meant == MeantBy(daemon.cfg.bind, held[id])
             m == [kind |-> "hotkey", id |-> id, meant |-> meant]
  <1>1. /\ id \in DOMAIN held /\ Len(queue) < QueueLimit /\ queue' = Append(queue, m)
        /\ UNCHANGED <<file, daemon, held, foreign, settings, dark, moved>>
        /\ acts' \in Nat /\ settings \in {None} \cup Settings
    BY SpendKeeps DEF Press, ControlInvariant, TypeOK
  <1>2. Running
    BY <1>1, NoKeysHeld DEF ControlInvariant
  <1>3. held[id] = KeyOf(daemon.cfg.bind, id)
    BY <1>1, <1>2 DEF ControlInvariant, HeldSound
  <1>4. Decode(id) \in meant /\ meant \subseteq {Decode(i) : i \in Ids}
    BY <1>3 DEF MeantBy
  <1> HIDE DEF meant
  <1>5. m \in Messages /\ (m.kind = "hotkey" => Decode(m.id) \in m.meant)
    BY <1>4 DEF Messages
  <1> HIDE DEF m
  <1>6. QED
    BY <1>1, <1>2, <1>5, PostedKeeps

LEMMA CommandKeeps ==
  ASSUME ControlInvariant, NEW kind \in {"reload", "capture", "taskbar", "exit"}, Command(kind)
  PROVE  Kept
  <1> DEFINE m == [kind |-> kind]
  <1>1. /\ Running /\ Len(queue) < QueueLimit /\ queue' = Append(queue, m)
        /\ UNCHANGED <<file, daemon, held, foreign, settings, dark, moved>>
        /\ acts' \in Nat /\ settings \in {None} \cup Settings
    BY SpendKeeps DEF Command, ControlInvariant, TypeOK
  <1>2. m \in Messages /\ (m.kind = "hotkey" => Decode(m.id) \in m.meant)
    BY DEF Messages
  <1> HIDE DEF m
  <1>3. QED
    BY <1>1, <1>2, PostedKeeps

-----------------------------------------------------------------------------
(* What the daemon does with a message *)

LEMMA IdleDaemon ==
  ASSUME ControlInvariant, Idle
  PROVE  /\ daemon \in Daemon /\ daemon # None /\ daemon.phase = "running"
         /\ daemon.work = None /\ HeldSound(daemon, held, moved)
         /\ daemon.cfg \in Config /\ daemon.max \in 1 .. MaxSpaces
         /\ DOMAIN held \subseteq Ids /\ held \in [DOMAIN held -> Keys]
  <1>1. daemon \in Daemon /\ HeldSound(daemon, held, moved)
    BY DEF ControlInvariant, TypeOK, Idle, Running
  <1>2. QED
    BY <1>1, DaemonParts DEF ControlInvariant, TypeOK, Idle, Running

\* A message less, and what it did to the daemon, the table and the file.
LEMMA HandledKeeps ==
  ASSUME ControlInvariant, Idle, queue # <<>>, queue' = Tail(queue),
         UNCHANGED <<foreign, settings, acts>>,
         daemon' \in Daemon, daemon'.phase = "running",
         file' \in {Missing, Corrupt} \cup Config, dark' \in BOOLEAN, moved' \in BOOLEAN,
         DOMAIN held' \subseteq Ids, held' \in [DOMAIN held' -> Keys],
         HeldSound(daemon', held', moved'),
         \/ daemon'.cfg = file'
         \/ /\ daemon'.cfg = daemon.cfg /\ file' = file /\ dark' = dark
            /\ Head(queue).kind # "reload",
         \/ held' = NoKeys
         \/ /\ held' = held /\ daemon'.work = daemon.work
            /\ daemon'.cfg.bind = daemon.cfg.bind
  PROVE  Kept
  <1>1. QueueSound(queue') /\ (NoReload(queue') /\ Head(queue).kind # "reload" => NoReload(queue))
    BY QueueIsSound, TailSound
  <1>2. Running' /\ daemon # None
    BY NothingAssumption DEF Running, Idle
  <1>3. TypeOK' /\ KeysMeanTheirBinding'
    BY <1>1 DEF ControlInvariant, TypeOK, KeysMeanTheirBinding, QueueSound
  <1>4. FileFollowed'
    BY <1>1, <1>2 DEF ControlInvariant, FileFollowed
  <1>5. Seen' = NoKeys \/ (Seen' = Seen /\ InForce' = InForce)
    BY <1>2, NothingAssumption DEF Seen, InForce, Idle
  <1>6. QED
    BY <1>2, <1>3, <1>4, <1>5 DEF ControlInvariant, Kept

LEMMA ReloadKeeps ==
  ASSUME ControlInvariant, Idle, queue # <<>>, queue' = Tail(queue),
         UNCHANGED <<foreign, settings, acts>>, OnReload
  PROVE  Kept
  <1> DEFINE work == Registering("reload", Loaded, daemon.max)
  <1>1. /\ daemon' = [daemon EXCEPT !.cfg = Loaded, !.taskbar = Loaded.taskbar,
                                    !.tiling = Loaded.tiling, !.work = work]
        /\ file' = Loaded /\ held' = NoKeys /\ dark' = FALSE /\ moved' = FALSE
    BY DEF OnReload, Apply
  <1>2. Loaded \in Config /\ Loaded.taskbar \in BOOLEAN /\ Loaded.tiling \in BOOLEAN
    BY FileRead, ConfigParts
  <1>3. work \in Registrations
    BY <1>2, IdleDaemon, PlanOfConfig DEF Whys
  <1> HIDE DEF work
  <1>4. daemon' \in Daemon
    BY <1>1, <1>2, <1>3, IdleDaemon DEF Daemon
  <1>5. /\ daemon'.cfg = Loaded /\ daemon'.max = daemon.max /\ daemon'.phase = daemon.phase
        /\ daemon'.work = work
    BY <1>1, IdleDaemon DEF Daemon
  <1>6. HeldSound(daemon', NoKeys, FALSE)
    BY <1>2, <1>5, IdleDaemon, FreshRegistration DEF work, Whys
  <1>7. QED
    BY <1>1, <1>2, <1>4, <1>5, <1>6, IdleDaemon, NoKeysHeld, HandledKeeps

\* A change of the daemon's own: the bindings stay, the file is its memory.
LEMMA PersistKeeps ==
  ASSUME ControlInvariant, Idle, queue # <<>>, queue' = Tail(queue),
         UNCHANGED <<foreign, settings, acts>>,
         NEW changed \in Daemon, Persist(changed), changed.phase = "running",
         changed.cfg.bind = daemon.cfg.bind, changed.work = daemon.work,
         changed.max = daemon.max, changed.handle = daemon.handle
  PROVE  Kept
  <1>1. /\ daemon' = changed /\ file' = changed.cfg /\ dark' = FALSE
        /\ held' = held /\ moved' = moved
    BY DEF Persist
  <1>2. HeldSound(changed, held, moved)
    BY IdleDaemon, SameHeld
  <1>3. changed.cfg \in Config /\ moved \in BOOLEAN
    BY DaemonParts DEF ControlInvariant, TypeOK
  <1>4. QED
    BY <1>1, <1>2, <1>3, IdleDaemon, HandledKeeps

LEMMA OwnChanges ==
  ASSUME ControlInvariant, Idle, queue # <<>>, queue' = Tail(queue),
         UNCHANGED <<foreign, settings, acts>>,
         OnCapture \/ ToggleTaskbar \/ ToggleTiling
  PROVE  Kept
  <1>1. /\ daemon \in Daemon /\ daemon.phase = "running" /\ daemon.cfg \in Config
        /\ daemon.tiling \in BOOLEAN /\ daemon.cfg.taskbar \in BOOLEAN
    BY IdleDaemon, DaemonParts, ConfigParts
  <1>2. CASE OnCapture
    <2> DEFINE c == [daemon.cfg EXCEPT !.rules = TRUE]
               e == [daemon EXCEPT !.cfg = c]
    <2>1. c \in Config /\ c.bind = daemon.cfg.bind
      BY <1>1 DEF Config
    <2> HIDE DEF c
    <2>2. /\ e \in Daemon /\ e.phase = "running" /\ e.cfg = c /\ e.work = daemon.work
          /\ e.max = daemon.max /\ e.handle = daemon.handle
      BY <1>1, <2>1 DEF Daemon
    <2>3. [daemon EXCEPT !.cfg.rules = TRUE] = e
      BY <1>1 DEF Daemon, c
    <2> HIDE DEF e
    <2>4. Persist(e)
      BY <1>2, <2>3 DEF OnCapture
    <2>5. QED
      BY <2>1, <2>2, <2>4, PersistKeeps
  <1>3. CASE ToggleTaskbar
    <2> DEFINE b == ~daemon.cfg.taskbar
               c == [daemon.cfg EXCEPT !.taskbar = b]
               e == [daemon EXCEPT !.taskbar = b, !.cfg = c]
    <2>1. b \in BOOLEAN
      OBVIOUS
    <2>2. [daemon EXCEPT !.taskbar = b, !.cfg.taskbar = b] = e
      BY <1>1 DEF Daemon
    <2> HIDE DEF b
    <2>3. c \in Config /\ c.bind = daemon.cfg.bind
      BY <1>1, <2>1 DEF Config
    <2> HIDE DEF c
    <2>4. /\ e \in Daemon /\ e.phase = "running" /\ e.cfg = c /\ e.work = daemon.work
          /\ e.max = daemon.max /\ e.handle = daemon.handle
      BY <1>1, <2>1, <2>3 DEF Daemon
    <2> HIDE DEF e
    <2>5. Persist(e)
      BY <1>3, <2>2 DEF ToggleTaskbar, b
    <2>6. QED
      BY <2>3, <2>4, <2>5, PersistKeeps
  <1>4. CASE ToggleTiling
    <2> DEFINE b == ~daemon.tiling
               c == [daemon.cfg EXCEPT !.tiling = b]
               e == [daemon EXCEPT !.tiling = b, !.cfg = c]
    <2>1. b \in BOOLEAN
      OBVIOUS
    <2>2. [daemon EXCEPT !.tiling = b, !.cfg.tiling = b] = e
      BY <1>1 DEF Daemon
    <2> HIDE DEF b
    <2>3. c \in Config /\ c.bind = daemon.cfg.bind
      BY <1>1, <2>1 DEF Config
    <2> HIDE DEF c
    <2>4. /\ e \in Daemon /\ e.phase = "running" /\ e.cfg = c /\ e.work = daemon.work
          /\ e.max = daemon.max /\ e.handle = daemon.handle
      BY <1>1, <2>1, <2>3 DEF Daemon
    <2> HIDE DEF e
    <2>5. Persist(e)
      BY <1>4, <2>2 DEF ToggleTiling, b
    <2>6. QED
      BY <2>3, <2>4, <2>5, PersistKeeps
  <1>5. QED
    BY <1>2, <1>3, <1>4

LEMMA ToggleKeeps ==
  ASSUME ControlInvariant, Idle, queue # <<>>, queue' = Tail(queue),
         UNCHANGED <<foreign, settings, acts>>, ToggleHotkeys, Head(queue).kind # "reload"
  PROVE  Kept
  <1> DEFINE work == Registering("toggle", daemon.cfg, daemon.max)
  <1>1. /\ held' = NoKeys /\ moved' = FALSE /\ file' = file /\ dark' = dark
        /\ \/ daemon' = [daemon EXCEPT !.handle = FALSE]
           \/ daemon' = [daemon EXCEPT !.handle = TRUE, !.work = work]
    BY DEF ToggleHotkeys
  <1>2. daemon \in Daemon /\ daemon.phase = "running" /\ daemon.work = None
    BY IdleDaemon
  <1>3. work \in Registrations
    BY IdleDaemon, PlanOfConfig DEF Whys
  <1>4. /\ daemon' \in Daemon /\ daemon'.phase = "running" /\ daemon'.cfg = daemon.cfg
        /\ HeldSound(daemon', NoKeys, FALSE)
    <2>1. CASE daemon' = [daemon EXCEPT !.handle = FALSE]
      <3>1. daemon' \in Daemon /\ daemon'.work = None
        BY <1>2, <2>1 DEF Daemon
      <3>2. daemon'.phase = "running" /\ daemon'.cfg = daemon.cfg
        BY <1>2, <2>1 DEF Daemon
      <3>3. QED
        BY <3>1, <3>2, NothingHeld
    <2>2. CASE daemon' = [daemon EXCEPT !.handle = TRUE, !.work = work]
      <3> HIDE DEF work
      <3>1. daemon' \in Daemon
        BY <1>2, <1>3, <2>2 DEF Daemon
      <3>2. /\ daemon'.phase = "running" /\ daemon'.cfg = daemon.cfg
            /\ daemon'.max = daemon.max /\ daemon'.work = work
        BY <1>2, <2>2 DEF Daemon
      <3>3. HeldSound(daemon', NoKeys, FALSE)
        BY <3>2, IdleDaemon, FreshRegistration DEF work, Whys
      <3>4. QED
        BY <3>1, <3>2, <3>3
    <2>3. QED
      BY <1>1, <2>1, <2>2
  <1>5. file \in {Missing, Corrupt} \cup Config /\ dark \in BOOLEAN
    BY DEF ControlInvariant, TypeOK
  <1>6. QED
    BY <1>1, <1>4, <1>5, NoKeysHeld, HandledKeeps

LEMMA QuitKeeps ==
  ASSUME ControlInvariant, Idle, queue # <<>>, queue' = Tail(queue),
         UNCHANGED <<foreign, settings, acts>>, Quit \/ NothingHere, Head(queue).kind # "reload"
  PROVE  Kept
  <1>1. /\ UNCHANGED <<file, held, dark, moved>>
        /\ daemon' = daemon \/ daemon' = [daemon EXCEPT !.quit = TRUE]
    BY DEF Quit, NothingHere
  <1>2. daemon \in Daemon /\ daemon.phase = "running" /\ HeldSound(daemon, held, moved)
    BY IdleDaemon
  <1>3. daemon' \in Daemon
    BY <1>1, <1>2 DEF Daemon
  <1>4. /\ daemon'.phase = "running" /\ daemon'.cfg = daemon.cfg /\ daemon'.work = daemon.work
        /\ daemon'.max = daemon.max /\ daemon'.handle = daemon.handle
    BY <1>1, <1>2 DEF Daemon
  <1>5. HeldSound(daemon', held', moved')
    BY <1>1, <1>2, <1>4, SameHeld
  <1>6. file \in {Missing, Corrupt} \cup Config /\ dark \in BOOLEAN /\ moved \in BOOLEAN
    BY DEF ControlInvariant, TypeOK
  <1>7. QED
    BY <1>1, <1>3, <1>4, <1>5, <1>6, IdleDaemon, HandledKeeps

LEMMA HandleKeeps ==
  ASSUME ControlInvariant, Handle PROVE Kept
  <1> DEFINE kind == Head(queue).kind
  <1>1. /\ Idle /\ queue # <<>> /\ queue' = Tail(queue) /\ UNCHANGED <<foreign, settings, acts>>
    BY DEF Handle
  <1>2. kind \in {"hotkey", "reload", "capture", "taskbar", "exit"}
    BY <1>1, QueueIsSound, TailSound DEF Messages
  <1>3. /\ "hotkey" # "reload" /\ "hotkey" # "capture" /\ "hotkey" # "taskbar"
        /\ "hotkey" # "exit" /\ "reload" # "capture" /\ "reload" # "taskbar"
        /\ "reload" # "exit" /\ "capture" # "taskbar" /\ "capture" # "exit"
        /\ "taskbar" # "exit"
    OBVIOUS
  <1>4. \/ kind = "hotkey" /\ OnHotkey(Decode(Head(queue).id))
        \/ kind = "reload" /\ OnReload
        \/ kind = "capture" /\ OnCapture
        \/ kind = "taskbar" /\ ToggleTaskbar
        \/ kind = "exit" /\ Quit
    BY Zenon, <1>2, <1>3 DEF Handle
  <1>5. ASSUME NEW command, OnHotkey(command)
        PROVE  Quit \/ ToggleHotkeys \/ ToggleTiling \/ NothingHere
    <2>1. "exit" # "toggle" /\ "exit" # "tiling" /\ "toggle" # "tiling"
      OBVIOUS
    <2>2. QED
      BY Zenon, <1>5, <2>1 DEF OnHotkey
  <1>6. \/ kind # "reload" /\ (Quit \/ ToggleHotkeys \/ ToggleTiling \/ NothingHere)
        \/ OnReload \/ OnCapture \/ ToggleTaskbar
    BY Zenon, <1>3, <1>4, <1>5
  <1>7. QED
    BY <1>1, <1>6, ReloadKeeps, OwnChanges, ToggleKeeps, QuitKeeps

-----------------------------------------------------------------------------
(* Spaces and displays *)

LEMMA CountKeeps ==
  ASSUME ControlInvariant, AddOrRemoveSpace PROVE Kept
  <1>1. PICK n \in {daemon.max - 1, daemon.max + 1} \cap (1 .. MaxSpaces) : CountChanged(n)
    BY DEF AddOrRemoveSpace
  <1>2. /\ Idle /\ acts' \in Nat /\ UNCHANGED <<file, foreign, queue, settings, dark>>
    BY SpendKeeps DEF AddOrRemoveSpace, ControlInvariant, TypeOK
  <1> DEFINE work == Registering("count", daemon.cfg, n)
  <1>3. /\ daemon \in Daemon /\ daemon # None /\ daemon.phase = "running" /\ daemon.work = None
        /\ daemon.cfg \in Config /\ daemon.max \in 1 .. MaxSpaces
        /\ HeldSound(daemon, held, moved)
        /\ DOMAIN held \subseteq Ids /\ held \in [DOMAIN held -> Keys]
    BY <1>2, IdleDaemon
  <1>4. n \in 1 .. MaxSpaces /\ n # daemon.max /\ daemon.handle \in BOOLEAN
    BY <1>3, DaemonParts
  <1>5. \/ /\ daemon' = [daemon EXCEPT !.max = n, !.work = work]
           /\ held' = NoKeys /\ moved' = FALSE
        \/ /\ ~daemon.handle /\ daemon' = [daemon EXCEPT !.max = n]
           /\ held' = held /\ moved' = moved
    BY <1>1, <1>4 DEF CountChanged
  <1>6. work \in Registrations
    BY <1>3, <1>4, PlanOfConfig DEF Whys
  <1> HIDE DEF work
  <1>7. daemon' \in Daemon
    BY <1>3, <1>4, <1>5, <1>6 DEF Daemon
  <1>8. daemon'.cfg = daemon.cfg /\ daemon'.phase = "running" /\ daemon'.max = n
    BY <1>3, <1>5 DEF Daemon
  <1>9. HeldSound(daemon', held', moved')
    <2>1. CASE daemon' = [daemon EXCEPT !.max = n, !.work = work] /\ held' = NoKeys
      <3>1. daemon'.work = work
        BY <1>3, <2>1 DEF Daemon
      <3>2. QED
        BY <1>3, <1>4, <1>8, <2>1, <3>1, FreshRegistration DEF work, Whys
    <2>2. CASE ~daemon.handle /\ daemon' = [daemon EXCEPT !.max = n] /\ held' = held
      <3>1. daemon'.work = None /\ daemon'.handle = daemon.handle
        BY <1>3, <2>2 DEF Daemon
      <3>2. QED
        BY <1>3, <1>8, <2>2, <3>1 DEF HeldSound
    <2>3. QED
      BY <1>5, <2>1, <2>2
  <1>10. Running' /\ daemon' # None
    BY <1>7, <1>8, NothingAssumption DEF Running
  <1>11. TypeOK' /\ KeysMeanTheirBinding'
    BY <1>2, <1>3, <1>5, <1>7, NoKeysHeld DEF ControlInvariant, TypeOK, KeysMeanTheirBinding
  <1>12. FileFollowed'
    BY <1>2, <1>3, <1>8 DEF ControlInvariant, FileFollowed, NoReload
  <1>13. Seen' = NoKeys \/ (Seen' = Seen /\ InForce' = InForce)
    <2>1. CASE held' = NoKeys
      BY <2>1 DEF Seen
    <2>2. CASE held' = held /\ daemon' = [daemon EXCEPT !.max = n]
      <3>1. daemon'.work = None
        BY <1>3, <2>2 DEF Daemon
      <3>2. QED
        BY <1>2, <1>3, <1>8, <1>10, <2>2, <3>1 DEF Seen, InForce, Idle
    <2>3. QED
      BY <1>5, <2>1, <2>2
  <1>14. QED
    BY <1>9, <1>10, <1>11, <1>12, <1>13 DEF ControlInvariant, Kept

LEMMA ReconcileKeeps ==
  ASSUME ControlInvariant, Reconcile PROVE Kept
  <1>1. PICK n \in 1 .. MaxSpaces : daemon' = [daemon EXCEPT !.max = n]
    BY DEF Reconcile
  <1>2. /\ Idle /\ acts' \in Nat /\ moved' = TRUE
        /\ UNCHANGED <<file, held, foreign, queue, settings, dark>>
    BY SpendKeeps DEF Reconcile, ControlInvariant, TypeOK
  <1>3. /\ daemon \in Daemon /\ daemon # None /\ daemon.phase = "running" /\ daemon.work = None
        /\ HeldSound(daemon, held, moved)
    BY <1>2, IdleDaemon
  <1>4. daemon' \in Daemon
    BY <1>1, <1>3 DEF Daemon
  <1>5. daemon'.cfg = daemon.cfg /\ daemon'.phase = "running" /\ daemon'.work = None
    BY <1>1, <1>3 DEF Daemon
  <1>6. Running' /\ daemon' # None
    BY <1>4, <1>5, NothingAssumption DEF Running
  <1>7. HeldSound(daemon', held', moved')
    BY <1>2, <1>3, <1>5 DEF HeldSound
  <1>8. TypeOK' /\ KeysMeanTheirBinding' /\ FileFollowed'
    BY <1>2, <1>3, <1>4, <1>5 DEF ControlInvariant, TypeOK, KeysMeanTheirBinding, FileFollowed,
                                  NoReload
  <1>9. Seen' = Seen /\ InForce' = InForce
    BY <1>2, <1>3, <1>5, <1>6 DEF Seen, InForce, Idle
  <1>10. QED
    BY <1>6, <1>7, <1>8, <1>9 DEF ControlInvariant, Kept

-----------------------------------------------------------------------------
(* The daemon's life *)

LEMMA StartKeeps ==
  ASSUME ControlInvariant, StartDaemon PROVE Kept
  <1>1. /\ file' = Loaded /\ acts' \in Nat /\ UNCHANGED <<held, foreign, queue, settings, moved>>
    BY SpendKeeps DEF StartDaemon, ControlInvariant, TypeOK
  <1>2. Loaded \in Config
    BY FileRead
  <1>3. CASE Running /\ UNCHANGED <<daemon, dark>>
    <2>1. TypeOK' /\ KeysMeanTheirBinding'
      BY <1>1, <1>2, <1>3 DEF ControlInvariant, TypeOK, KeysMeanTheirBinding
    <2>2. FileFollowed'
      BY <1>1, <1>3, FileRead DEF FileFollowed, NoReload
    <2>3. Seen' = Seen /\ InForce' = InForce
      BY <1>1, <1>3 DEF Seen, InForce, Idle, Running
    <2>4. QED
      BY <1>1, <1>3, <2>1, <2>2, <2>3 DEF ControlInvariant, Running, Kept
  <1>4. CASE ~Running /\ dark' = FALSE /\ \E n \in 1 .. MaxSpaces :
                  daemon' = [phase |-> "booting", cfg |-> Loaded, handle |-> TRUE,
                             max |-> n, tiling |-> Loaded.tiling,
                             taskbar |-> Loaded.taskbar, work |-> None, quit |-> FALSE]
    <2>1. Loaded.tiling \in BOOLEAN /\ Loaded.taskbar \in BOOLEAN
      BY <1>2, ConfigParts
    <2>2. daemon' \in Daemon
      BY <1>2, <1>4, <2>1 DEF Daemon
    <2>3. daemon'.phase = "booting" /\ daemon'.cfg = Loaded
      BY <1>4
    <2>4. held = NoKeys /\ queue = <<>>
      BY <1>4 DEF ControlInvariant
    <2>5. ~Running'
      BY <2>3 DEF Running
    <2>6. TypeOK' /\ KeysMeanTheirBinding' /\ FileFollowed'
      BY <1>1, <1>2, <1>4, <2>2, <2>3 DEF ControlInvariant, TypeOK, KeysMeanTheirBinding,
                                          FileFollowed
    <2>7. QED
      BY <1>1, <2>4, <2>5, <2>6 DEF ControlInvariant, Kept, Seen, Idle
  <1>5. QED
    BY <1>3, <1>4 DEF StartDaemon

LEMMA OpenWindowKeeps ==
  ASSUME ControlInvariant, OpenWindow PROVE Kept
  <1> DEFINE work == Registering("startup", daemon.cfg, daemon.max)
  <1>1. /\ daemon # None /\ daemon.phase = "booting" /\ moved' = FALSE
        /\ daemon' = [daemon EXCEPT !.phase = "running", !.work = work]
        /\ UNCHANGED <<file, held, foreign, queue, settings, acts, dark>>
    BY DEF OpenWindow
  <1>2. /\ daemon \in Daemon /\ daemon.cfg \in Config /\ daemon.max \in 1 .. MaxSpaces
        /\ held = NoKeys
    BY <1>1, DaemonParts DEF ControlInvariant, TypeOK, Running
  <1>3. work \in Registrations
    BY <1>2, PlanOfConfig DEF Whys
  <1> HIDE DEF work
  <1>4. daemon' \in Daemon
    BY <1>1, <1>2, <1>3 DEF Daemon
  <1>5. /\ daemon'.cfg = daemon.cfg /\ daemon'.max = daemon.max /\ daemon'.work = work
        /\ daemon'.phase = "running"
    BY <1>1, <1>2 DEF Daemon
  <1>6. Running'
    BY <1>4, <1>5, NothingAssumption DEF Running
  <1>7. HeldSound(daemon', held', moved')
    BY <1>1, <1>2, <1>5, FreshRegistration DEF work, Whys
  <1>8. TypeOK' /\ KeysMeanTheirBinding' /\ FileFollowed'
    BY <1>1, <1>4, <1>5 DEF ControlInvariant, TypeOK, KeysMeanTheirBinding, FileFollowed,
                            NoReload
  <1>9. Seen' = NoKeys
    BY <1>1, <1>2 DEF Seen
  <1>10. QED
    BY <1>6, <1>7, <1>8, <1>9 DEF ControlInvariant, Kept

LEMMA GoneKeeps ==
  ASSUME ControlInvariant, Leave \/ Crash PROVE Kept
  <1>1. /\ daemon' = None /\ held' = NoKeys /\ queue' = <<>> /\ dark' = FALSE
        /\ UNCHANGED <<file, foreign, settings, moved>> /\ acts' \in Nat
    BY SpendKeeps DEF Leave, Crash, Gone, ControlInvariant, TypeOK
  <1>2. TypeOK' /\ KeysMeanTheirBinding' /\ FileFollowed'
    BY <1>1, NoKeysHeld, EmptyQueue DEF ControlInvariant, TypeOK, KeysMeanTheirBinding,
                                        FileFollowed, QueueSound
  <1>3. QED
    BY <1>1, <1>2 DEF ControlInvariant, Running, Kept, Seen

-----------------------------------------------------------------------------
(* The settings window, and the user with an editor *)

\* The file is left as it is, read, or changed where the daemon is not told.
LEMMA FileKeeps ==
  ASSUME ControlInvariant, UNCHANGED <<daemon, held, foreign, queue, moved>>,
         acts' \in Nat, settings' \in {None} \cup Settings,
         file' \in {Missing, Corrupt} \cup Config, dark' \in BOOLEAN,
         daemon # None /\ ~dark' => ~dark /\ file' = file
  PROVE  Kept
  <1>1. TypeOK' /\ KeysMeanTheirBinding' /\ FileFollowed'
    BY DEF ControlInvariant, TypeOK, KeysMeanTheirBinding, FileFollowed, NoReload
  <1>2. Seen' = Seen /\ InForce' = InForce
    BY DEF Seen, InForce, Idle, Running
  <1>3. HeldSound(daemon, held, moved) = HeldSound(daemon', held', moved')
    OBVIOUS
  <1>4. QED
    BY <1>1, <1>2 DEF ControlInvariant, Running, Kept

LEMMA SettingsFrame ==
  ASSUME ControlInvariant
  PROVE  /\ settings \in {None} \cup Settings /\ acts \in Nat /\ dark \in BOOLEAN
         /\ file \in {Missing, Corrupt} \cup Config
  BY DEF ControlInvariant, TypeOK

LEMMA OpenSettingsKeeps ==
  ASSUME ControlInvariant, OpenSettings PROVE Kept
  <1>1. /\ acts' \in Nat /\ settings' \in Settings /\ file' \in Config /\ dark' \in BOOLEAN
        /\ UNCHANGED <<daemon, held, foreign, queue, moved>>
    BY SettingsFrame, SpendKeeps, FileRead DEF OpenSettings
  <1>2. daemon # None /\ ~dark' => ~dark /\ file' = file
    BY DEF OpenSettings
  <1>3. QED
    BY <1>1, <1>2, FileKeeps

LEMMA CloseKeeps ==
  ASSUME ControlInvariant, CloseSettings \/ StopRecording \/ \E id \in Configurable : StartRecording(id)
  PROVE  Kept
  <1>1. settings # None /\ settings \in Settings
    BY SettingsFrame DEF CloseSettings, StopRecording, StartRecording
  <1>2. settings' \in {None} \cup Settings
    BY <1>1 DEF CloseSettings, StopRecording, StartRecording, Settings
  <1>3. /\ UNCHANGED <<file, daemon, held, foreign, queue, dark, moved>>
        /\ acts' \in Nat
    BY SettingsFrame, SpendKeeps DEF CloseSettings, StopRecording, StartRecording
  <1>4. QED
    BY <1>2, <1>3, SettingsFrame, FileKeeps

LEMMA CaptureTimerKeeps ==
  ASSUME ControlInvariant, CaptureTimer PROVE Kept
  <1>1. /\ settings \in Settings /\ Loaded \in Config
        /\ settings' = [settings EXCEPT !.draft = Loaded, !.armed = FALSE]
    BY SettingsFrame, FileRead DEF CaptureTimer
  <1>2. settings' \in Settings
    BY <1>1 DEF Settings
  <1>3. /\ acts' \in Nat /\ file' \in Config /\ dark' \in BOOLEAN
        /\ UNCHANGED <<daemon, held, foreign, queue, moved>>
    BY <1>1, SettingsFrame DEF CaptureTimer
  <1>4. daemon # None /\ ~dark' => ~dark /\ file' = file
    BY DEF CaptureTimer
  <1>5. QED
    BY <1>2, <1>3, <1>4, FileKeeps

LEMMA HandEditKeeps ==
  ASSUME ControlInvariant, HandEdit PROVE Kept
  <1>1. file' \in {Missing, Corrupt} \cup Config
    <2>1. CASE file \in {Missing, Corrupt}
      BY <2>1, SettingsFrame, LoadedIsAConfig DEF HandEdit
    <2>2. CASE file \notin {Missing, Corrupt}
      <3>1. [file EXCEPT !.rules = TRUE] \in Config
        BY <2>2, SettingsFrame, ConfigParts
      <3>2. QED
        BY <2>2, <3>1 DEF HandEdit
    <2>3. QED
      BY <2>1, <2>2
  <1>2. /\ acts' \in Nat /\ dark' = (daemon # None)
        /\ UNCHANGED <<daemon, held, foreign, queue, settings, moved>>
    BY SettingsFrame, SpendKeeps DEF HandEdit
  <1>3. QED
    BY <1>1, <1>2, SettingsFrame, FileKeeps

LEMMA RequestKeeps ==
  ASSUME ControlInvariant, RequestCapture PROVE Kept
  <1> DEFINE m == [kind |-> "capture"]
  <1>1. /\ settings \in Settings /\ Running /\ Len(queue) < QueueLimit /\ acts' \in Nat
        /\ queue' = Append(queue, m)
        /\ settings' = [settings EXCEPT !.armed = TRUE, !.recording = None]
        /\ UNCHANGED <<file, daemon, held, foreign, dark, moved>>
    BY SettingsFrame, SpendKeeps DEF RequestCapture, Posted
  <1>2. settings' \in Settings
    BY <1>1 DEF Settings
  <1>3. m \in Messages /\ (m.kind = "hotkey" => Decode(m.id) \in m.meant)
    BY DEF Messages
  <1> HIDE DEF m
  <1>4. QED
    BY <1>1, <1>2, <1>3, PostedKeeps

\* The file is written whole, and the daemon told.
LEMMA AutosaveKeeps ==
  ASSUME ControlInvariant, settings # None, NEW draft \in Config, Autosave(draft),
         UNCHANGED <<daemon, held, foreign, moved>>, acts' \in Nat
  PROVE  Kept
  <1>1. /\ Running => Len(queue) < QueueLimit
        /\ settings' = [settings EXCEPT !.draft = draft, !.recording = None]
        /\ file' = draft /\ queue' = IF Running THEN Append(queue, Reload) ELSE queue
        /\ dark' = (dark \/ (daemon # None /\ ~Running))
    BY DEF Autosave, CanPost, Posted, Unheard
  <1>2. settings' \in Settings
    BY <1>1, SettingsFrame DEF Settings
  <1>3. Reload \in Messages /\ Reload.kind = "reload"
    BY DEF Reload, Messages
  <1>4. QueueSound(queue') /\ (Running => ~NoReload(queue'))
    BY <1>1, <1>3, QueueIsSound, AppendSound
  <1>5. TypeOK' /\ KeysMeanTheirBinding'
    BY <1>1, <1>2, <1>4 DEF ControlInvariant, TypeOK, KeysMeanTheirBinding, QueueSound
  <1>6. FileFollowed'
    BY <1>1, <1>4 DEF FileFollowed
  <1>7. Seen' = Seen /\ InForce' = InForce
    BY DEF Seen, InForce, Idle, Running
  <1>8. ~Running => queue' = <<>> /\ held' = NoKeys
    BY <1>1 DEF ControlInvariant
  <1>9. QED
    BY <1>5, <1>6, <1>7, <1>8 DEF ControlInvariant, Running, Kept

LEMMA Flipped ==
  ASSUME NEW c \in Config
  PROVE  /\ [c EXCEPT !.tiling = ~@] \in Config
         /\ [c EXCEPT !.taskbar = ~@] \in Config
         /\ [c EXCEPT !.rules = FALSE] \in Config
  <1> DEFINE t == ~c.tiling
             b == ~c.taskbar
  <1>1. t \in BOOLEAN /\ b \in BOOLEAN /\ FALSE \in BOOLEAN
    OBVIOUS
  <1>2. [c EXCEPT !.tiling = t] \in Config
    <2> HIDE DEF t
    <2>1. QED
      BY <1>1, ConfigParts
  <1>3. [c EXCEPT !.taskbar = b] \in Config
    <2> HIDE DEF b
    <2>1. QED
      BY <1>1, ConfigParts
  <1>4. [c EXCEPT !.rules = FALSE] \in Config
    BY <1>1, ConfigParts
  <1>5. QED
    BY Zenon, <1>2, <1>3, <1>4

LEMMA EditKeeps ==
  ASSUME ControlInvariant, Edit PROVE Kept
  <1> DEFINE draft == settings.draft
             ticked == [draft EXCEPT !.tiling = ~@]
             shown == [draft EXCEPT !.taskbar = ~@]
             bare == [draft EXCEPT !.rules = FALSE]
  <1>1. /\ settings # None /\ UNCHANGED <<daemon, held, foreign, moved>> /\ acts' \in Nat
        /\ draft \in Config /\ Default \in Config
    BY SettingsFrame, SpendKeeps, LoadedIsAConfig DEF Edit, Settings
  <1>2. Autosave(ticked) \/ Autosave(shown) \/ Autosave(bare) \/ Autosave(Default)
    BY Zenon DEF Edit
  <1>3. ticked \in Config /\ shown \in Config /\ bare \in Config
    BY Zenon, <1>1, Flipped
  <1> HIDE DEF ticked, shown, bare
  <1>4. QED
    BY <1>1, <1>2, <1>3, AutosaveKeeps

LEMMA RecordKeeps ==
  ASSUME ControlInvariant, NEW key \in Typed, Record(key) PROVE Kept
  <1> DEFINE edited == [settings.draft EXCEPT !.bind[settings.recording] = key]
  <1>1. /\ settings # None /\ settings.recording # None /\ Autosave(edited)
        /\ UNCHANGED <<daemon, held, foreign, acts, moved>>
    BY DEF Record
  <1>2. settings.draft \in Config /\ settings.recording \in Configurable
    BY <1>1, SettingsFrame DEF Settings
  <1>3. edited \in Config
    <2> DEFINE bind == [settings.draft.bind EXCEPT ![settings.recording] = key]
    <2>1. bind \in Bindings
      BY <1>2, ControlAssumption DEF Config, Bindings
    <2> HIDE DEF bind
    <2>2. [settings.draft EXCEPT !.bind = bind] \in Config
      BY <1>2, <2>1 DEF Config
    <2>3. edited = [settings.draft EXCEPT !.bind = bind]
      BY <1>2 DEF Config, bind
    <2>4. QED
      BY <2>2, <2>3
  <1> HIDE DEF edited
  <1>4. QED
    BY <1>1, <1>3, SettingsFrame, AutosaveKeeps

-----------------------------------------------------------------------------
(* The invariant holds, and what follows from it *)

LEMMA InitSound ==
  ASSUME Init PROVE ControlInvariant /\ InForce = DefaultBind /\ Seen = NoKeys
  <1>1. Default \in Config
    BY ControlAssumption DEF Default, Config
  <1>2. TypeOK
    BY <1>1, NoKeysHeld, EmptyQueue, ControlAssumption DEF Init, TypeOK, QueueSound
  <1>3. KeysMeanTheirBinding
    BY EmptyQueue DEF Init, KeysMeanTheirBinding
  <1>4. QED
    BY <1>2, <1>3 DEF Init, ControlInvariant, Running, FileFollowed, InForce, Seen

\* Every step but the end of a registration empties the table the system is seen
\* to keep, or leaves it and the bindings in force alone.
LEMMA StepSound ==
  ASSUME ControlInvariant, [Next]_vars
  PROVE  Kept \/ (RegistrationEnds /\ ControlInvariant')
  <1>1. CASE PassOver \/ RegisterOne \/ RegistrationFails \/ RegistrationEnds \/ Handle
    BY <1>1, PassOverKeeps, RegisterOneKeeps, RegistrationFailsKeeps, RegistrationEndsKeeps,
       HandleKeeps
  <1>2. CASE \E key \in Keys : Grab(key) \/ Release(key)
    BY <1>2, ForeignKeeps
  <1>3. CASE \E id \in Ids : Press(id)
    BY <1>3, PressKeeps
  <1>4. CASE \E kind \in {"reload", "capture", "taskbar", "exit"} : Command(kind)
    BY <1>4, CommandKeeps
  <1>5. CASE AddOrRemoveSpace \/ Reconcile
    BY <1>5, CountKeeps, ReconcileKeeps
  <1>6. CASE StartDaemon \/ OpenWindow \/ Leave \/ Crash
    BY <1>6, StartKeeps, OpenWindowKeeps, GoneKeeps
  <1>7. CASE OpenSettings \/ CloseSettings \/ Edit
    BY <1>7, OpenSettingsKeeps, CloseKeeps, EditKeeps
  <1>8. CASE \E id \in Configurable : StartRecording(id)
    BY <1>8, CloseKeeps
  <1>9. CASE \E key \in Typed : Record(key)
    BY <1>9, RecordKeeps
  <1>10. CASE StopRecording \/ RequestCapture \/ CaptureTimer \/ HandEdit
    BY <1>10, CloseKeeps, RequestKeeps, CaptureTimerKeeps, HandEditKeeps
  <1>11. CASE UNCHANGED vars
    <2>1. UNCHANGED <<file, daemon, held, foreign, queue, settings, acts, dark, moved>>
      BY <1>11 DEF vars
    <2>2. QED
      BY <2>1, SettingsFrame, FileKeeps
  <1>12. QED
    BY <1>1, <1>2, <1>3, <1>4, <1>5, <1>6, <1>7, <1>8, <1>9, <1>10, <1>11 DEF Next

\* The strengthened invariant, from which the theorems below follow.
THEOREM ControlAlwaysSound == Spec => []ControlInvariant
  <1>1. Init => ControlInvariant
    BY InitSound
  <1>2. ControlInvariant /\ [Next]_vars => ControlInvariant'
    BY StepSound DEF Kept
  <1>3. QED
    BY <1>1, <1>2, PTL DEF Spec

\* However many messages wait, and whatever is re-registered, rebound or counted
\* anew before they are read, a key that was pressed does what its binding said
\* when it was pressed (hotkeys.rs, the layout of the identifiers).
THEOREM KeysMeanTheirBindingCorrect == Spec => []KeysMeanTheirBinding
  <1>1. ControlInvariant => KeysMeanTheirBinding
    BY DEF ControlInvariant
  <1>2. QED
    BY <1>1, ControlAlwaysSound, PTL

\* For every limit on the number of spaces, the digits the daemon takes are
\* those of the spaces there are, until the displays change
\* (after_space_count_change).
THEOREM DigitsFollowCountsCorrect == Spec => []DigitsFollowCounts
  <1>1. ControlInvariant => DigitsFollowCounts
    BY DEF ControlInvariant, HeldSound, DigitsFollowCounts, Idle
  <1>2. QED
    BY <1>1, ControlAlwaysSound, PTL

\* A daemon that has read its messages runs by the file, whichever of the two
\* processes wrote it last (load_from_file, save, autosave).
THEOREM ConfigConvergesCorrect == Spec => []ConfigConverges
  <1>1. ControlInvariant => ConfigConverges
    BY DEF ControlInvariant, FileFollowed, ConfigConverges, NoReload, Running
  <1>2. QED
    BY <1>1, ControlAlwaysSound, PTL

LEMMA BindingsInForce ==
  ASSUME ControlInvariant PROVE InForce \in Bindings
  <1>1. daemon # None => daemon.cfg.bind \in Bindings
    BY DaemonParts, ConfigParts DEF ControlInvariant, TypeOK
  <1>2. QED
    BY <1>1, ControlAssumption DEF InForce

\* The end of a registration installs the whole of its plan at once.
LEMMA EndInstalls ==
  ASSUME ControlInvariant, RegistrationEnds
  PROVE  /\ Seen = NoKeys /\ InForce' = InForce
         /\ \E n \in 1 .. MaxSpaces : Seen' = Wanted(InForce, n)
  <1>1. /\ Running /\ daemon.work # None /\ daemon.work.todo = <<>>
        /\ daemon' = [daemon EXCEPT !.work = None] /\ held' = held
    BY DEF RegistrationEnds
  <1>2. /\ daemon' \in Daemon /\ daemon' # None /\ daemon'.phase = "running"
        /\ daemon'.work = None /\ daemon'.cfg = daemon.cfg
    BY <1>1, WorkOver
  <1>3. Seen = NoKeys /\ InForce' = InForce /\ InForce = daemon.cfg.bind
    BY <1>1, <1>2 DEF Seen, InForce, Idle, Running
  <1>4. Seen' = held
    BY <1>1, <1>2 DEF Seen, Idle, Running
  <1>5. HeldSound(daemon, held, moved) /\ daemon.max \in 1 .. MaxSpaces
    BY <1>1, DaemonParts DEF ControlInvariant, TypeOK, Running
  <1>6. BoundIds(daemon.work.todo) = {}
    BY <1>1 DEF BoundIds
  <1>7. held = Wanted(daemon.cfg.bind, daemon.max)
    <2>1. DOMAIN held = BoundIds(Plan(daemon.cfg.bind, daemon.max))
      BY <1>1, <1>5, <1>6 DEF HeldSound
    <2>2. held = [id \in DOMAIN held |-> KeyOf(daemon.cfg.bind, id)]
      BY <1>5 DEF HeldSound
    <2>3. QED
      BY <2>1, <2>2 DEF Wanted
  <1>8. QED
    BY <1>3, <1>4, <1>5, <1>7

\* The two specifications mean the same by the tables of hotkeys.
LEMMA SameTables ==
  /\ Table!NoKeys = NoKeys /\ Table!Bindings = Bindings
  /\ \A b, n : Table!Wanted(b, n) = Wanted(b, n)
  <1>1. /\ Table!SpecialBase = SpecialBase /\ Table!MoveBase = MoveBase
        /\ Table!Exit = Exit /\ Table!Toggle = Toggle /\ Table!LastId = LastId
    BY DEF Table!SpecialBase, SpecialBase, Table!MoveBase, MoveBase, Table!Exit, Exit,
           Table!Toggle, Toggle, Table!LastId, LastId
  <1>2. Table!Ids = Ids /\ Table!Configurable = Configurable
    BY <1>1 DEF Table!Ids, Ids, Table!Configurable, Configurable
  <1>3. Table!NoKeys = NoKeys /\ Table!Bindings = Bindings
    BY <1>2 DEF Table!NoKeys, NoKeys, Table!Bindings, Bindings
  <1>4. ASSUME NEW b, NEW id PROVE Table!KeyOf(b, id) = KeyOf(b, id)
    BY Zenon, <1>1 DEF Table!KeyOf, KeyOf
  <1>5. ASSUME NEW b, NEW n PROVE Table!Plan(b, n) = Plan(b, n)
    <2>1. Table!Digits(b, n, MoveBase) = Digits(b, n, MoveBase)
      BY DEF Table!Digits, Digits
    <2>2. Table!Others(b) = Others(b)
      BY <1>1, <1>4 DEF Table!Others, Others
    <2>3. QED
      BY <1>1, <2>1, <2>2 DEF Table!Plan, Plan
  <1>6. ASSUME NEW b, NEW n PROVE Table!Wanted(b, n) = Wanted(b, n)
    <2>1. Table!BoundIds(Plan(b, n)) = BoundIds(Plan(b, n))
      BY DEF Table!BoundIds, BoundIds
    <2>2. QED
      BY <1>4, <1>5, <2>1 DEF Table!Wanted, Wanted
  <1>7. QED
    BY <1>3, <1>6

\* Registering key by key, with other applications taking and giving back keys
\* in between, failing half-way, crashing and starting again, implements a table
\* that is installed and withdrawn in one step.
THEOREM HotkeysAreAtomicCorrect == Spec => HotkeysAreAtomic
  <1>1. Init => Table!Init
    <2> SUFFICES ASSUME Init PROVE Table!Init
      OBVIOUS
    <2>1. InForce \in Bindings /\ Seen = NoKeys
      BY InitSound, ControlAssumption
    <2>2. QED
      BY <2>1, SameTables DEF Table!Init, InForce, Seen
  <1>2. ControlInvariant /\ ControlInvariant' /\ [Next]_vars =>
          [Table!Next]_<<InForce, Seen>>
    <2> SUFFICES ASSUME ControlInvariant, ControlInvariant', [Next]_vars
                 PROVE  [Table!Next]_<<InForce, Seen>>
      OBVIOUS
    <2>1. InForce' \in Bindings
      <3>1. daemon' # None => daemon'.cfg.bind \in Bindings
        BY DaemonParts, ConfigParts DEF ControlInvariant, TypeOK
      <3>2. QED
        BY <3>1, ControlAssumption DEF InForce
    <2>2. CASE Seen' = NoKeys
      <3>1. Table!Rebind
        BY <2>1, <2>2, SameTables DEF Table!Rebind, InForce, Seen
      <3>2. QED
        BY <3>1 DEF Table!Next
    <2>3. CASE Seen' = Seen /\ InForce' = InForce
      BY <2>3
    <2>4. CASE RegistrationEnds
      <3>1. /\ Seen = NoKeys /\ InForce' = InForce
            /\ \E n \in 1 .. MaxSpaces : Seen' = Wanted(InForce, n)
        BY <2>4, EndInstalls
      <3>2. Table!Install
        BY <3>1, SameTables DEF Table!Install, InForce, Seen
      <3>3. QED
        BY <3>2 DEF Table!Next
    <2>5. QED
      BY <2>2, <2>3, <2>4, StepSound DEF Kept
  <1>3. QED
    BY <1>1, <1>2, ControlAlwaysSound, PTL
       DEF Spec, HotkeysAreAtomic, Table!Spec, InForce, Seen
=============================================================================
