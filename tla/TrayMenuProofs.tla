--------------------------- MODULE TrayMenuProofs ---------------------------
(***************************************************************************)
(* Proofs about the tray menu, for every number of displays and spaces and  *)
(* every length of the queues.  The invariant is made of what the menu's    *)
(* state holds (SoundMenu), what the monitor table holds, and how the        *)
(* window, the hook, the queue and the posted commands go with it.           *)
(***************************************************************************)
EXTENDS TrayMenuProperties, TLAPS, SequenceTheorems, WellFoundedInduction

\* What a row may say, and the ids that say it: a row of spaces travels as its
\* display and its offset, every other row as an id below the stride's base.
Promises == [does : {"switch", "add", "remove", "open", "exit", "nothing"},
             mon : Nat, n : Nat]

Carries(id, says) ==
  \/ /\ says.does = "switch" /\ says.mon \in Nat \ {0} /\ says.n \in 1..MaxSpaces
     /\ id = StrideId(says.mon, says.n - 1)
  \/ /\ says.does = "add" /\ says.mon \in Nat \ {0} /\ says.n \in 1..MaxSpaces
     /\ id = StrideId(says.mon, TRAY_OFFSET_ADD_SPACE)
  \/ /\ says.does = "remove" /\ says.mon \in Nat \ {0} /\ says.n \in 2..MaxSpaces
     /\ id = StrideId(says.mon, TRAY_OFFSET_REMOVE_SPACE)
  \/ says.does \in {"open", "exit", "nothing"} /\ id < ID_TRAY_SWITCH_BASE

Leaves == {r \in [id : Nat, says : Promises, item : BOOLEAN, sub : {<<>>}] :
             Carries(r.id, r.says)}
Rows   == {r \in [id : Nat, says : Promises, item : BOOLEAN, sub : Seq(Leaves)] :
             Carries(r.id, r.says)}

Menus == [open : BOOLEAN, rows : Seq(Rows), hover : Nat, sel : Nat, sub : Seq(Leaves),
          subHover : Nat, subSel : Nat, parent : Nat, pending : Nat]

\* SubmenuIsParents of a state of the menu.
Inner(st) ==
  IF st.parent = 0 THEN st.sub = <<>>
  ELSE st.sub # <<>> /\ st.sub = st.rows[st.parent].sub

\* Every index into the rows is one of a row, or none.
SoundMenu(st) ==
  /\ st \in Menus
  /\ st.hover \in 0..Len(st.rows) /\ st.sel \in 0..Len(st.rows)
  /\ st.parent \in 0..Len(st.rows) /\ st.pending \in 0..Len(st.rows)
  /\ st.subHover \in 0..Len(st.sub) /\ st.subSel \in 0..Len(st.sub)
  /\ Inner(st)

Displays == [spaces : 1..MaxSpaces, current : 1..MaxSpaces]
Tables   == Seq(Displays)
Orders   == {c \in [id : Nat, says : Promises, of : Nat] : Carries(c.id, c.says)}

TypeOK ==
  /\ mons \in Tables
  /\ SoundMenu(menu)
  /\ window \in BOOLEAN /\ hook \in BOOLEAN /\ running \in BOOLEAN
  /\ timers \subseteq {"open", "close"}
  /\ posted \in Seq(NavigationKeys \cup {"close"})
  /\ commands \in Seq(Orders)
  /\ opening \in Nat /\ acts \in Nat

\* Nothing waits for a window that is gone.
QueueFollowsWindow == ~window => posted = <<>>

\* Commands come from this opening or an earlier one; while the menu is open
\* this opening has posted none.
CommandsAreEarlier ==
  \A i \in DOMAIN commands :
    commands[i].of <= opening /\ (menu.open => commands[i].of # opening)

MenuInvariant ==
  TypeOK /\ HooksFollowWindow /\ QueueFollowsWindow /\ CommandsAreEarlier

-----------------------------------------------------------------------------
(* Indices: the row a point is over, the next selectable row *)

LEMMA LeastOf ==
  ASSUME NEW S, S \subseteq Nat, S # {}
  PROVE  (CHOOSE k \in S : \A j \in S : k <= j) \in S
  <1>1. PICK k \in S : \A j \in S : ~(<<j, k>> \in OpToRel(<, Nat))
    BY NatLessThanWellFounded, WFMin
  <1>2. \A j \in S : ~(j < k)
    BY <1>1 DEF OpToRel
  <1>3. \E m \in S : \A j \in S : m <= j
    BY <1>2
  <1>4. QED
    BY <1>3

LEMMA StepInRange ==
  ASSUME NEW rows, NEW S, rows \in Seq(S), NEW current \in 0..Len(rows),
         NEW dir \in {-1, 1}
  PROVE  step_selection(rows, current, dir) \in 0..Len(rows)
  <1> DEFINE n     == Len(rows)
             start == IF current # 0 THEN current ELSE IF dir > 0 THEN 0 ELSE n + 1
             at(k) == 1 + ((start - 1 + k * dir) % n)
             found == {k \in 1..n : rows[at(k)].item}
             least == CHOOSE k \in found : \A j \in found : k <= j
  <1>1. n \in Nat /\ start \in Int
    BY DEF start
  <1>2. step_selection(rows, current, dir) = IF found = {} THEN 0 ELSE at(least)
    BY DEF step_selection
  <1>3. ASSUME NEW k \in 1..n PROVE at(k) \in 1..n
    <2> HIDE DEF n, start
    <2>1. start - 1 + k * dir \in Int
      BY <1>1
    <2>2. n > 0
      BY <1>1
    <2>3. (start - 1 + k * dir) % n \in 0..(n - 1)
      BY <1>1, <2>1, <2>2
    <2>4. QED
      BY <1>1, <2>3
  <1>4. found # {} => least \in 1..n
    <2>1. found \subseteq 1..n /\ found \subseteq Nat
      BY <1>1
    <2> HIDE DEF found, n
    <2>2. QED
      BY <2>1, LeastOf
  <1> HIDE DEF at, least, found
  <1>5. QED
    BY <1>1, <1>2, <1>3, <1>4 DEF n

LEMMA HitIsARow ==
  ASSUME SoundMenu(menu), NEW pt \in Points
  PROVE  \/ hit_test(pt) = <<"outside", 0>>
         \/ \E i \in 0..Len(menu.rows) : hit_test(pt) = <<"root", i>>
         \/ menu.sub # <<>> /\ \E i \in 0..Len(menu.sub) : hit_test(pt) = <<"sub", i>>
  <1> DEFINE over(rows) == IF rows[pt[2]].item THEN pt[2] ELSE 0
  <1>1. menu.rows \in Seq(Rows) /\ menu.sub \in Seq(Leaves)
    BY DEF SoundMenu, Menus
  <1>2. CASE pt[1] = "sub" /\ pt[2] \in DOMAIN menu.sub
    <2>1. pt[2] \in 1..Len(menu.sub) /\ over(menu.sub) \in 0..Len(menu.sub)
      BY <1>1, <1>2
    <2>2. menu.sub # <<>>
      BY <1>2
    <2>3. hit_test(pt) = <<"sub", over(menu.sub)>>
      BY <1>2 DEF hit_test
    <2>4. QED
      BY <2>1, <2>2, <2>3
  <1>3. CASE pt[1] = "root" /\ pt[2] \in DOMAIN menu.rows
    <2>1. over(menu.rows) \in 0..Len(menu.rows)
      BY <1>1, <1>3
    <2>2. hit_test(pt) = <<"root", over(menu.rows)>>
      BY <1>3 DEF hit_test
    <2>3. QED
      BY <2>1, <2>2
  <1>4. CASE /\ ~(pt[1] = "sub" /\ pt[2] \in DOMAIN menu.sub)
             /\ ~(pt[1] = "root" /\ pt[2] \in DOMAIN menu.rows)
    BY <1>4 DEF hit_test
  <1>5. QED
    BY <1>2, <1>3, <1>4

-----------------------------------------------------------------------------
(* What the handlers do to the state of the menu *)

LEMMA ClosedSound == SoundMenu(Closed) /\ ~Closed.open
  BY DEF SoundMenu, Closed, Menus, Inner

LEMMA WithoutSound ==
  ASSUME NEW st, SoundMenu(st)
  PROVE  SoundMenu(Without(st)) /\ Without(st).open = st.open
  <1> DEFINE e == Without(st)
  <1>1. st \in Menus
    BY DEF SoundMenu
  <1>2. e = [st EXCEPT !.sub = <<>>, !.subHover = 0, !.subSel = 0, !.parent = 0]
    BY DEF Without
  <1> HIDE DEF e
  <1>3. <<>> \in Seq(Leaves) /\ Len(<<>>) = 0
    BY EmptySeq
  <1>4. e \in Menus
    BY <1>1, <1>2, <1>3 DEF Menus
  <1>5. /\ e.open = st.open /\ e.rows = st.rows /\ e.hover = st.hover /\ e.sel = st.sel
        /\ e.sub = <<>> /\ e.subHover = 0 /\ e.subSel = 0 /\ e.parent = 0
        /\ e.pending = st.pending
    BY <1>1, <1>2 DEF Menus
  <1>6. SoundMenu(e)
    BY <1>3, <1>4, <1>5 DEF SoundMenu, Inner
  <1>7. QED
    BY <1>5, <1>6 DEF e

LEMMA OpenSubmenuSound ==
  ASSUME NEW st, SoundMenu(st), NEW i \in 1..Len(st.rows),
         NEW keyboard \in BOOLEAN, NEW created \in BOOLEAN
  PROVE  /\ SoundMenu(open_submenu(st, i, keyboard, created))
         /\ open_submenu(st, i, keyboard, created).open = st.open
  <1> DEFINE rows == st.rows[i].sub
             on   == IF keyboard THEN step_selection(rows, 0, 1) ELSE 0
  <1>1. CASE ~HasSub(st.rows[i]) \/ ~created
    BY <1>1, WithoutSound DEF open_submenu
  <1>2. CASE ~(~HasSub(st.rows[i]) \/ ~created)
    <2>1. open_submenu(st, i, keyboard, created)
            = [st EXCEPT !.sub = rows, !.parent = i, !.pending = 0, !.subHover = 0,
                         !.subSel = on]
      BY <1>2 DEF open_submenu
    <2>2. rows \in Seq(Leaves) /\ rows # <<>>
      BY <1>2 DEF SoundMenu, Menus, Rows, HasSub
    <2>3. on \in 0..Len(rows)
      <3>1. 0 \in 0..Len(rows) /\ 1 \in {-1, 1}
        BY <2>2
      <3>2. step_selection(rows, 0, 1) \in 0..Len(rows)
        BY <2>2, <3>1, StepInRange
      <3>3. QED
        BY <3>1, <3>2
    <2> DEFINE e == open_submenu(st, i, keyboard, created)
    <2>4. st \in Menus /\ st.rows \in Seq(Rows)
      BY DEF SoundMenu, Menus
    <2>5. rows = st.rows[i].sub /\ i # 0 /\ i \in Nat
      BY <2>4
    <2> HIDE DEF on, e, rows
    <2>6. e = [st EXCEPT !.sub = rows, !.parent = i, !.pending = 0, !.subHover = 0,
                         !.subSel = on]
      BY <2>1 DEF e
    <2>7. on \in Nat
      BY <2>2, <2>3
    <2>8. e \in Menus
      BY <2>2, <2>4, <2>5, <2>6, <2>7 DEF Menus
    <2>9. /\ e.open = st.open /\ e.rows = st.rows /\ e.hover = st.hover /\ e.sel = st.sel
          /\ e.sub = rows /\ e.subHover = 0 /\ e.subSel = on /\ e.parent = i
          /\ e.pending = 0
      BY <2>4, <2>6 DEF Menus
    <2>10. SoundMenu(e)
      BY <2>2, <2>3, <2>4, <2>5, <2>8, <2>9 DEF SoundMenu, Inner
    <2>11. QED
      BY <2>9, <2>10 DEF e
  <1>3. QED
    BY <1>1, <1>2

LEMMA HoveredSound ==
  ASSUME SoundMenu(menu), NEW hit,
         \/ hit = <<"outside", 0>>
         \/ \E i \in 0..Len(menu.rows) : hit = <<"root", i>>
         \/ menu.sub # <<>> /\ \E i \in 0..Len(menu.sub) : hit = <<"sub", i>>
  PROVE  /\ SoundMenu(Hovered(hit)) /\ Hovered(hit).open = menu.open
         /\ Hovered(hit).rows = menu.rows
  <1> DEFINE root == IF hit[1] = "root" THEN hit[2] ELSE 0
             sub  == IF hit[1] = "sub" THEN hit[2] ELSE 0
             st   == IF root = menu.hover THEN menu
                     ELSE [menu EXCEPT !.hover = root, !.sel = 0]
  <1>1. /\ root \in 0..Len(menu.rows) /\ sub \in 0..Len(menu.sub)
        /\ root \in Nat /\ sub \in Nat
    BY DEF SoundMenu, Menus
  <1> HIDE DEF root, sub
  <1>2. menu \in Menus /\ menu.rows \in Seq(Rows) /\ menu.sub \in Seq(Leaves)
    BY DEF SoundMenu, Menus
  <1>3. SoundMenu(st) /\ st.open = menu.open /\ st.rows = menu.rows /\ st.sub = menu.sub
    <2>1. CASE root = menu.hover
      BY <2>1
    <2>2. CASE root # menu.hover
      <3>1. st = [menu EXCEPT !.hover = root, !.sel = 0]
        BY <2>2
      <3> HIDE DEF st
      <3>2. st \in Menus
        BY <1>1, <1>2, <3>1 DEF Menus
      <3>3. /\ st.open = menu.open /\ st.rows = menu.rows /\ st.hover = root /\ st.sel = 0
            /\ st.sub = menu.sub /\ st.subHover = menu.subHover /\ st.subSel = menu.subSel
            /\ st.parent = menu.parent /\ st.pending = menu.pending
        BY <1>2, <3>1 DEF Menus
      <3>4. QED
        BY <1>1, <1>2, <3>2, <3>3 DEF SoundMenu, Inner
    <2>3. QED
      BY <2>1, <2>2
  <1> HIDE DEF st
  <1>4. Hovered(hit) = IF st.sub = <<>> \/ sub = st.subHover THEN st
                       ELSE [st EXCEPT !.subHover = sub, !.subSel = 0]
    BY DEF Hovered, root, sub, st
  <1>5. CASE st.sub = <<>> \/ sub = st.subHover
    BY <1>3, <1>4, <1>5
  <1>6. CASE ~(st.sub = <<>> \/ sub = st.subHover)
    <2> DEFINE e == [st EXCEPT !.subHover = sub, !.subSel = 0]
    <2>1. st \in Menus
      BY <1>3 DEF SoundMenu
    <2>2. e \in Menus
      BY <1>1, <1>2, <2>1 DEF Menus
    <2>3. /\ e.open = st.open /\ e.rows = st.rows /\ e.hover = st.hover /\ e.sel = st.sel
          /\ e.sub = st.sub /\ e.subHover = sub /\ e.subSel = 0
          /\ e.parent = st.parent /\ e.pending = st.pending
      BY <2>1 DEF Menus
    <2> HIDE DEF e
    <2>4. SoundMenu(e)
      BY <1>1, <1>2, <1>3, <2>2, <2>3 DEF SoundMenu, Inner
    <2>5. QED
      BY <1>3, <1>4, <1>6, <2>3, <2>4 DEF e
  <1>7. QED
    BY <1>5, <1>6

\* The row the pointer rests on opens its submenu after a while.
LEMMA PendingSound ==
  ASSUME NEW st, SoundMenu(st), NEW i \in 0..Len(st.rows)
  PROVE  SoundMenu([st EXCEPT !.pending = i]) /\ [st EXCEPT !.pending = i].open = st.open
  BY DEF SoundMenu, Menus, Inner

-----------------------------------------------------------------------------
(* The rows say what their ids carry *)

LEMMA DisplayOf ==
  ASSUME NEW table \in Tables, NEW m \in DOMAIN table
  PROVE  /\ m \in Nat \ {0} /\ MaxSpaces \in 1..9 /\ table[m] \in Displays
         /\ table[m].spaces \in 1..MaxSpaces /\ table[m].current \in 1..MaxSpaces
         /\ table[m].spaces \in Nat /\ table[m].current \in Nat
  <1>1. m \in 1..Len(table) /\ Len(table) \in Nat
    BY LenProperties DEF Tables
  <1>2. table[m] \in Displays
    BY <1>1, ElementOfSeq DEF Tables
  <1>3. MaxSpaces \in 1..9
    BY TrayMenuAssumption
  <1>4. QED
    BY <1>1, <1>2, <1>3 DEF Displays

\* Row with one of its fields changed is still a row.
LEMMA RowSound ==
  ASSUME NEW id \in Nat, NEW does \in {"switch", "add", "remove", "open", "exit", "nothing"},
         NEW m \in Nat, NEW n \in Nat, Carries(id, Says(does, m, n))
  PROVE  /\ Row(id, Says(does, m, n)) \in Leaves
         /\ [Row(id, Says(does, m, n)) EXCEPT !.item = FALSE] \in Leaves
         /\ \A sub \in Seq(Leaves) :
              [Row(id, Says(does, m, n)) EXCEPT !.sub = sub] \in Rows
  <1> DEFINE says == Says(does, m, n)
             row  == Row(id, says)
  <1>1. says \in Promises
    BY DEF Says, Promises
  <1> HIDE DEF says
  <1>2. row \in [id : Nat, says : Promises, item : BOOLEAN, sub : {<<>>}]
        /\ row.id = id /\ row.says = says
    BY <1>1 DEF Row
  <1> HIDE DEF row
  <1>3. Carries(row.id, row.says)
    BY <1>2 DEF says
  <1>4. row \in Leaves
    BY <1>2, <1>3 DEF Leaves
  <1>5. [row EXCEPT !.item = FALSE] \in Leaves
    <2> DEFINE e == [row EXCEPT !.item = FALSE]
    <2>1. e \in [id : Nat, says : Promises, item : BOOLEAN, sub : {<<>>}]
          /\ e.id = row.id /\ e.says = row.says
      BY <1>2
    <2> HIDE DEF e
    <2>2. Carries(e.id, e.says)
      BY <1>3, <2>1
    <2>3. e \in Leaves
      BY <2>1, <2>2 DEF Leaves
    <2>4. QED
      BY <2>3 DEF e
  <1>6. ASSUME NEW sub \in Seq(Leaves) PROVE [row EXCEPT !.sub = sub] \in Rows
    <2> DEFINE e == [row EXCEPT !.sub = sub]
    <2>1. e \in [id : Nat, says : Promises, item : BOOLEAN, sub : Seq(Leaves)]
          /\ e.id = row.id /\ e.says = row.says
      BY <1>2
    <2> HIDE DEF e
    <2>2. Carries(e.id, e.says)
      BY <1>3, <2>1
    <2>3. e \in Rows
      BY <2>1, <2>2 DEF Rows
    <2>4. QED
      BY <2>3 DEF e
  <1>7. QED
    BY <1>4, <1>5, <1>6 DEF row, says

LEMMA PlainCarries ==
  ASSUME NEW does \in {"open", "exit", "nothing"}, NEW m, NEW n
  PROVE  Carries(0, Says(does, m, n)) /\ Carries(ID_TRAY_EXIT, Says(does, m, n))
  BY DEF Carries, Says, ID_TRAY_SWITCH_BASE, ID_TRAY_EXIT

LEMMA LeafIsRow ==
  ASSUME NEW r \in Leaves PROVE r \in Rows
  BY EmptySeq DEF Leaves, Rows

LEMMA SpaceRowsSound ==
  ASSUME mons \in Tables, NEW m \in DOMAIN mons
  PROVE  SpaceRows(m) \in Seq(Leaves) /\ SpaceRows(m) # <<>>
  <1> DEFINE count == mons[m].spaces
             row(offset, does, n) == Row(StrideId(m, offset), Says(does, m, n))
             switches == [s \in 1..count |-> row(s - 1, "switch", s)]
             add      == IF count < MaxSpaces
                         THEN <<row(TRAY_OFFSET_ADD_SPACE, "add", count + 1)>> ELSE <<>>
             remove   == IF count > 1
                         THEN <<row(TRAY_OFFSET_REMOVE_SPACE, "remove", count)>> ELSE <<>>
  <1>1. m \in Nat \ {0} /\ count \in 1..MaxSpaces /\ MaxSpaces \in 1..9
    BY DisplayOf
  <1>2. ASSUME NEW s \in 1..count PROVE row(s - 1, "switch", s) \in Leaves
    BY <1>1 DEF Row, Says, StrideId, Leaves, Promises, Carries, ID_TRAY_SWITCH_BASE
  <1>3. count < MaxSpaces => row(TRAY_OFFSET_ADD_SPACE, "add", count + 1) \in Leaves
    BY <1>1 DEF Row, Says, StrideId, Leaves, Promises, Carries, ID_TRAY_SWITCH_BASE,
                TRAY_OFFSET_ADD_SPACE
  <1>4. count > 1 => row(TRAY_OFFSET_REMOVE_SPACE, "remove", count) \in Leaves
    BY <1>1 DEF Row, Says, StrideId, Leaves, Promises, Carries, ID_TRAY_SWITCH_BASE,
                TRAY_OFFSET_REMOVE_SPACE
  <1>5. Blank \in Leaves
    BY PlainCarries, RowSound DEF Blank
  <1> HIDE DEF row, count
  <1>6. /\ switches \in Seq(Leaves) /\ <<Blank>> \in Seq(Leaves)
        /\ add \in Seq(Leaves) /\ remove \in Seq(Leaves)
    <2>1. switches \in Seq(Leaves)
      BY <1>1, <1>2, IsASeq
    <2>2. QED
      BY <1>3, <1>4, <1>5, <2>1
  <1>7. SpaceRows(m) = ((switches \o <<Blank>>) \o add) \o remove
    BY DEF SpaceRows, row, count
  <1> HIDE DEF switches, add, remove
  <1>8. /\ switches \o <<Blank>> \in Seq(Leaves)
        /\ Len(switches \o <<Blank>>) = Len(switches) + 1
    BY <1>6, ConcatProperties
  <1>9. /\ (switches \o <<Blank>>) \o add \in Seq(Leaves)
        /\ Len((switches \o <<Blank>>) \o add) = Len(switches) + 1 + Len(add)
    BY <1>6, <1>8, ConcatProperties
  <1>10. /\ SpaceRows(m) \in Seq(Leaves)
         /\ Len(SpaceRows(m)) = Len(switches) + 1 + Len(add) + Len(remove)
    BY <1>6, <1>7, <1>9, ConcatProperties
  <1>11. Len(SpaceRows(m)) > 0
    BY <1>6, <1>10, LenProperties
  <1>12. QED
    BY <1>10, <1>11, EmptySeq

LEMMA EntriesSound ==
  ASSUME mons \in Tables PROVE build_menu_entries \in Seq(Rows)
  <1> DEFINE display(m) == [Row(0, Says("open", m, mons[m].current))
                              EXCEPT !.sub = SpaceRows(m)]
             displays == [m \in DOMAIN mons |-> display(m)]
             exit == Row(ID_TRAY_EXIT, Says("exit", 0, 0))
  <1>1. ASSUME NEW m \in DOMAIN mons PROVE display(m) \in Rows
    <2>1. SpaceRows(m) \in Seq(Leaves)
      BY SpaceRowsSound
    <2>2. m \in Nat /\ mons[m].current \in Nat
      BY DisplayOf
    <2>3. QED
      BY <2>1, <2>2, PlainCarries, RowSound
  <1>2. displays \in Seq(Rows)
    <2>1. DOMAIN mons = 1..Len(mons) /\ Len(mons) \in Nat
      BY DEF Tables
    <2> HIDE DEF display
    <2>2. QED
      BY <1>1, <2>1, IsASeq
  <1>3. Blank \in Rows /\ exit \in Rows
    <2>1. Blank \in Leaves
      BY PlainCarries, RowSound DEF Blank
    <2>2. exit \in Leaves
      <3>1. ID_TRAY_EXIT \in Nat
        BY DEF ID_TRAY_EXIT
      <3>2. QED
        BY <3>1, PlainCarries, RowSound
    <2>3. QED
      BY <2>1, <2>2, LeafIsRow
  <1>4. build_menu_entries = (<<Blank>> \o displays) \o <<exit>>
    BY DEF build_menu_entries
  <1> HIDE DEF displays, exit
  <1>5. <<Blank>> \in Seq(Rows) /\ <<exit>> \in Seq(Rows)
    BY <1>3
  <1>6. QED
    BY <1>2, <1>4, <1>5, ConcatProperties

\* An id is decoded to the display and the offset it was made of.
LEMMA StrideDecoded ==
  ASSUME NEW m \in Nat \ {0}, NEW offset \in 0..99
  PROVE  /\ StrideId(m, offset) >= ID_TRAY_SWITCH_BASE
         /\ (StrideId(m, offset) - ID_TRAY_SWITCH_BASE) \div 100 = m - 1
         /\ (StrideId(m, offset) - ID_TRAY_SWITCH_BASE) % 100 = offset
  BY DEF StrideId, ID_TRAY_SWITCH_BASE

-----------------------------------------------------------------------------
(* Steps that keep the menu, steps that tear it down, steps that post *)

\* The order a row posts.
Ordered ==
  /\ menu.open
  /\ \E row \in Rows :
       commands' = Append(commands, [id |-> row.id, says |-> row.says, of |-> opening])

LEMMA KeepInvariant ==
  ASSUME MenuInvariant, NEW st, SoundMenu(st), st.open = menu.open, Keep(st),
         timers' \subseteq {"open", "close"},
         \/ posted' = posted
         \/ posted # <<>> /\ posted' = Tail(posted),
         commands' = commands, Others
  PROVE  MenuInvariant'
  <1>1. posted' \in Seq(NavigationKeys \cup {"close"})
    BY HeadTailProperties DEF MenuInvariant, TypeOK
  <1>2. TypeOK'
    BY <1>1 DEF MenuInvariant, TypeOK, Keep, Others
  <1>3. HooksFollowWindow'
    BY DEF MenuInvariant, HooksFollowWindow, Keep
  <1>4. QueueFollowsWindow'
    BY DEF MenuInvariant, QueueFollowsWindow, Keep
  <1>5. CommandsAreEarlier'
    BY DEF MenuInvariant, CommandsAreEarlier, Keep, Others
  <1>6. QED
    BY <1>2, <1>3, <1>4, <1>5 DEF MenuInvariant

LEMMA TearDownInvariant ==
  ASSUME MenuInvariant, TearDown, commands' = commands \/ Ordered, Others
  PROVE  MenuInvariant'
  <1> DEFINE order(row) == [id |-> row.id, says |-> row.says, of |-> opening]
  <1>1. commands \in Seq(Orders) /\ opening \in Nat
    BY DEF MenuInvariant, TypeOK
  <1>2. ASSUME NEW row \in Rows PROVE order(row) \in Orders
    BY <1>1 DEF Rows, Orders
  <1>3. ASSUME NEW c, c = commands' PROVE
          c \in Seq(Orders) /\ \A i \in DOMAIN c : c[i].of <= opening
    <2>1. \A i \in DOMAIN commands : commands[i].of <= opening
      BY DEF MenuInvariant, CommandsAreEarlier
    <2>2. CASE c = commands
      BY <1>1, <2>1, <2>2
    <2>3. ASSUME NEW row \in Rows, c = Append(commands, order(row))
          PROVE  c \in Seq(Orders) /\ \A i \in DOMAIN c : c[i].of <= opening
      <3>1. order(row) \in Orders /\ order(row).of = opening
        BY <1>2
      <3> HIDE DEF order
      <3>2. /\ c \in Seq(Orders) /\ Len(c) = Len(commands) + 1
            /\ \A i \in 1..Len(commands) : c[i] = commands[i]
            /\ c[Len(commands) + 1] = order(row)
        BY <1>1, <2>3, <3>1, AppendProperties
      <3>3. DOMAIN c = 1..(Len(commands) + 1) /\ DOMAIN commands = 1..Len(commands)
            /\ Len(commands) \in Nat
        BY <1>1, <3>2, LenProperties
      <3>4. ASSUME NEW i \in DOMAIN c PROVE c[i].of <= opening
        <4>1. i \in 1..Len(commands) \/ i = Len(commands) + 1
          BY <3>3
        <4>2. QED
          BY <1>1, <2>1, <3>1, <3>2, <3>3, <4>1
      <3>5. QED
        BY <3>2, <3>4
    <2>4. QED
      BY <1>3, <2>2, <2>3 DEF Ordered
  <1>4. /\ menu' = Closed /\ SoundMenu(menu') /\ ~menu'.open
    BY ClosedSound DEF TearDown
  <1>5. TypeOK'
    BY <1>3, <1>4, EmptySeq DEF MenuInvariant, TypeOK, TearDown, Others
  <1>6. HooksFollowWindow' /\ QueueFollowsWindow'
    BY <1>4 DEF TearDown, HooksFollowWindow, QueueFollowsWindow
  <1>7. CommandsAreEarlier'
    BY <1>3, <1>4 DEF CommandsAreEarlier, Others
  <1>8. QED
    BY <1>5, <1>6, <1>7 DEF MenuInvariant

LEMMA CloseInvariant ==
  ASSUME MenuInvariant, close_menu, UNCHANGED commands, Others
  PROVE  MenuInvariant'
  <1>1. CASE menu.open
    BY <1>1, TearDownInvariant DEF close_menu
  <1>2. CASE ~menu.open
    BY <1>2 DEF close_menu, Others, MenuInvariant, TypeOK, HooksFollowWindow,
                QueueFollowsWindow, CommandsAreEarlier
  <1>3. QED
    BY <1>1, <1>2

LEMMA CommandInvariant ==
  ASSUME MenuInvariant, menu.open, NEW row \in Rows, Command(row), Others
  PROVE  MenuInvariant' /\ Ordered
  BY TearDownInvariant DEF Command, close_menu, Ordered

LEMMA PostInvariant ==
  ASSUME MenuInvariant, NEW message \in NavigationKeys \cup {"close"}, Post(message)
  PROVE  MenuInvariant' /\ commands' = commands
  <1>1. posted' \in Seq(NavigationKeys \cup {"close"})
    BY AppendProperties DEF MenuInvariant, TypeOK, Post
  <1>2. TypeOK'
    BY <1>1 DEF MenuInvariant, TypeOK, Post
  <1>3. HooksFollowWindow' /\ QueueFollowsWindow' /\ CommandsAreEarlier'
    BY DEF MenuInvariant, HooksFollowWindow, QueueFollowsWindow, CommandsAreEarlier, Post
  <1>4. QED
    BY <1>2, <1>3 DEF MenuInvariant, Post

\* The handlers run while there is a window, and so while the menu is open.
LEMMA OpenIfReceived ==
  ASSUME MenuInvariant, NEW message, Received(message)
  PROVE  menu.open /\ window
  BY DEF MenuInvariant, HooksFollowWindow, QueueFollowsWindow, Received

LEMMA MenuParts ==
  ASSUME MenuInvariant
  PROVE  /\ SoundMenu(menu) /\ menu \in Menus /\ timers \subseteq {"open", "close"}
         /\ menu.rows \in Seq(Rows) /\ menu.sub \in Seq(Leaves)
         /\ menu.hover \in 0..Len(menu.rows) /\ menu.sel \in 0..Len(menu.rows)
         /\ menu.pending \in 0..Len(menu.rows)
         /\ menu.subSel \in 0..Len(menu.sub)
         /\ Len(menu.rows) \in Nat /\ Len(menu.sub) \in Nat
  BY LenProperties DEF MenuInvariant, TypeOK, SoundMenu, Menus

LEMMA LeafHasNoSub ==
  ASSUME NEW r \in Leaves PROVE ~HasSub(r)
  BY DEF Leaves, HasSub

-----------------------------------------------------------------------------
(* Every step keeps the invariant, and says what became of the commands *)

\* A step takes the first command, posts one, or leaves them alone.
CommandsMove ==
  \/ commands' = commands
  \/ on_command
  \/ Ordered

LEMMA ShowStep ==
  ASSUME MenuInvariant, NEW created \in BOOLEAN, NEW hooked \in BOOLEAN, Show(created, hooked)
  PROVE  MenuInvariant' /\ CommandsMove
  <1> DEFINE shown == [Closed EXCEPT !.open = TRUE, !.rows = build_menu_entries]
  <1>1. build_menu_entries \in Seq(Rows)
    BY EntriesSound DEF MenuInvariant, TypeOK
  <1>2. Closed \in Menus
    BY ClosedSound DEF SoundMenu
  <1> DEFINE c == Closed
  <1>3. /\ c \in Menus /\ c.sub = <<>> /\ c.hover = 0 /\ c.sel = 0 /\ c.subHover = 0
         /\ c.subSel = 0 /\ c.parent = 0 /\ c.pending = 0
    BY <1>2 DEF Closed
  <1> HIDE DEF c
  <1>4. /\ shown \in Menus /\ shown.open /\ shown.sub = <<>>
        /\ shown.hover = 0 /\ shown.sel = 0 /\ shown.subHover = 0 /\ shown.subSel = 0
        /\ shown.parent = 0 /\ shown.pending = 0 /\ shown.rows = build_menu_entries
    <2>1. shown = [c EXCEPT !.open = TRUE, !.rows = build_menu_entries]
      BY DEF c
    <2> HIDE DEF shown
    <2>2. shown \in Menus
      BY <1>1, <1>3, <2>1 DEF Menus
    <2>3. shown.open
      BY <1>3, <2>1 DEF Menus
    <2>4. QED
      BY <1>3, <2>1, <2>2, <2>3 DEF Menus
  <1> HIDE DEF shown
  <1>5. SoundMenu(shown)
    BY <1>1, <1>4, EmptySeq, LenProperties DEF SoundMenu, Inner
  <1>6. menu' = (IF created THEN shown ELSE Closed)
    BY DEF Show, shown
  <1>7. SoundMenu(menu') /\ (menu'.open <=> created)
    BY <1>4, <1>5, <1>6, ClosedSound
  <1>8. TypeOK'
    BY <1>7, EmptySeq DEF MenuInvariant, TypeOK, Show
  <1>9. HooksFollowWindow' /\ QueueFollowsWindow'
    BY <1>7 DEF HooksFollowWindow, QueueFollowsWindow, Show
  <1>10. CommandsAreEarlier'
    <2>1. ASSUME NEW i \in DOMAIN commands PROVE commands[i].of \in Nat /\ opening \in Nat
      BY <2>1, LenProperties, ElementOfSeq DEF MenuInvariant, TypeOK, Orders
    <2>2. QED
      BY <2>1 DEF MenuInvariant, CommandsAreEarlier, Show
  <1>11. QED
    BY <1>8, <1>9, <1>10 DEF MenuInvariant, CommandsMove, Show

LEMMA MouseMoveStep ==
  ASSUME MenuInvariant, NEW pt \in Points, on_mouse_move(pt)
  PROVE  MenuInvariant' /\ CommandsMove
  <1> DEFINE hit == hit_test(pt)
             st  == Hovered(hit)
  <1>1. /\ SoundMenu(menu) /\ timers \subseteq {"open", "close"}
        /\ Len(menu.rows) \in Nat
    BY MenuParts
  <1>2. \/ hit = <<"outside", 0>>
        \/ \E i \in 0..Len(menu.rows) : hit = <<"root", i>>
        \/ menu.sub # <<>> /\ \E i \in 0..Len(menu.sub) : hit = <<"sub", i>>
    BY <1>1, HitIsARow
  <1> HIDE DEF hit
  <1>3. SoundMenu(st) /\ st.open = menu.open /\ st.rows = menu.rows
    BY <1>1, <1>2, HoveredSound
  <1>4. ASSUME NEW i \in 0..Len(menu.rows)
        PROVE  SoundMenu([st EXCEPT !.pending = i]) /\ [st EXCEPT !.pending = i].open = menu.open
    BY <1>3, <1>4, PendingSound
  <1>5. 0 \in 0..Len(menu.rows)
    BY <1>1
  <1>6. UNCHANGED commands /\ posted' = posted /\ Others
    BY DEF on_mouse_move
  <1>7. timers' \subseteq {"open", "close"} /\
        \/ Keep(st)
        \/ \E i \in 0..Len(menu.rows) : Keep([st EXCEPT !.pending = i])
    <2>1. CASE hit[1] = "root" /\ hit[2] # 0 /\ HasSub(menu.rows[hit[2]]) /\ OverParent(hit[2])
      <3>1. hit = <<"root", hit[2]>> /\ hit[2] \in 0..Len(menu.rows)
        BY <1>2, <2>1
      <3>2. CASE menu.parent = hit[2]
        BY <1>1, <2>1, <3>1, <3>2 DEF OverParent
      <3>3. CASE menu.parent # hit[2] /\ menu.pending = hit[2]
        BY <1>1, <2>1, <3>1, <3>3 DEF OverParent
      <3>4. CASE menu.parent # hit[2] /\ menu.pending # hit[2]
        BY <1>1, <2>1, <3>1, <3>4 DEF OverParent
      <3>5. QED
        BY <3>2, <3>3, <3>4
    <2>2. CASE hit[1] = "root" /\ hit[2] # 0 /\ OverPlain(hit[2])
      <3>1. hit = <<"root", hit[2]>>
        BY <1>2, <2>2
      <3>2. QED
        BY <1>1, <1>5, <2>2, <3>1 DEF OverPlain
    <2>3. CASE hit[1] = "sub" /\ Keep([st EXCEPT !.pending = 0]) /\ timers' = {}
      BY <1>5, <2>3
    <2>4. CASE Keep(st) /\ UNCHANGED timers
      BY <1>1, <2>4
    <2>5. QED
      BY <2>1, <2>2, <2>3, <2>4 DEF on_mouse_move, hit
  <1>8. MenuInvariant'
    BY <1>3, <1>4, <1>6, <1>7, KeepInvariant
  <1>9. QED
    BY <1>6, <1>8 DEF CommandsMove

LEMMA MouseDownStep ==
  ASSUME MenuInvariant, NEW pt \in Points, on_mouse_down(pt)
  PROVE  MenuInvariant' /\ CommandsMove
  BY CloseInvariant DEF on_mouse_down, CommandsMove

LEMMA MouseUpStep ==
  ASSUME MenuInvariant, NEW pt \in Points, on_mouse_up(pt)
  PROVE  MenuInvariant' /\ CommandsMove
  <1> DEFINE hit == hit_test(pt)
             row == IF hit[1] = "root" THEN menu.rows[hit[2]] ELSE menu.sub[hit[2]]
  <1>1. hit[2] # 0 /\ menu.open /\ Others
    BY DEF on_mouse_up
  <1>2. \/ hit = <<"outside", 0>>
        \/ \E i \in 0..Len(menu.rows) : hit = <<"root", i>>
        \/ menu.sub # <<>> /\ \E i \in 0..Len(menu.sub) : hit = <<"sub", i>>
    BY MenuParts, HitIsARow
  <1>3. \/ ~HasSub(row) /\ Command(row)
        \/ /\ HasSub(row)
           /\ \E created \in BOOLEAN : Keep(open_submenu(menu, hit[2], FALSE, created))
           /\ UNCHANGED <<timers, posted, commands>>
    BY DEF on_mouse_up
  <1> HIDE DEF hit
  <1>4. \/ hit[1] = "root" /\ hit[2] \in 1..Len(menu.rows)
        \/ hit[1] = "sub" /\ hit[2] \in 1..Len(menu.sub)
    BY <1>1, <1>2, MenuParts
  <1>5. row \in Rows /\ (hit[1] = "sub" => row \in Leaves)
    <2>1. CASE hit[1] = "root" /\ hit[2] \in 1..Len(menu.rows)
      BY <2>1, MenuParts, ElementOfSeq
    <2>2. CASE hit[1] = "sub" /\ hit[2] \in 1..Len(menu.sub)
      <3>1. row = menu.sub[hit[2]]
        BY <2>2
      <3>2. row \in Leaves
        BY <2>2, <3>1, MenuParts, ElementOfSeq
      <3>3. QED
        BY <3>2, LeafIsRow
    <2>3. QED
      BY <1>4, <2>1, <2>2
  <1> HIDE DEF row
  <1>6. CASE ~HasSub(row) /\ Command(row)
    BY <1>1, <1>5, <1>6, CommandInvariant DEF CommandsMove
  <1>7. CASE /\ HasSub(row)
             /\ \E created \in BOOLEAN : Keep(open_submenu(menu, hit[2], FALSE, created))
             /\ UNCHANGED <<timers, posted, commands>>
    <2>1. hit[2] \in 1..Len(menu.rows)
      BY <1>4, <1>5, <1>7, LeafHasNoSub
    <2>2. PICK created \in BOOLEAN : Keep(open_submenu(menu, hit[2], FALSE, created))
      BY <1>7
    <2> DEFINE st == open_submenu(menu, hit[2], FALSE, created)
    <2>3. SoundMenu(st) /\ st.open = menu.open
      BY <2>1, MenuParts, OpenSubmenuSound
    <2> HIDE DEF st
    <2>4. MenuInvariant'
      BY <1>1, <1>7, <2>2, <2>3, MenuParts, KeepInvariant DEF st
    <2>5. QED
      BY <1>7, <2>4 DEF CommandsMove
  <1>8. QED
    BY <1>3, <1>6, <1>7

LEMMA OpenTimerStep ==
  ASSUME MenuInvariant, NEW created \in BOOLEAN, OpenTimer(created)
  PROVE  MenuInvariant' /\ CommandsMove
  <1> DEFINE st == [menu EXCEPT !.pending = 0]
             e  == IF menu.pending # 0 /\ menu.hover = menu.pending
                   THEN open_submenu(st, menu.pending, FALSE, created) ELSE st
  <1>1. SoundMenu(st) /\ st.open = menu.open /\ st.rows = menu.rows
    <2>1. 0 \in 0..Len(menu.rows)
      BY MenuParts
    <2>2. st.rows = menu.rows
      BY MenuParts DEF Menus
    <2>3. QED
      BY <2>1, <2>2, MenuParts, PendingSound
  <1> HIDE DEF st
  <1>2. SoundMenu(e) /\ e.open = menu.open
    <2>1. CASE menu.pending # 0 /\ menu.hover = menu.pending
      <3>1. menu.pending \in 1..Len(st.rows)
        BY <1>1, <2>1, MenuParts
      <3>2. QED
        BY <1>1, <2>1, <3>1, OpenSubmenuSound
    <2>2. CASE ~(menu.pending # 0 /\ menu.hover = menu.pending)
      BY <1>1, <2>2
    <2>3. QED
      BY <2>1, <2>2
  <1>3. /\ Keep(e) /\ timers' = timers \ {"open"} /\ UNCHANGED <<posted, commands>>
        /\ Others
    BY DEF OpenTimer, st
  <1> HIDE DEF e
  <1>4. MenuInvariant'
    BY <1>2, <1>3, MenuParts, KeepInvariant
  <1>5. QED
    BY <1>3, <1>4 DEF CommandsMove

LEMMA CloseTimerStep ==
  ASSUME MenuInvariant, NEW pt \in Points, CloseTimer(pt)
  PROVE  MenuInvariant' /\ CommandsMove
  <1> DEFINE e == IF hit_test(pt)[1] = "sub" THEN menu ELSE close_submenu(menu)
  <1>1. SoundMenu(e) /\ e.open = menu.open
    BY MenuParts, WithoutSound DEF close_submenu
  <1>2. /\ Keep(e) /\ timers' = timers \ {"close"} /\ UNCHANGED <<posted, commands>>
        /\ Others
    BY DEF CloseTimer
  <1> HIDE DEF e
  <1>3. MenuInvariant'
    <2>1. /\ Keep(e) /\ timers' \subseteq {"open", "close"} /\ Others
          /\ posted' = posted /\ commands' = commands
      BY <1>2, MenuParts
    <2>2. QED
      BY <1>1, <2>1, KeepInvariant
  <1>4. QED
    BY <1>2, <1>3 DEF CommandsMove

LEMMA LostStep ==
  ASSUME MenuInvariant, CaptureLost \/ RootDestroyed
  PROVE  MenuInvariant' /\ CommandsMove
  BY CloseInvariant, TearDownInvariant DEF CaptureLost, RootDestroyed, Destroyed, CommandsMove

LEMMA PostedStep ==
  ASSUME MenuInvariant,
         forward_key \/ handle_owner_deactivate \/ \E pt \in Points : mouse_ll_proc(pt)
  PROVE  MenuInvariant' /\ CommandsMove
  BY PostInvariant DEF forward_key, handle_owner_deactivate, mouse_ll_proc, CommandsMove

LEMMA TakenInvariant ==
  ASSUME MenuInvariant, NEW message, Received(message), NEW st, SoundMenu(st),
         st.open = menu.open, KeepTaken(st), Others
  PROVE  MenuInvariant' /\ CommandsMove
  <1>1. /\ Keep(st) /\ timers' \subseteq {"open", "close"} /\ commands' = commands
        /\ posted # <<>> /\ posted' = Tail(posted)
    BY MenuParts DEF KeepTaken, Taken, Received
  <1>2. MenuInvariant'
    BY <1>1, KeepInvariant
  <1>3. QED
    BY <1>1, <1>2 DEF CommandsMove

LEMMA SelectSound ==
  ASSUME NEW st, SoundMenu(st)
  PROVE  /\ \A k \in 0..Len(st.sub) :
              /\ SoundMenu([st EXCEPT !.subSel = k, !.subHover = 0])
              /\ [st EXCEPT !.subSel = k, !.subHover = 0].open = st.open
         /\ \A k \in 0..Len(st.rows) :
              /\ SoundMenu([st EXCEPT !.sel = k, !.hover = 0])
              /\ [st EXCEPT !.sel = k, !.hover = 0].open = st.open
  <1>1. /\ st \in Menus /\ Len(st.rows) \in Nat /\ Len(st.sub) \in Nat
    BY LenProperties DEF SoundMenu, Menus
  <1>2. ASSUME NEW k \in 0..Len(st.sub), k \in Nat
        PROVE  /\ SoundMenu([st EXCEPT !.subSel = k, !.subHover = 0])
               /\ [st EXCEPT !.subSel = k, !.subHover = 0].open = st.open
    <2> DEFINE e == [st EXCEPT !.subSel = k, !.subHover = 0]
    <2>1. e \in Menus
      BY <1>1, <1>2 DEF Menus
    <2>2. /\ e.open = st.open /\ e.rows = st.rows /\ e.hover = st.hover /\ e.sel = st.sel
          /\ e.sub = st.sub /\ e.subHover = 0 /\ e.subSel = k
          /\ e.parent = st.parent /\ e.pending = st.pending
      BY <1>1 DEF Menus
    <2> HIDE DEF e
    <2>3. SoundMenu(e)
      BY <1>1, <2>1, <2>2 DEF SoundMenu, Inner
    <2>4. QED
      BY <2>2, <2>3 DEF e
  <1>3. ASSUME NEW k \in 0..Len(st.rows), k \in Nat
        PROVE  /\ SoundMenu([st EXCEPT !.sel = k, !.hover = 0])
               /\ [st EXCEPT !.sel = k, !.hover = 0].open = st.open
    <2> DEFINE e == [st EXCEPT !.sel = k, !.hover = 0]
    <2>1. e \in Menus
      BY <1>1, <1>3 DEF Menus
    <2>2. /\ e.open = st.open /\ e.rows = st.rows /\ e.hover = 0 /\ e.sel = k
          /\ e.sub = st.sub /\ e.subHover = st.subHover /\ e.subSel = st.subSel
          /\ e.parent = st.parent /\ e.pending = st.pending
      BY <1>1 DEF Menus
    <2> HIDE DEF e
    <2>3. SoundMenu(e)
      BY <1>1, <2>1, <2>2 DEF SoundMenu, Inner
    <2>4. QED
      BY <2>2, <2>3 DEF e
  <1>4. (\A k \in 0..Len(st.sub) : k \in Nat) /\ (\A k \in 0..Len(st.rows) : k \in Nat)
    BY <1>1
  <1>5. QED
    BY <1>2, <1>3, <1>4

LEMMA UpDownStep ==
  ASSUME MenuInvariant, NEW key, NEW dir \in {-1, 1}, UpDown(key, dir)
  PROVE  MenuInvariant' /\ CommandsMove
  <1> DEFINE a == step_selection(menu.sub, menu.subSel, dir)
             b == step_selection(menu.rows, menu.sel, dir)
             st == IF menu.sub # <<>> THEN [menu EXCEPT !.subSel = a, !.subHover = 0]
                   ELSE [menu EXCEPT !.sel = b, !.hover = 0]
  <1>1. a \in 0..Len(menu.sub) /\ b \in 0..Len(menu.rows)
    BY MenuParts, StepInRange
  <1>2. KeepTaken(st) /\ Received(key) /\ Others
    BY DEF UpDown
  <1> HIDE DEF a, b
  <1>3. SoundMenu(st) /\ st.open = menu.open
    BY <1>1, MenuParts, SelectSound
  <1> HIDE DEF st
  <1>4. QED
    BY <1>2, <1>3, TakenInvariant

LEMMA BackStep ==
  ASSUME MenuInvariant, MenuClose \/ Escape \/ Left
  PROVE  MenuInvariant' /\ CommandsMove
  <1>1. SoundMenu(close_submenu(menu)) /\ close_submenu(menu).open = menu.open
    BY MenuParts, WithoutSound DEF close_submenu
  <1>2. CASE MenuClose
    BY <1>2, CloseInvariant DEF MenuClose, CommandsMove
  <1>3. CASE Escape
    <2>1. CASE menu.sub # <<>>
      BY <1>1, <1>3, <2>1, TakenInvariant DEF Escape
    <2>2. CASE menu.sub = <<>>
      BY <1>3, <2>2, CloseInvariant DEF Escape, CommandsMove
    <2>3. QED
      BY <2>1, <2>2
  <1>4. CASE Left
    BY <1>1, <1>4, TakenInvariant DEF Left
  <1>5. QED
    BY <1>2, <1>3, <1>4

LEMMA RightStep ==
  ASSUME MenuInvariant, NEW created \in BOOLEAN, Right(created)
  PROVE  MenuInvariant' /\ CommandsMove
  <1> DEFINE opened == open_submenu(menu, menu.sel, TRUE, created)
             st == IF menu.sub = <<>> /\ menu.sel # 0 /\ HasSub(menu.rows[menu.sel])
                   THEN opened ELSE menu
  <1>1. SoundMenu(st) /\ st.open = menu.open
    <2>1. CASE menu.sel # 0
      <3>1. menu.sel \in 1..Len(menu.rows)
        BY <2>1, MenuParts
      <3>2. SoundMenu(opened) /\ opened.open = menu.open
        BY <3>1, MenuParts, OpenSubmenuSound
      <3> HIDE DEF opened
      <3>3. QED
        BY <3>2, MenuParts
    <2>2. CASE menu.sel = 0
      BY <2>2, MenuParts
    <2>3. QED
      BY <2>1, <2>2
  <1>2. KeepTaken(st) /\ Received("right") /\ Others
    BY DEF Right
  <1> HIDE DEF st
  <1>3. QED
    BY <1>1, <1>2, TakenInvariant

LEMMA EnterStep ==
  ASSUME MenuInvariant, NEW created \in BOOLEAN, Enter(created)
  PROVE  MenuInvariant' /\ CommandsMove
  <1>1. Received("enter") /\ menu.open /\ Others
    BY OpenIfReceived DEF Enter
  <1>2. CASE menu.sub # <<>> /\ menu.subSel # 0 /\ Command(menu.sub[menu.subSel])
    <2>1. menu.subSel \in 1..Len(menu.sub)
      BY <1>2, MenuParts
    <2>2. menu.sub[menu.subSel] \in Rows
      BY <2>1, MenuParts, ElementOfSeq, LeafIsRow
    <2>3. QED
      BY <1>1, <1>2, <2>2, CommandInvariant DEF CommandsMove
  <1>3. CASE menu.sel # 0 /\ Command(menu.rows[menu.sel])
    <2>1. menu.sel \in 1..Len(menu.rows)
      BY <1>3, MenuParts
    <2>2. menu.rows[menu.sel] \in Rows
      BY <2>1, MenuParts, ElementOfSeq
    <2>3. QED
      BY <1>1, <1>3, <2>2, CommandInvariant DEF CommandsMove
  <1>4. CASE menu.sel # 0 /\ KeepTaken(open_submenu(menu, menu.sel, TRUE, created))
    <2> DEFINE st == open_submenu(menu, menu.sel, TRUE, created)
    <2>1. menu.sel \in 1..Len(menu.rows)
      BY <1>4, MenuParts
    <2>2. SoundMenu(st) /\ st.open = menu.open
      BY <2>1, MenuParts, OpenSubmenuSound
    <2>3. KeepTaken(st)
      BY <1>4
    <2> HIDE DEF st
    <2>4. QED
      BY <1>1, <2>2, <2>3, TakenInvariant
  <1>5. CASE KeepTaken(menu)
    BY <1>1, <1>5, MenuParts, TakenInvariant
  <1>6. QED
    BY <1>2, <1>3, <1>4, <1>5 DEF Enter

-----------------------------------------------------------------------------
(* The monitor table *)

LEMMA SwitchTable ==
  ASSUME mons \in Tables, NEW m, NEW n PROVE SwitchSpace(m, n) \in Tables
  <1>1. CASE m \in DOMAIN mons /\ n \in 1..mons[m].spaces
    <2>1. /\ mons[m] \in Displays /\ n \in 1..MaxSpaces
      BY <1>1, DisplayOf
    <2>2. [mons[m] EXCEPT !.current = n] \in Displays
      BY <2>1 DEF Displays
    <2>3. SwitchSpace(m, n) = [mons EXCEPT ![m] = [mons[m] EXCEPT !.current = n]]
      BY <1>1 DEF SwitchSpace
    <2>4. QED
      BY <1>1, <2>2, <2>3, ExceptSeq, LenProperties DEF Tables
  <1>2. CASE ~(m \in DOMAIN mons /\ n \in 1..mons[m].spaces)
    BY <1>2 DEF SwitchSpace
  <1>3. QED
    BY <1>1, <1>2

LEMMA AddTable ==
  ASSUME mons \in Tables, NEW m PROVE AddSpace(m) \in Tables
  <1>1. CASE m \in DOMAIN mons /\ mons[m].spaces < MaxSpaces
    <2>1. mons[m] \in Displays /\ mons[m].spaces + 1 \in 1..MaxSpaces
      BY <1>1, DisplayOf
    <2>2. [mons[m] EXCEPT !.spaces = mons[m].spaces + 1] \in Displays
      BY <2>1 DEF Displays
    <2>3. AddSpace(m) = [mons EXCEPT ![m] = [mons[m] EXCEPT !.spaces = mons[m].spaces + 1]]
      BY <1>1 DEF AddSpace
    <2>4. QED
      BY <1>1, <2>2, <2>3, ExceptSeq, LenProperties DEF Tables
  <1>2. CASE ~(m \in DOMAIN mons /\ mons[m].spaces < MaxSpaces)
    BY <1>2 DEF AddSpace
  <1>3. QED
    BY <1>1, <1>2

LEMMA RemoveTable ==
  ASSUME mons \in Tables, NEW m PROVE RemoveLast(m) \in Tables
  <1>1. CASE m \in DOMAIN mons /\ mons[m].spaces > 1
    <2> DEFINE now == IF mons[m].current = mons[m].spaces THEN mons[m].current - 1
                      ELSE mons[m].current
    <2>1. mons[m].spaces - 1 \in 1..MaxSpaces /\ now \in 1..MaxSpaces
      BY <1>1, DisplayOf
    <2>2. RemoveLast(m) = [mons EXCEPT ![m] = [spaces |-> mons[m].spaces - 1, current |-> now]]
      BY <1>1 DEF RemoveLast
    <2> HIDE DEF now
    <2>3. [spaces |-> mons[m].spaces - 1, current |-> now] \in Displays
      BY <2>1 DEF Displays
    <2>4. QED
      BY <1>1, <2>2, <2>3, ExceptSeq, LenProperties DEF Tables
  <1>2. CASE ~(m \in DOMAIN mons /\ mons[m].spaces > 1)
    BY <1>2 DEF RemoveLast
  <1>3. QED
    BY <1>1, <1>2

LEMMA DecodedDoes ==
  ASSUME NEW id
  PROVE  decode_switch_command(id).does \in {"add", "remove", "switch"}
  BY Zenon DEF decode_switch_command

LEMMA CommandStep ==
  ASSUME MenuInvariant, on_command
  PROVE  MenuInvariant' /\ CommandsMove
  <1> DEFINE id == Head(commands).id
             d  == decode_switch_command(id)
  <1>1. mons \in Tables /\ commands \in Seq(Orders) /\ commands # <<>>
    BY DEF MenuInvariant, TypeOK, on_command
  <1>2. mons' \in Tables
    <2>1. \/ mons' = mons
          \/ mons' = AddSpace(d.mon) \/ mons' = RemoveLast(d.mon) \/ mons' = SwitchSpace(d.mon, d.n)
      BY Zenon, DecodedDoes DEF on_command
    <2>2. QED
      BY <1>1, <2>1, AddTable, RemoveTable, SwitchTable
  <1>3. commands' = Tail(commands)
    BY DEF on_command
  <1>4. /\ commands' \in Seq(Orders)
        /\ \A i \in DOMAIN commands' : i + 1 \in DOMAIN commands /\ commands'[i] = commands[i + 1]
    BY <1>1, <1>3, HeadTailProperties, LenProperties
  <1>5. TypeOK'
    BY <1>2, <1>4 DEF MenuInvariant, TypeOK, on_command
  <1>6. HooksFollowWindow' /\ QueueFollowsWindow' /\ CommandsAreEarlier'
    BY <1>4 DEF MenuInvariant, HooksFollowWindow, QueueFollowsWindow, CommandsAreEarlier,
                on_command
  <1>7. QED
    BY <1>5, <1>6 DEF MenuInvariant, CommandsMove

LEMMA WithoutOne ==
  ASSUME NEW S, NEW s \in Seq(S), NEW i \in 1..Len(s) PROVE RemoveAt(s, i) \in Seq(S)
  <1>1. SubSeq(s, 1, i - 1) \in Seq(S) /\ SubSeq(s, i + 1, Len(s)) \in Seq(S)
    BY SubSeqProperties
  <1>2. QED
    BY <1>1, ConcatProperties DEF RemoveAt

LEMMA TableStep ==
  ASSUME MenuInvariant, TableChanges
  PROVE  MenuInvariant' /\ CommandsMove
  <1>1. mons \in Tables /\ DOMAIN mons = 1..Len(mons)
    BY LenProperties DEF MenuInvariant, TypeOK, Tables
  <1>2. [spaces |-> 1, current |-> 1] \in Displays
    BY TrayMenuAssumption DEF Displays
  <1>3. mons' \in Tables
    <2>1. CASE \E m \in DOMAIN mons, n \in 1..MaxSpaces : mons' = SwitchSpace(m, n)
      BY <1>1, <2>1, SwitchTable
    <2>2. CASE \E m \in DOMAIN mons : mons' = AddSpace(m) \/ mons' = RemoveLast(m)
      BY <1>1, <2>2, AddTable, RemoveTable
    <2>3. CASE mons' = Append(mons, [spaces |-> 1, current |-> 1])
      BY <1>1, <1>2, <2>3, AppendProperties DEF Tables
    <2>4. CASE \E m \in DOMAIN mons : mons' = RemoveAt(mons, m)
      BY <1>1, <2>4, WithoutOne DEF Tables
    <2>5. QED
      BY <2>1, <2>2, <2>3, <2>4 DEF TableChanges
  <1>4. TypeOK'
    BY <1>3 DEF MenuInvariant, TypeOK, TableChanges
  <1>5. HooksFollowWindow' /\ QueueFollowsWindow' /\ CommandsAreEarlier'
    BY DEF MenuInvariant, HooksFollowWindow, QueueFollowsWindow, CommandsAreEarlier,
           TableChanges
  <1>6. QED
    BY <1>4, <1>5 DEF MenuInvariant, CommandsMove, TableChanges

LEMMA InitInvariant == Init => MenuInvariant
  <1> SUFFICES ASSUME Init PROVE MenuInvariant
    OBVIOUS
  <1>1. mons \in Tables
    <2> DEFINE first(m) == [spaces |-> 1 + (m % MaxSpaces), current |-> 1]
    <2>1. ASSUME NEW m \in 1..MaxDisplays PROVE first(m) \in Displays
      <3>1. MaxSpaces \in Nat \ {0} /\ m \in Int
        BY TrayMenuAssumption
      <3>2. m % MaxSpaces \in 0..(MaxSpaces - 1)
        BY <3>1
      <3>3. QED
        BY <3>1, <3>2 DEF Displays
    <2>2. mons = [m \in 1..MaxDisplays |-> first(m)] /\ MaxDisplays \in Nat
      BY TrayMenuAssumption DEF Init
    <2> HIDE DEF first
    <2>3. QED
      BY <2>1, <2>2, IsASeq DEF Tables
  <1>2. TypeOK
    BY <1>1, ClosedSound, EmptySeq, TrayMenuAssumption DEF TypeOK, Init
  <1>3. HooksFollowWindow /\ QueueFollowsWindow /\ CommandsAreEarlier
    BY ClosedSound, EmptySeq DEF HooksFollowWindow, QueueFollowsWindow, CommandsAreEarlier, Init
  <1>4. QED
    BY <1>2, <1>3 DEF MenuInvariant

\* One step, whoever takes it.
LEMMA Step ==
  MenuInvariant /\ [Next]_vars => MenuInvariant' /\ CommandsMove
  <1> SUFFICES ASSUME MenuInvariant, [Next]_vars PROVE MenuInvariant' /\ CommandsMove
    OBVIOUS
  <1>1. CASE \/ \E created, hooked \in BOOLEAN : Show(created, hooked)
             \/ \E created \in BOOLEAN : OpenTimer(created)
    BY <1>1, ShowStep, OpenTimerStep
  <1>2. CASE \E pt \in Points : \/ on_mouse_move(pt) \/ on_mouse_down(pt)
                              \/ on_mouse_up(pt) \/ CloseTimer(pt) \/ mouse_ll_proc(pt)
    BY <1>2, MouseMoveStep, MouseDownStep, MouseUpStep, CloseTimerStep, PostedStep
  <1>3. CASE CaptureLost \/ RootDestroyed
    BY <1>3, LostStep
  <1>4. CASE forward_key \/ handle_owner_deactivate
    BY <1>4, PostedStep
  <1>5. CASE Messages
    <2>1. CASE MenuClose \/ Escape \/ Left
      BY <2>1, BackStep
    <2>2. CASE UpDown("up", -1) \/ UpDown("down", 1)
      BY <2>2, UpDownStep
    <2>3. CASE \E created \in BOOLEAN : Right(created) \/ Enter(created)
      BY <2>3, RightStep, EnterStep
    <2>4. QED
      BY <1>5, <2>1, <2>2, <2>3 DEF Messages
  <1>6. CASE on_command
    BY <1>6, CommandStep
  <1>7. CASE TableChanges
    BY <1>7, TableStep
  <1>8. CASE UNCHANGED vars
    BY <1>8 DEF vars, MenuInvariant, TypeOK, HooksFollowWindow, QueueFollowsWindow,
                CommandsAreEarlier, CommandsMove
  <1>9. QED
    BY <1>1, <1>2, <1>3, <1>4, <1>5, <1>6, <1>7, <1>8 DEF Next

-----------------------------------------------------------------------------
\* The invariant, for every number of displays, spaces, messages and openings.
THEOREM MenuAlwaysSound == Spec => []MenuInvariant
  <1>1. Init => MenuInvariant
    BY InitInvariant
  <1>2. MenuInvariant /\ [Next]_vars => MenuInvariant'
    BY Step
  <1>3. QED
    BY <1>1, <1>2, PTL DEF Spec

\* The keyboard hook swallows input exactly while there is a window to give it
\* to, the mouse hook at most while there is one (WM_DESTROY of menu_wnd_proc,
\* close_menu).
THEOREM HooksFollowWindowCorrect == Spec => []HooksFollowWindow
  <1>1. MenuInvariant => HooksFollowWindow
    BY DEF MenuInvariant
  <1>2. QED
    BY <1>1, MenuAlwaysSound, PTL

\* Whatever order timers, clicks, keys and failed windows come in, the submenu
\* on screen is that of the row the state calls its parent (open_submenu).
THEOREM SubmenuIsParentsCorrect == Spec => []SubmenuIsParents
  <1>1. MenuInvariant => SubmenuIsParents
    BY DEF MenuInvariant, TypeOK, SoundMenu, Inner, SubmenuIsParents
  <1>2. QED
    BY <1>1, MenuAlwaysSound, PTL

\* One opening posts one command at most: what posts it closes the menu in the
\* same step, and the next opening has another number (on_mouse_up, Enter).
THEOREM OneCommandAnOpeningCorrect == Spec => OneCommandAnOpening
  <1> DEFINE Once == \A i \in DOMAIN commands :
                       Len(commands') > Len(commands) => Last(commands').of # commands[i].of
  <1>1. MenuInvariant /\ [Next]_vars => [Once]_vars
    <2> SUFFICES ASSUME MenuInvariant, [Next]_vars, NEW i \in DOMAIN commands,
                        Len(commands') > Len(commands)
                 PROVE  Last(commands').of # commands[i].of
      OBVIOUS
    <2>1. commands \in Seq(Orders) /\ Len(commands) \in Nat
      BY LenProperties DEF MenuInvariant, TypeOK
    <2>2. CommandsMove
      BY Step
    <2>3. ~on_command
      <3>1. commands # <<>> => Len(Tail(commands)) = Len(commands) - 1
        BY <2>1, HeadTailProperties
      <3>2. QED
        BY <2>1, <3>1 DEF on_command
    <2>4. PICK row \in Rows :
            commands' = Append(commands, [id |-> row.id, says |-> row.says, of |-> opening])
      BY <2>1, <2>2, <2>3 DEF CommandsMove, Ordered
    <2>5. menu.open
      BY <2>1, <2>2, <2>3 DEF CommandsMove, Ordered
    <2> DEFINE order == [id |-> row.id, says |-> row.says, of |-> opening]
    <2>6. order \in Orders /\ order.of = opening
      BY DEF Rows, Orders, MenuInvariant, TypeOK
    <2> HIDE DEF order
    <2>7. commands' = Append(commands, order)
      BY <2>4 DEF order
    <2>8. Last(commands') = order
      BY <2>1, <2>6, <2>7, AppendProperties DEF Last
    <2>9. commands[i].of # opening
      BY <2>5 DEF MenuInvariant, CommandsAreEarlier
    <2>10. QED
      BY <2>6, <2>8, <2>9
  <1>2. QED
    BY <1>1, MenuAlwaysSound, PTL DEF Spec, OneCommandAnOpening

\* What an order's id decodes to, and that no other id falls into the stride.
LEMMA OrderDecoded ==
  ASSUME NEW c \in Orders
  PROVE  \/ c.says.does \in {"open", "exit", "nothing"} /\ c.id < ID_TRAY_SWITCH_BASE
         \/ /\ c.id >= ID_TRAY_SWITCH_BASE
            /\ c.says.does \in {"switch", "add", "remove"} /\ c.says.mon # 0
            /\ decode_switch_command(c.id).does = c.says.does
            /\ decode_switch_command(c.id).mon = c.says.mon
            /\ c.says.does = "switch" => decode_switch_command(c.id).n = c.says.n
            /\ c.says.does \in {"switch", "add"} => c.says.n \in 1..MaxSpaces
            /\ c.says.does = "remove" => c.says.n \in 2..MaxSpaces
  <1> DEFINE says   == c.says
             offset == c.id - ID_TRAY_SWITCH_BASE
             does   == CASE offset % 100 = TRAY_OFFSET_ADD_SPACE    -> "add"
                         [] offset % 100 = TRAY_OFFSET_REMOVE_SPACE -> "remove"
                         [] OTHER                                   -> "switch"
  <1>1. /\ decode_switch_command(c.id).does = does
        /\ decode_switch_command(c.id).mon = (offset \div 100) + 1
        /\ decode_switch_command(c.id).n = (offset % 100) + 1
    BY Zenon DEF decode_switch_command
  <1>2. Carries(c.id, says)
    BY DEF Orders
  <1>3. /\ offset % 100 = 98 => does = "add"
        /\ offset % 100 = 99 => does = "remove"
        /\ offset % 100 # 98 /\ offset % 100 # 99 => does = "switch"
    <2>1. 98 # 99
      OBVIOUS
    <2>2. QED
      BY Zenon, <2>1 DEF TRAY_OFFSET_ADD_SPACE, TRAY_OFFSET_REMOVE_SPACE
  <1>4. MaxSpaces \in 1..9
    BY TrayMenuAssumption
  <1>5. ASSUME NEW m \in Nat \ {0}, NEW k \in 0..99, c.id = StrideId(m, k)
        PROVE  c.id >= ID_TRAY_SWITCH_BASE /\ offset % 100 = k /\ (offset \div 100) + 1 = m
    <2>1. /\ c.id >= ID_TRAY_SWITCH_BASE /\ offset \div 100 = m - 1 /\ offset % 100 = k
      BY <1>5, StrideDecoded
    <2>2. QED
      BY <2>1
  <1> HIDE DEF does, offset, says
  <1>6. CASE says.does = "switch" /\ says.mon \in Nat \ {0} /\ says.n \in 1..MaxSpaces
             /\ c.id = StrideId(says.mon, says.n - 1)
    <2>1. says.n - 1 \in 0..8 /\ says.n - 1 \in 0..99 /\ says.n \in Nat
      BY <1>4, <1>6
    <2>2. c.id >= ID_TRAY_SWITCH_BASE /\ offset % 100 = says.n - 1
          /\ (offset \div 100) + 1 = says.mon
      BY <1>5, <1>6, <2>1
    <2>3. does = "switch"
      BY <1>3, <2>1, <2>2
    <2>4. QED
      BY <1>1, <1>6, <2>1, <2>2, <2>3 DEF says
  <1>7. CASE says.does = "add" /\ says.mon \in Nat \ {0} /\ says.n \in 1..MaxSpaces
             /\ c.id = StrideId(says.mon, TRAY_OFFSET_ADD_SPACE)
    <2>1. c.id >= ID_TRAY_SWITCH_BASE /\ offset % 100 = 98 /\ (offset \div 100) + 1 = says.mon
      BY <1>5, <1>7 DEF TRAY_OFFSET_ADD_SPACE
    <2>2. QED
      BY <1>1, <1>3, <1>7, <2>1 DEF says
  <1>8. CASE says.does = "remove" /\ says.mon \in Nat \ {0} /\ says.n \in 2..MaxSpaces
             /\ c.id = StrideId(says.mon, TRAY_OFFSET_REMOVE_SPACE)
    <2>1. c.id >= ID_TRAY_SWITCH_BASE /\ offset % 100 = 99 /\ (offset \div 100) + 1 = says.mon
      BY <1>5, <1>8 DEF TRAY_OFFSET_REMOVE_SPACE
    <2>2. QED
      BY <1>1, <1>3, <1>8, <2>1 DEF says
  <1>9. CASE says.does \in {"open", "exit", "nothing"} /\ c.id < ID_TRAY_SWITCH_BASE
    BY <1>9 DEF says
  <1>10. QED
    BY <1>2, <1>6, <1>7, <1>8, <1>9 DEF Carries

LEMMA TailIsAnother ==
  ASSUME NEW S, NEW s \in Seq(S), s # <<>> PROVE Tail(s) # s
  <1>1. Len(Tail(s)) = Len(s) - 1 /\ Len(s) \in Nat
    BY HeadTailProperties, LenProperties
  <1>2. \A n \in Nat : n - 1 # n
    OBVIOUS
  <1>3. QED
    BY Zenon, <1>1, <1>2

\* What on_command does with the first command.
LEMMA CommandDoes ==
  ASSUME on_command, NEW c, c = Head(commands)
  PROVE  /\ c.id < ID_TRAY_SWITCH_BASE => mons' = mons
         /\ ~(c.id < ID_TRAY_SWITCH_BASE) =>
              LET d == decode_switch_command(c.id) IN
              /\ d.does = "add"    => mons' = AddSpace(d.mon)
              /\ d.does = "remove" => mons' = RemoveLast(d.mon)
              /\ d.does = "switch" => mons' = SwitchSpace(d.mon, d.n)
  <1>1. "add" # "remove" /\ "add" # "switch" /\ "remove" # "switch"
    OBVIOUS
  <1>2. QED
    BY Zenon, <1>1 DEF on_command

\* A command does to the table what the row it came from told the user, however
\* the table changed while the menu was open, unless the display or the space
\* it is about is gone or numbered otherwise (decode_switch_command).
THEOREM CommandsDoAsRowsSayCorrect == Spec => CommandsDoAsRowsSay
  <1> DEFINE Stale(says) ==
               \/ says.mon # 0 /\ says.mon \notin DOMAIN mons
               \/ says.does = "switch" /\ says.n > mons[says.mon].spaces
               \/ says.does = "add"    /\ says.n # mons[says.mon].spaces + 1
               \/ says.does = "remove" /\ says.n # mons[says.mon].spaces
             Does ==
               \A c \in {commands[i] : i \in DOMAIN commands} :
                 commands # <<>> /\ c = Head(commands) /\ commands' = Tail(commands)
                   => LET says == c.says IN
                      \/ says.mon # 0 /\ says.mon \notin DOMAIN mons
                      \/ says.does = "switch" /\ says.n > mons[says.mon].spaces
                      \/ says.does = "add"    /\ says.n # mons[says.mon].spaces + 1
                      \/ says.does = "remove" /\ says.n # mons[says.mon].spaces
                      \/ mons' = Done(says)
  <1>1. MenuInvariant /\ [Next]_vars => [Does]_vars
    <2> SUFFICES ASSUME MenuInvariant, [Next]_vars, commands # <<>>,
                        commands' = Tail(commands), NEW c, c = Head(commands), ~Stale(c.says)
                 PROVE  mons' = Done(c.says)
      OBVIOUS
    <2> DEFINE says == c.says
               d    == decode_switch_command(c.id)
    <2>1. commands \in Seq(Orders) /\ mons \in Tables /\ Len(commands) \in Nat
      BY LenProperties DEF MenuInvariant, TypeOK
    <2>2. on_command
      <3>1. CommandsMove /\ Len(Tail(commands)) = Len(commands) - 1
        BY <2>1, Step, HeadTailProperties
      <3>2. ASSUME Ordered PROVE FALSE
        <4>1. PICK row \in Rows :
                commands' = Append(commands, [id |-> row.id, says |-> row.says, of |-> opening])
          BY <3>2 DEF Ordered
        <4>2. [id |-> row.id, says |-> row.says, of |-> opening] \in Orders
          BY DEF Rows, Orders, MenuInvariant, TypeOK
        <4>3. Len(commands') = Len(commands) + 1
          BY <2>1, <4>1, <4>2, AppendProperties
        <4>4. QED
          BY <2>1, <3>1, <4>3
      <3>3. commands' # commands
        BY <2>1, TailIsAnother
      <3>4. QED
        BY <3>1, <3>2, <3>3 DEF CommandsMove
    <2>3. c \in Orders
      BY <2>1, HeadTailProperties
    <2>4. CASE says.does \in {"open", "exit", "nothing"} /\ c.id < ID_TRAY_SWITCH_BASE
      <3>1. says.does # "switch" /\ says.does # "add" /\ says.does # "remove"
        BY <2>4
      <3>2. Done(says) = mons
        BY Zenon, <3>1 DEF Done
      <3>3. mons' = mons
        BY <2>2, <2>4, CommandDoes
      <3>4. QED
        BY <3>2, <3>3
    <2>5. CASE /\ ~(c.id < ID_TRAY_SWITCH_BASE)
               /\ d.mon = says.mon /\ d.does = says.does /\ says.mon \in DOMAIN mons
      <3>1. mons[says.mon] \in Displays /\ mons[says.mon].spaces \in 1..MaxSpaces
        BY <2>1, <2>5, DisplayOf
      <3>2. CASE says.does = "switch" /\ d.n = says.n /\ says.n \in 1..MaxSpaces
        <4>1. mons' = SwitchSpace(says.mon, says.n)
          BY <2>2, <2>5, <3>2, CommandDoes
        <4>2. says.n \in 1..mons[says.mon].spaces
          BY <3>1, <3>2, TrayMenuAssumption
        <4>3. Done(says) = [mons EXCEPT ![says.mon].current = says.n]
          BY Zenon, <3>2 DEF Done
        <4>4. QED
          BY <2>5, <4>1, <4>2, <4>3 DEF SwitchSpace
      <3>3. CASE says.does = "add" /\ says.n \in 1..MaxSpaces
        <4>1. mons' = AddSpace(says.mon)
          BY <2>2, <2>5, <3>3, CommandDoes
        <4>2. says.n = mons[says.mon].spaces + 1 /\ mons[says.mon].spaces < MaxSpaces
          BY <3>1, <3>3, TrayMenuAssumption
        <4>3. Done(says) = [mons EXCEPT ![says.mon].spaces = says.n]
          <5>1. says.does # "switch"
            BY <3>3
          <5>2. QED
            BY Zenon, <3>3, <5>1 DEF Done
        <4>4. QED
          BY <2>5, <4>1, <4>2, <4>3 DEF AddSpace
      <3>4. CASE says.does = "remove" /\ says.n \in 2..MaxSpaces
        <4> DEFINE m   == says.mon
                   now == IF mons[m].current = mons[m].spaces THEN mons[m].current - 1
                          ELSE mons[m].current
        <4>1. mons' = RemoveLast(m)
          BY <2>2, <2>5, <3>4, CommandDoes
        <4>2. says.n = mons[m].spaces /\ mons[m].spaces > 1
          BY <3>1, <3>4, TrayMenuAssumption
        <4>3. Done(says) = [mons EXCEPT ![m] = [spaces  |-> says.n - 1,
                                                current |-> IF @.current = says.n THEN says.n - 1
                                                            ELSE @.current]]
          <5>1. says.does # "switch" /\ says.does # "add"
            BY <3>4
          <5>2. QED
            BY Zenon, <3>4, <5>1 DEF Done
        <4>4. mons' = [mons EXCEPT ![m] = [spaces |-> mons[m].spaces - 1, current |-> now]]
          BY <2>5, <4>1, <4>2 DEF RemoveLast
        <4>5. now = IF mons[m].current = says.n THEN says.n - 1 ELSE mons[m].current
          BY <4>2
        <4> HIDE DEF now, m, says
        <4>6. QED
          BY <4>2, <4>3, <4>4, <4>5 DEF says
      <3>5. QED
        BY <2>3, <2>5, <3>2, <3>3, <3>4, OrderDecoded
    <2>6. \/ says.does \in {"open", "exit", "nothing"} /\ c.id < ID_TRAY_SWITCH_BASE
          \/ /\ ~(c.id < ID_TRAY_SWITCH_BASE)
             /\ d.mon = says.mon /\ d.does = says.does /\ says.mon \in DOMAIN mons
      <3>1. c.id \in Nat /\ ID_TRAY_SWITCH_BASE \in Nat
        BY <2>3 DEF Orders, ID_TRAY_SWITCH_BASE
      <3>2. says.mon # 0 => says.mon \in DOMAIN mons
        OBVIOUS
      <3>3. c.id >= ID_TRAY_SWITCH_BASE => ~(c.id < ID_TRAY_SWITCH_BASE)
        BY <3>1
      <3>4. QED
        BY <2>3, <3>2, <3>3, OrderDecoded
    <2>7. QED
      BY <2>4, <2>5, <2>6
  <1>2. QED
    BY <1>1, MenuAlwaysSound, PTL DEF Spec, CommandsDoAsRowsSay
=============================================================================
