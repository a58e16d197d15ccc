------------------------------ MODULE TrayMenu ------------------------------
(***************************************************************************)
(* The tray menu: the rows built from the monitor table when it opens      *)
(* (tray_menu.rs), the state machine of its two windows, its timers, its   *)
(* mouse hook and the keys the keyboard hook forwards to it                *)
(* (winspaces-ui, menu), and the command it posts to the daemon's window,  *)
(* which decodes the id against whatever the table is by then              *)
(* (handlers/commands.rs).                                                 *)
(*                                                                         *)
(* The handlers read the cursor when they run, not where the event was:    *)
(* the point is an input of the handler.  The root window is a column of   *)
(* rows, the submenu another beside it.  Rows count from 1, 0 is None.     *)
(***************************************************************************)
EXTENDS Integers, Sequences, SequencesExt

CONSTANTS
    MaxDisplays,  \* bound: displays in the monitor table
    MaxSpaces,    \* MAX_SPACES
    MaxPosted,    \* bound: messages waiting for the menu
    MaxOpenings,  \* bound: times the menu is opened, commands waiting
    Budget        \* bound: changes of the table behind the menu's back

ASSUME TrayMenuAssumption ==
    /\ MaxDisplays \in Nat \ {0} /\ MaxSpaces \in 1 .. 9
    /\ MaxPosted \in Nat /\ MaxOpenings \in Nat /\ Budget \in Nat

VARIABLES
    mons,      \* the monitor table
    menu,      \* MENU_STATE
    window,    \* the root window exists
    hook,      \* the low-level mouse hook is installed
    timers,    \* TIMER_OPEN_SUB and TIMER_CLOSE_SUB, where armed
    posted,    \* messages posted to the root window
    commands,  \* WM_COMMANDs posted to the owner, with the row that posted them
    running,   \* the daemon has not quit
    opening,   \* which opening of the menu this is
    acts       \* what is left of Budget

vars == <<mons, menu, window, hook, timers, posted, commands, running, opening, acts>>

-----------------------------------------------------------------------------
\* The rows.

ID_TRAY_EXIT             == 1002
ID_TRAY_SWITCH_BASE      == 2000
TRAY_OFFSET_ADD_SPACE    == 98
TRAY_OFFSET_REMOVE_SPACE == 99

\* What a row tells the user it does: switch display m to space n, add a
\* space to m, remove space n of m.
Says(does, m, n) == [does |-> does, mon |-> m, n |-> n]

Row(id, says) == [id |-> id, says |-> says, item |-> TRUE, sub |-> <<>>]
Blank         == [Row(0, Says("nothing", 0, 0)) EXCEPT !.item = FALSE]

\* Displays and spaces count from 0 in an id.
StrideId(m, offset) == ID_TRAY_SWITCH_BASE + (m - 1) * 100 + offset

SpaceRows(m) ==
    LET count == mons[m].spaces
        row(offset, does, n) == Row(StrideId(m, offset), Says(does, m, n))
    IN  [s \in 1 .. count |-> row(s - 1, "switch", s)]
        \o <<Blank>>
        \o (IF count < MaxSpaces THEN <<row(TRAY_OFFSET_ADD_SPACE, "add", count + 1)>> ELSE <<>>)
        \o (IF count > 1 THEN <<row(TRAY_OFFSET_REMOVE_SPACE, "remove", count)>> ELSE <<>>)

\* Header, a row for each display, Exit; the other rows are plain like Exit, and
\* what they ask for is not held here.
build_menu_entries ==
    <<Blank>>
    \o [m \in DOMAIN mons |->
            [Row(0, Says("open", m, mons[m].current)) EXCEPT !.sub = SpaceRows(m)]]
    \o <<Row(ID_TRAY_EXIT, Says("exit", 0, 0))>>

HasSub(row) == row.sub # <<>>

-----------------------------------------------------------------------------
\* The state of the menu and where a point falls.

Closed == [open |-> FALSE, rows |-> <<>>, hover |-> 0, sel |-> 0,
           sub |-> <<>>, subHover |-> 0, subSel |-> 0, parent |-> 0, pending |-> 0]

Points == ({"root"} \X (1 .. MaxDisplays + 2)) \cup ({"sub"} \X (1 .. MaxSpaces + 2))
          \cup {<<"outside", 0>>}

\* The row the point is over: 0 between rows, the window it is in or outside.
hit_test(pt) ==
    LET over(rows) == IF rows[pt[2]].item THEN pt[2] ELSE 0
    IN  CASE pt[1] = "sub"  /\ pt[2] \in DOMAIN menu.sub  -> <<"sub", over(menu.sub)>>
          [] pt[1] = "root" /\ pt[2] \in DOMAIN menu.rows -> <<"root", over(menu.rows)>>
          [] OTHER                                        -> <<"outside", 0>>

\* The next selectable row in a direction, around the ends.
step_selection(rows, current, dir) ==
    LET n     == Len(rows)
        start == IF current # 0 THEN current ELSE IF dir > 0 THEN 0 ELSE n + 1
        at(k) == 1 + ((start - 1 + k * dir) % n)
        found == {k \in 1 .. n : rows[at(k)].item}
    IN  IF found = {} THEN 0
        ELSE at(CHOOSE k \in found : \A j \in found : k <= j)

Without(st) == [st EXCEPT !.sub = <<>>, !.subHover = 0, !.subSel = 0, !.parent = 0]

\* Faulty variant: a failed submenu leaves the old parent.
open_submenuKeepingParent(st, i, keyboard, created) ==
    IF ~created THEN [Without(st) EXCEPT !.parent = st.parent]
    ELSE [st EXCEPT !.sub = st.rows[i].sub, !.parent = i, !.pending = 0, !.subHover = 0,
                    !.subSel = IF keyboard THEN step_selection(st.rows[i].sub, 0, 1) ELSE 0]

\* A submenu whose window cannot be created leaves none open.
open_submenu(st, i, keyboard, created) ==
    IF ~HasSub(st.rows[i]) \/ ~created THEN Without(st)
    ELSE LET rows == st.rows[i].sub
         IN  [st EXCEPT !.sub = rows, !.parent = i, !.pending = 0, !.subHover = 0,
                        !.subSel = IF keyboard THEN step_selection(rows, 0, 1) ELSE 0]

close_submenu(st) == Without(st)

-----------------------------------------------------------------------------
\* What a handler does besides the menu's own state.

TearDown ==
    /\ menu' = Closed
    /\ window' = FALSE
    /\ hook' = FALSE
    /\ timers' = {}
    /\ posted' = <<>>    \* the queue goes with the window

close_menu == IF menu.open THEN TearDown ELSE UNCHANGED <<menu, window, hook, timers, posted>>

Keep(st) == menu' = st /\ UNCHANGED <<window, hook>>

\* Faulty variant: the menu stays open for the next command.
CommandStaysOpen(row) ==
    /\ Len(commands) < MaxOpenings
    /\ commands' = Append(commands, [id |-> row.id, says |-> row.says, of |-> opening])
    /\ UNCHANGED <<menu, window, hook, timers>>
    /\ posted' = IF posted = <<>> THEN posted ELSE Tail(posted)

\* A row that posts a command closes the menu.
Command(row) ==
    /\ Len(commands) < MaxOpenings
    /\ commands' = Append(commands, [id |-> row.id, says |-> row.says, of |-> opening])
    /\ close_menu

Others == UNCHANGED <<mons, running, opening, acts>>

-----------------------------------------------------------------------------
\* The menu's windows.

\* A right click on the tray icon.  An open menu is closed first; when the
\* window cannot be created there is none, when the hook cannot be installed
\* the menu does without.  That the state is borrowed, and the rows those of a
\* default table, is left out.
Show(created, hooked) ==
    /\ running
    /\ opening < MaxOpenings
    /\ opening' = opening + 1
    /\ menu' = IF created THEN [Closed EXCEPT !.open = TRUE, !.rows = build_menu_entries]
               ELSE Closed
    /\ window' = created
    /\ hook' = (created /\ hooked)
    /\ timers' = {}
    /\ posted' = <<>>
    /\ UNCHANGED <<mons, commands, running, acts>>

Hovered(hit) ==
    LET root == IF hit[1] = "root" THEN hit[2] ELSE 0
        sub  == IF hit[1] = "sub" THEN hit[2] ELSE 0
        st   == IF root = menu.hover THEN menu ELSE [menu EXCEPT !.hover = root, !.sel = 0]
    IN  IF st.sub = <<>> \/ sub = st.subHover THEN st
        ELSE [st EXCEPT !.subHover = sub, !.subSel = 0]

OverParent(i) ==
    IF menu.parent = i
    THEN Keep(Hovered(<<"root", i>>)) /\ timers' = timers \ {"close"}
    ELSE IF menu.pending = i
    THEN Keep(Hovered(<<"root", i>>)) /\ UNCHANGED timers
    ELSE Keep([Hovered(<<"root", i>>) EXCEPT !.pending = i]) /\ timers' = timers \cup {"open"}

OverPlain(i) ==
    /\ Keep([Hovered(<<"root", i>>) EXCEPT !.pending = 0])
    /\ timers' = (timers \ {"open"}) \cup (IF menu.sub # <<>> THEN {"close"} ELSE {})

on_mouse_move(pt) ==
    LET hit == hit_test(pt) IN
    /\ window /\ menu.open
    /\ \/ hit[1] = "root" /\ hit[2] # 0 /\ HasSub(menu.rows[hit[2]]) /\ OverParent(hit[2])
       \/ hit[1] = "root" /\ hit[2] # 0 /\ ~HasSub(menu.rows[hit[2]]) /\ OverPlain(hit[2])
       \/ hit[1] = "sub" /\ Keep([Hovered(hit) EXCEPT !.pending = 0]) /\ timers' = {}
       \/ (hit[1] = "outside" \/ hit = <<"root", 0>>) /\ Keep(Hovered(hit)) /\ UNCHANGED timers
    /\ UNCHANGED <<posted, commands>> /\ Others

\* WM_LBUTTONDOWN reaches the root when the hook has let the press through.
on_mouse_down(pt) ==
    /\ window /\ menu.open
    /\ hit_test(pt)[1] = "outside"
    /\ close_menu
    /\ UNCHANGED commands /\ Others

\* A release over a row that has no submenu posts its command; one over a row
\* that has opens it, unless it is the one open.
on_mouse_up(pt) ==
    LET hit == hit_test(pt)
        row == IF hit[1] = "root" THEN menu.rows[hit[2]] ELSE menu.sub[hit[2]]
    IN
    /\ window /\ menu.open
    /\ hit[2] # 0
    /\ \/ /\ ~HasSub(row)
          /\ Command(row)
       \/ /\ HasSub(row)
          /\ menu.parent # hit[2]
          /\ \E created \in BOOLEAN : Keep(open_submenu(menu, hit[2], FALSE, created))
          /\ UNCHANGED <<timers, posted, commands>>
    /\ Others

OpenTimer(created) ==
    LET st == [menu EXCEPT !.pending = 0] IN
    /\ "open" \in timers
    /\ timers' = timers \ {"open"}
    /\ Keep(IF menu.pending # 0 /\ menu.hover = menu.pending
            THEN open_submenu(st, menu.pending, FALSE, created) ELSE st)
    /\ UNCHANGED <<posted, commands>> /\ Others

CloseTimer(pt) ==
    /\ "close" \in timers
    /\ timers' = timers \ {"close"}
    /\ Keep(IF hit_test(pt)[1] = "sub" THEN menu ELSE close_submenu(menu))
    /\ UNCHANGED <<posted, commands>> /\ Others

\* The capture is taken by another window, or the root is destroyed from
\* outside: both tear the menu down.
CaptureLost ==
    /\ window /\ menu.open
    /\ close_menu
    /\ UNCHANGED commands /\ Others

\* Faulty variant: the state and the hooks are left as they were.
DestroyedQuietly ==
    /\ window' = FALSE /\ posted' = <<>> /\ timers' = {}
    /\ UNCHANGED <<menu, hook>>

Destroyed == TearDown

RootDestroyed ==
    /\ window
    /\ Destroyed
    /\ UNCHANGED commands /\ Others

-----------------------------------------------------------------------------
\* Messages posted to the root.

NavigationKeys == {"esc", "up", "down", "left", "right", "enter"}

Post(message) ==
    /\ Len(posted) < MaxPosted
    /\ posted' = IF window THEN Append(posted, message) ELSE posted
    /\ UNCHANGED <<mons, menu, window, hook, timers, commands, running, opening, acts>>

\* While the menu is open the keyboard hook swallows the navigation keys; Win
\* and Alt dismiss the menu.
forward_key == menu.open /\ \E key \in NavigationKeys \cup {"close"} : Post(key)

\* A press outside both windows is swallowed by the mouse hook.
mouse_ll_proc(pt) == hook /\ menu.open /\ hit_test(pt)[1] = "outside" /\ Post("close")

handle_owner_deactivate == menu.open /\ Post("close")

Received(message) ==
    /\ posted # <<>>
    /\ Head(posted) = message

Taken == posted' = Tail(posted)

\* WM_MENU_CLOSE.
MenuClose ==
    /\ Received("close")
    /\ close_menu
    /\ UNCHANGED commands /\ Others

KeepTaken(st) == Keep(st) /\ Taken /\ UNCHANGED <<timers, commands>>

Escape ==
    /\ Received("esc")
    /\ IF menu.sub # <<>> THEN KeepTaken(close_submenu(menu))
       ELSE close_menu /\ UNCHANGED commands
    /\ Others

UpDown(key, dir) ==
    /\ Received(key)
    /\ KeepTaken(IF menu.sub # <<>>
                 THEN [menu EXCEPT !.subSel = step_selection(menu.sub, @, dir), !.subHover = 0]
                 ELSE [menu EXCEPT !.sel = step_selection(menu.rows, @, dir), !.hover = 0])
    /\ Others

Left ==
    /\ Received("left")
    /\ KeepTaken(close_submenu(menu))
    /\ Others

Right(created) ==
    /\ Received("right")
    /\ KeepTaken(IF menu.sub = <<>> /\ menu.sel # 0 /\ HasSub(menu.rows[menu.sel])
                 THEN open_submenu(menu, menu.sel, TRUE, created) ELSE menu)
    /\ Others

\* The keys act on the selection, never on what the pointer is over.
Enter(created) ==
    /\ Received("enter")
    /\ \/ /\ menu.sub # <<>> /\ menu.subSel # 0
          /\ Command(menu.sub[menu.subSel])
       \/ /\ menu.sub = <<>> /\ menu.sel # 0 /\ ~HasSub(menu.rows[menu.sel])
          /\ Command(menu.rows[menu.sel])
       \/ /\ menu.sub = <<>> /\ menu.sel # 0 /\ HasSub(menu.rows[menu.sel])
          /\ KeepTaken(open_submenu(menu, menu.sel, TRUE, created))
       \/ /\ IF menu.sub # <<>> THEN menu.subSel = 0 ELSE menu.sel = 0
          /\ KeepTaken(menu)
    /\ Others

-----------------------------------------------------------------------------
\* The daemon.

\* Faulty variant: the first display is taken for number 0.
decode_switch_commandOffByOne(id) ==
    LET offset == id - ID_TRAY_SWITCH_BASE
        does   == CASE offset % 100 = TRAY_OFFSET_ADD_SPACE    -> "add"
                    [] offset % 100 = TRAY_OFFSET_REMOVE_SPACE -> "remove"
                    [] OTHER                                   -> "switch"
    IN  [does |-> does, mon |-> offset \div 100, n |-> (offset % 100) + 1]

decode_switch_command(id) ==
    LET offset == id - ID_TRAY_SWITCH_BASE
        does   == CASE offset % 100 = TRAY_OFFSET_ADD_SPACE    -> "add"
                    [] offset % 100 = TRAY_OFFSET_REMOVE_SPACE -> "remove"
                    [] OTHER                                   -> "switch"
    IN  [does |-> does, mon |-> (offset \div 100) + 1, n |-> (offset % 100) + 1]

SwitchSpace(m, n) ==
    IF m \in DOMAIN mons /\ n \in 1 .. mons[m].spaces THEN [mons EXCEPT ![m].current = n] ELSE mons

AddSpace(m) ==
    IF m \in DOMAIN mons /\ mons[m].spaces < MaxSpaces THEN [mons EXCEPT ![m].spaces = @ + 1]
    ELSE mons

\* The last space, whatever the row was called; a display left on it moves to
\* its left.
RemoveLast(m) ==
    IF m \in DOMAIN mons /\ mons[m].spaces > 1
    THEN [mons EXCEPT ![m] = [spaces  |-> @.spaces - 1,
                              current |-> IF @.current = @.spaces THEN @.current - 1
                                          ELSE @.current]]
    ELSE mons

on_command ==
    LET id == Head(commands).id
        d  == decode_switch_command(id)
    IN
    /\ running /\ commands # <<>>
    /\ commands' = Tail(commands)
    /\ running' = (id # ID_TRAY_EXIT)
    /\ mons' = IF id < ID_TRAY_SWITCH_BASE THEN mons
               ELSE CASE d.does = "add"    -> AddSpace(d.mon)
                      [] d.does = "remove" -> RemoveLast(d.mon)
                      [] d.does = "switch" -> SwitchSpace(d.mon, d.n)
    /\ UNCHANGED <<menu, window, hook, timers, posted, opening, acts>>

\* Hotkeys and Overview switch, add and remove; displays come and go.
TableChanges ==
    /\ running /\ acts > 0
    /\ acts' = acts - 1
    /\ mons' \in {SwitchSpace(m, n) : m \in DOMAIN mons, n \in 1 .. MaxSpaces}
                   \cup {AddSpace(m) : m \in DOMAIN mons}
                   \cup {RemoveLast(m) : m \in DOMAIN mons}
                   \cup {Append(mons, [spaces |-> 1, current |-> 1])}
                   \cup {RemoveAt(mons, m) : m \in DOMAIN mons}
    /\ mons' # mons /\ Len(mons') \in 1 .. MaxDisplays
    /\ UNCHANGED <<menu, window, hook, timers, posted, commands, running, opening>>

-----------------------------------------------------------------------------
Init ==
    /\ mons = [m \in 1 .. MaxDisplays |-> [spaces |-> 1 + (m % MaxSpaces), current |-> 1]]
    /\ menu = Closed
    /\ window = FALSE /\ hook = FALSE
    /\ timers = {}
    /\ posted = <<>> /\ commands = <<>>
    /\ running = TRUE
    /\ opening = 0
    /\ acts = Budget

Messages ==
    \/ MenuClose \/ Escape \/ UpDown("up", -1) \/ UpDown("down", 1) \/ Left
    \/ \E created \in BOOLEAN : Right(created) \/ Enter(created)

Next ==
    \/ \E created, hooked \in BOOLEAN : Show(created, hooked)
    \/ \E created \in BOOLEAN : OpenTimer(created)
    \/ \E pt \in Points : \/ on_mouse_move(pt) \/ on_mouse_down(pt)
                          \/ on_mouse_up(pt) \/ CloseTimer(pt) \/ mouse_ll_proc(pt)
    \/ CaptureLost \/ RootDestroyed
    \/ forward_key \/ handle_owner_deactivate
    \/ Messages
    \/ on_command \/ TableChanges

Spec == Init /\ [][Next]_vars
=============================================================================
