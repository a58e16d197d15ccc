------------------------- MODULE TrayMenuProperties -------------------------
(***************************************************************************)
(* What the tray menu promises, about the specification of TrayMenu.       *)
(***************************************************************************)
EXTENDS TrayMenu

\* The keyboard hook swallows Space, Enter and the arrows while the state says
\* the menu is open, and the mouse hook every press outside it.  Neither is
\* ever on without a window to give the input to, whatever closed it
\* (WM_DESTROY of menu_wnd_proc); the mouse hook may be off with one, when it
\* could not be installed.
HooksFollowWindow == (menu.open <=> window) /\ (hook => window)

\* The submenu on screen is the one of the row the state calls its parent, so
\* moving onto another row or back opens the right one, also when a window
\* could not be created on the way (open_submenu, close_submenu).
SubmenuIsParents ==
    IF menu.parent = 0 THEN menu.sub = <<>>
    ELSE menu.sub # <<>> /\ menu.sub = menu.rows[menu.parent].sub

\* One opening of the menu runs at most one command, however many clicks and
\* keys were on their way to it.
OneCommandAnOpening ==
    [][\A i \in DOMAIN commands :
         Len(commands') > Len(commands) => Last(commands').of # commands[i].of]_vars

\* The table after doing what a row says, when the table is still the one the
\* row was built from: display and space are there under the same numbers.
Done(says) ==
    CASE says.does = "switch" -> [mons EXCEPT ![says.mon].current = says.n]
      [] says.does = "add"    -> [mons EXCEPT ![says.mon].spaces = says.n]
      [] says.does = "remove" ->
             [mons EXCEPT ![says.mon] = [spaces  |-> says.n - 1,
                                         current |-> IF @.current = says.n THEN says.n - 1
                                                     ELSE @.current]]
      [] OTHER                -> mons

\* A command does to the table what its row told the user, through the id it
\* travels as, unless the row of spaces it is about was renumbered since.
CommandsDoAsRowsSay ==
    [][\A c \in {commands[i] : i \in DOMAIN commands} :
         commands # <<>> /\ c = Head(commands) /\ commands' = Tail(commands)
           => LET says == c.says IN
              \/ says.mon # 0 /\ says.mon \notin DOMAIN mons
              \/ says.does = "switch" /\ says.n > mons[says.mon].spaces
              \/ says.does = "add"    /\ says.n # mons[says.mon].spaces + 1
              \/ says.does = "remove" /\ says.n # mons[says.mon].spaces
              \/ mons' = Done(says)]_vars
=============================================================================
