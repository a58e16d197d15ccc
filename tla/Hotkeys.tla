------------------------------ MODULE Hotkeys ------------------------------
(***************************************************************************)
(* The identifiers of the global hotkeys and what the daemon asks of       *)
(* RegisterHotKey (winspaces-core hotkeys.rs).  The identifiers are        *)
(* partitioned by the compile-time MaxSpaces: one block switches to a      *)
(* space, one moves the window to a space, the rest are the specials, of   *)
(* which the first two, exit and toggle, have fixed keys.                  *)
(***************************************************************************)
EXTENDS Integers, Sequences, SequencesExt, Functions

CONSTANTS
    MaxSpaces,   \* the most spaces a display may have
    Specials,    \* the specials with a configurable key, in registration order
    Keys,        \* key combinations
    ExitKey,     \* Ctrl+Alt+Shift+Q
    ToggleKey,   \* Ctrl+Alt+Shift+S
    None

ASSUME SpacesAssumption == MaxSpaces \in Nat \ {0} /\ Specials \in Seq(STRING)
ASSUME KeysAssumption == /\ {ExitKey, ToggleKey} \subseteq Keys
                         /\ ExitKey # ToggleKey
                         /\ None \notin Keys

MoveBase    == MaxSpaces
SpecialBase == 2 * MaxSpaces
Exit        == SpecialBase
Toggle      == SpecialBase + 1
LastId      == Toggle + Len(Specials)

Ids          == 0 .. LastId
Configurable == Ids \ {Exit, Toggle}

\* A configuration binds every configurable identifier to a key, or to none.
Bindings == [Configurable -> {None} \cup Keys]

KeyOf(bind, id) ==
    CASE id = Exit   -> ExitKey
      [] id = Toggle -> ToggleKey
      [] OTHER       -> bind[id]

\* What a WM_HOTKEY identifier asks for.
Decode(id) ==
    CASE id < MoveBase    -> [do |-> "switch", arg |-> id]
      [] id \in MoveBase .. SpecialBase - 1
                          -> [do |-> "move", arg |-> id - MoveBase]
      [] id = Exit        -> [do |-> "exit", arg |-> 0]
      [] id = Toggle      -> [do |-> "toggle", arg |-> 0]
      [] OTHER            -> [do |-> Specials[id - Toggle], arg |-> 0]

\* What the configuration says a key is for: a slot of the configuration is
\* named by its identifier, and a key may be given twice.
MeantBy(bind, key) == {Decode(id) : id \in {i \in Ids : KeyOf(bind, i) = key}}

\* The attempts of register_all, in order: the two digits of every space that
\* some display has, then the specials; an unbound one is passed over.
Digits(bind, n, base) ==
    [i \in 1 .. 2 * n |->
        LET space == (i - 1) \div 2 IN
        IF i % 2 = 1 THEN [id |-> space, key |-> bind[space]]
        ELSE [id |-> base + space, key |-> bind[MaxSpaces + space]]]

Others(bind) ==
    [i \in 1 .. LastId - SpecialBase + 1 |->
        [id |-> SpecialBase + i - 1, key |-> KeyOf(bind, SpecialBase + i - 1)]]

\* Faulty variant: the second block is numbered by the spaces there are.
PlanByCount(bind, n) == Digits(bind, n, n) \o Others(bind)

Plan(bind, n) == Digits(bind, n, MoveBase) \o Others(bind)

\* The identifiers that some attempts register.
BoundIds(attempts) ==
    {attempts[i].id : i \in {j \in DOMAIN attempts : attempts[j].key # None}}

\* The whole table that a registration without conflicts leaves.
Wanted(bind, n) == [id \in BoundIds(Plan(bind, n)) |-> KeyOf(bind, id)]

NoKeys == <<>>
=============================================================================
