---------------------------- MODULE HotkeyTable ----------------------------
(***************************************************************************)
(* What the hotkeys promise, apart from how they are registered: between   *)
(* the daemon's handlers its table is empty, or it is every binding of the *)
(* configuration in force, for some number of spaces.  It is installed and *)
(* withdrawn in one step, which speaks of what a handler leaves behind:    *)
(* while one registers, the system takes key after key, and an application *)
(* that tries for a key just then can find part of the table taken.        *)
(***************************************************************************)
EXTENDS Hotkeys

VARIABLES
    bind,    \* the bindings of the configuration in force
    table    \* identifier -> key

Complete == table \in {NoKeys} \cup {Wanted(bind, n) : n \in 1 .. MaxSpaces}

Init == bind \in Bindings /\ table = NoKeys

\* Another configuration comes into force: the old keys are withdrawn first.
Rebind == /\ bind' \in Bindings
          /\ table' = NoKeys

Withdraw == /\ table' = NoKeys
            /\ UNCHANGED bind

Install == \E n \in 1 .. MaxSpaces :
    /\ table = NoKeys
    /\ table' = Wanted(bind, n)
    /\ UNCHANGED bind

Next == Rebind \/ Withdraw \/ Install

Spec == Init /\ [][Next]_<<bind, table>>
=============================================================================
