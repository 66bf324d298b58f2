----------------------------- MODULE TableService -----------------------------
(***************************************************************************)
(* What the SMBIOS service promises, without files, calls, timers and      *)
(* processes: the host commits a table, the service takes it up, and shows *)
(* it on D-Bus some time later.  A commit that succeeded stands until the  *)
(* next one begins, and a table that was taken up is shown, or is still    *)
(* owed to those who read D-Bus.  SmbiosTransfer implements it.            *)
(***************************************************************************)
CONSTANTS
    Tables,        \* what the service can take up, an all-zero table included
    Good,          \* the tables that are accepted
    Broken,        \* the tables that are deleted once they are looked at
    Nothing,       \* no table
    ZeroTable      \* what the service holds when it has no table

VARIABLES
    committed,     \* the table the last commit stored; Nothing once a new one begins
    held,          \* the table that was taken up last
    shown,         \* the table on D-Bus
    owed           \* something is still to be done that ends with a table on D-Bus

serviceVars == <<committed, held, shown, owed>>

ServiceInit ==
    /\ committed = Nothing
    /\ held = ZeroTable
    /\ shown = Nothing
    /\ owed = FALSE

\* A commit that stands is not given up for another table, unless it is broken.
Respects(t) == committed \in {Nothing, t} \cup Broken

\* The host begins to replace the table.
Begin ==
    /\ committed' = Nothing
    /\ UNCHANGED <<held, shown, owed>>

\* The host is told that t is stored.
Commit(t) ==
    /\ t \in Good
    /\ held = t \/ t \in Broken
    /\ committed' = t
    /\ UNCHANGED <<held, shown, owed>>

\* The service takes up what is stored.  A good table is owed from then on; a bad one
\* may leave the debt of its predecessor or not.
TakeUp(t) ==
    /\ Respects(t)
    /\ held' = t
    /\ owed' \in IF t \in Good THEN {TRUE} ELSE {owed, FALSE}
    /\ UNCHANGED <<committed, shown>>

\* What is held is shown.
Show ==
    /\ shown' = held
    /\ owed' \in {owed, FALSE}
    /\ UNCHANGED <<committed, held>>

\* Someone asks the service to look at the stored table later.
Postpone ==
    /\ owed' = TRUE
    /\ UNCHANGED <<committed, held, shown>>

\* The service starts again, with what is stored.
StartAgain(t) ==
    /\ Respects(t)
    /\ held' = t
    /\ shown' = Nothing
    /\ owed' = (t \in Good)
    /\ UNCHANGED committed

ServiceNext ==
    \/ Begin
    \/ Show
    \/ Postpone
    \/ \E t \in Tables : Commit(t) \/ TakeUp(t) \/ StartAgain(t)

ServiceSpec == ServiceInit /\ [][ServiceNext]_serviceVars

-----------------------------------------------------------------------------
\* A commit that stands is the table that is held.
CommitStands == committed \in {Nothing, held} \cup Broken

\* A good table is on D-Bus, or is owed.
ShownOrOwed == held \in Good => shown = held \/ owed
=============================================================================
