---------------------------- MODULE CpuProperties ----------------------------
(***************************************************************************)
(* How cpuinfoapp sets the Model of the CPU objects of smbiosmdrv2app.     *)
(* Values are kept in propertiesToSet and set again whenever the target    *)
(* object is added: smbiosmdrv2app drops and makes its objects whenever it *)
(* publishes a table or is restarted.  Messages of one connection arrive   *)
(* in order.  The entries of the list are kept per CPU: only the order of  *)
(* the entries of one object matters.                                      *)
(***************************************************************************)
EXTENDS Naturals, Sequences

CONSTANTS
    Cpus,          \* the CPU numbers
    Specs,         \* the values of Model that are found in PIROMs
    Absent,        \* the CPU object is not there
    FromTable,     \* its Model is the one of the SMBIOS table
    MaxMoves       \* bound: how often objects are added and removed

ASSUME CpuPropertiesAssumption ==
    /\ Absent \notin Specs
    /\ FromTable \notin Specs
    /\ Absent # FromTable
    /\ MaxMoves \in Nat

VARIABLES
    propertiesToSet,   \* the values for each CPU, in the order of the list
    cpuUpdatedMatch,   \* the CPUs whose InterfacesAdded is listened to
    sets,              \* the Set calls that are on their way to smbiosmdrv2app
    added,             \* the number of InterfacesAdded on their way back
    model,             \* the property of the CPU object
    moves              \* objects added and removed so far

busVars == <<sets, added, model, moves>>
propertyVars == <<propertiesToSet, cpuUpdatedMatch, busVars>>

PropertiesInit ==
    /\ propertiesToSet = [c \in Cpus |-> << >>]
    /\ cpuUpdatedMatch = {}
    /\ sets = [c \in Cpus |-> << >>]
    /\ added = [c \in Cpus |-> 0]
    /\ model \in [Cpus -> {Absent, FromTable}]
    /\ moves = 0

\* The value that was put into the list last.
Newest(c) == propertiesToSet[c][Len(propertiesToSet[c])]

-----------------------------------------------------------------------------
\* Mutant: the object is watched only once it has been seen.
CreateCpuUpdatedMatchLate(c) ==
    cpuUpdatedMatch' = IF model[c] = Absent THEN cpuUpdatedMatch
                       ELSE cpuUpdatedMatch \cup {c}

\* createCpuUpdatedMatch: the match is in place before the call is sent.
CreateCpuUpdatedMatch(c) == cpuUpdatedMatch' = cpuUpdatedMatch \cup {c}

\* setCpuProperty and the setDbusProperty it calls.
SetCpuProperty(c, v) ==
    /\ propertiesToSet' = [propertiesToSet EXCEPT ![c] = Append(@, v)]
    /\ CreateCpuUpdatedMatch(c)
    /\ sets' = [sets EXCEPT ![c] = Append(@, v)]
    /\ UNCHANGED <<added, model, moves>>

\* The handler of the match sends everything that is listed for the object.
InterfacesAdded(c) ==
    /\ added[c] > 0
    /\ added' = [added EXCEPT ![c] = @ - 1]
    /\ sets' = [sets EXCEPT ![c] = @ \o propertiesToSet[c]]
    /\ UNCHANGED <<propertiesToSet, cpuUpdatedMatch, model, moves>>

-----------------------------------------------------------------------------
\* smbiosmdrv2app serves a Set; without the object the reply is an error, which the
\* application logs.
ServeSet(c) ==
    /\ sets[c] # << >>
    /\ sets' = [sets EXCEPT ![c] = Tail(@)]
    /\ model' = [model EXCEPT ![c] = IF @ = Absent THEN Absent ELSE Head(sets[c])]
    /\ UNCHANGED <<propertiesToSet, cpuUpdatedMatch, added, moves>>

\* smbiosmdrv2app makes the object and announces it to those who listen.
TargetAdded(c) ==
    /\ moves < MaxMoves
    /\ model[c] = Absent
    /\ model' = [model EXCEPT ![c] = FromTable]
    /\ added' = [added EXCEPT ![c] = IF c \in cpuUpdatedMatch THEN @ + 1 ELSE @]
    /\ moves' = moves + 1
    /\ UNCHANGED <<propertiesToSet, cpuUpdatedMatch, sets>>

TargetRemoved(c) ==
    /\ moves < MaxMoves
    /\ model[c] # Absent
    /\ model' = [model EXCEPT ![c] = Absent]
    /\ moves' = moves + 1
    /\ UNCHANGED <<propertiesToSet, cpuUpdatedMatch, sets, added>>

PropertiesStep(c) ==
    \/ InterfacesAdded(c)
    \/ ServeSet(c)
    \/ TargetAdded(c)
    \/ TargetRemoved(c)

\* Messages are delivered and handled.
PropertiesFairness ==
    \A c \in Cpus : WF_propertyVars(InterfacesAdded(c)) /\ WF_propertyVars(ServeSet(c))

-----------------------------------------------------------------------------
\* Once the objects are left alone, those that are there keep the newest value.
ModelStays ==
    \A c \in Cpus :
        <>[](propertiesToSet[c] # << >> /\ model[c] # Absent => model[c] = Newest(c))
=============================================================================
