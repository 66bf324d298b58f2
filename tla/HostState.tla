------------------------------ MODULE HostState ------------------------------
(***************************************************************************)
(* hostState of cpuinfoapp, derived from three D-Bus properties of three   *)
(* services: CurrentHostState ("power"), CoreBiosDone ("bios") and         *)
(* OperatingSystemState ("os").  For each the application asks for the     *)
(* current value and listens to PropertiesChanged and InterfacesAdded.     *)
(* The messages of one service arrive in order, those of different         *)
(* services in any order.  A value is reduced to what the code tells       *)
(* apart: TRUE stands for powered, for POST done and for any OS status but *)
(* Inactive.  The services and the host are external.                      *)
(***************************************************************************)
EXTENDS Naturals, Sequences

CONSTANTS
    HostAtStart,   \* what the host may be doing when cpuinfoapp starts
    MaxInbox       \* bound: messages of one service that are on their way

Services == {"power", "bios", "os"}
HostPhase == {"off", "post", "done"}

ASSUME HostStateAssumption ==
    /\ HostAtStart \subseteq HostPhase
    /\ HostAtStart # {}
    /\ MaxInbox \in Nat \ {0}

VARIABLES
    host,          \* what the host is really doing
    up,            \* the services that are running
    value,         \* the property as its service has it
    asked,         \* the services whose answer to getProperty is outstanding
    inbox,         \* the replies and signals of a service that are on their way
    powerState,    \* powerState # Off
    biosDone,      \* biosDone
    osState,       \* osState # Inactive
    hostState,     \* hostState
    posted         \* history: POST ended since the application last saw an Off

serviceVars == <<host, up, value, asked>>
appVars == <<powerState, biosDone, osState, hostState>>
hostStateVars == <<serviceVars, inbox, appVars, posted>>

HostStateTypeOK ==
    /\ host \in HostPhase
    /\ up \subseteq Services
    /\ value \in [Services -> BOOLEAN]
    /\ asked \subseteq Services
    /\ inbox \in [Services -> Seq(BOOLEAN)]
    /\ powerState \in BOOLEAN
    /\ biosDone \in BOOLEAN
    /\ osState \in BOOLEAN
    /\ hostState \in {"off", "postInProgress", "postComplete"}
    /\ posted \in BOOLEAN

\* The value a service has once it has noticed what the host is doing.
Reflects(s, h) == IF s = "power" THEN h # "off" ELSE h = "done"

\* hostStateSetup has sent the three getProperty calls and added the matches.
HostStateInit ==
    /\ host \in HostAtStart
    /\ up \in SUBSET Services
    /\ value = [s \in Services |-> Reflects(s, host)]
    /\ asked = Services
    /\ inbox = [s \in Services |-> << >>]
    /\ powerState = FALSE
    /\ biosDone = FALSE
    /\ osState = FALSE
    /\ hostState = "off"
    /\ posted = (host = "done")

-----------------------------------------------------------------------------
\* Mutant: a power-off leaves what is known of POST.
AfterOffKeepsPost(power, known) == known

\* A power-off makes the application forget what it knew of POST.
AfterOff(power, known) == power /\ known

\* updateHostState, with the three values as they are after the update.
UpdateHostState(power, bios, os) ==
    /\ powerState' = power
    /\ biosDone' = AfterOff(power, bios)
    /\ osState' = AfterOff(power, os)
    /\ hostState' = CASE ~power -> "off"
                      [] power /\ ~bios /\ ~os -> "postInProgress"
                      [] OTHER -> "postComplete"

\* Mutant: hostState is computed before the new value is stored.
DeliverTooLate(s) ==
    /\ inbox[s] # << >>
    /\ inbox' = [inbox EXCEPT ![s] = Tail(@)]
    /\ hostState' = CASE ~powerState -> "off"
                      [] powerState /\ ~biosDone /\ ~osState -> "postInProgress"
                      [] OTHER -> "postComplete"
    /\ powerState' = IF s = "power" THEN Head(inbox[s]) ELSE powerState
    /\ biosDone' = IF s = "bios" THEN Head(inbox[s]) ELSE biosDone
    /\ osState' = IF s = "os" THEN Head(inbox[s]) ELSE osState
    /\ UNCHANGED <<serviceVars, posted>>

\* updatePowerState, updateBiosDone and updateOsState, called from the reply to
\* getProperty, from PropertiesChanged or from InterfacesAdded.
Deliver(s) ==
    /\ inbox[s] # << >>
    /\ inbox' = [inbox EXCEPT ![s] = Tail(@)]
    /\ LET v == Head(inbox[s])
       IN  /\ UpdateHostState(IF s = "power" THEN v ELSE powerState,
                              IF s = "bios" THEN v ELSE biosDone,
                              IF s = "os" THEN v ELSE osState)
           /\ posted' = (posted /\ ~(s = "power" /\ ~v))
    /\ UNCHANGED serviceVars

-----------------------------------------------------------------------------
Emit(s, v) ==
    /\ Len(inbox[s]) < MaxInbox
    /\ inbox' = [inbox EXCEPT ![s] = Append(@, v)]

\* The service answers getProperty; when it is not there the reply is an error,
\* which the application ignores.
Answer(s) ==
    /\ s \in asked
    /\ asked' = asked \ {s}
    /\ \/ s \in up /\ Emit(s, value[s])
       \/ s \notin up /\ UNCHANGED inbox
    /\ UNCHANGED <<host, up, value, appVars, posted>>

\* A service comes up, or comes back, and its object is announced.
ServiceStarts(s) ==
    /\ s \notin up
    /\ up' = up \cup {s}
    /\ value' = [value EXCEPT ![s] = Reflects(s, host)]
    /\ Emit(s, value'[s])
    /\ UNCHANGED <<host, asked, appVars, posted>>

ServiceStops(s) ==
    /\ s \in up
    /\ up' = up \ {s}
    /\ UNCHANGED <<host, value, asked, inbox, appVars, posted>>

\* A service notices what the host is doing and signals the change.
ServiceFollows(s) ==
    /\ s \in up
    /\ value[s] # Reflects(s, host)
    /\ value' = [value EXCEPT ![s] = Reflects(s, host)]
    /\ Emit(s, value'[s])
    /\ UNCHANGED <<host, up, asked, appVars, posted>>

\* No message is on its way.
Quiet == asked = {} /\ \A s \in Services : inbox[s] = << >>

\* The services and the application know that the host is in POST.
PostIsKnown ==
    /\ Quiet
    /\ powerState
    /\ \A s \in up : value[s] = Reflects(s, host)

\* The host.  Its own pace is slow: messages have arrived by the time it is powered
\* up again, and POST takes longer than it takes to notice that it has begun.
HostMoves(h) ==
    /\ \/ host = "off" /\ h = "post" /\ Quiet
       \/ host = "post" /\ h = "done" /\ PostIsKnown
       \/ host = "done" /\ h = "post"
       \/ host # "off" /\ h = "off"
    /\ host' = h
    /\ posted' = (posted \/ h = "done")
    /\ UNCHANGED <<up, value, asked, inbox, appVars>>

HostStateNext ==
    \/ \E s \in Services :
           \/ Deliver(s)
           \/ Answer(s)
           \/ ServiceStarts(s)
           \/ ServiceStops(s)
           \/ ServiceFollows(s)
    \/ \E h \in HostPhase : HostMoves(h)

\* Messages are delivered and handled, calls are answered, services that went away
\* are restarted and notice what the host does.  The host may stay as it is.
HostStateFairness ==
    \A s \in Services :
        /\ WF_hostStateVars(Deliver(s))
        /\ WF_hostStateVars(Answer(s))
        /\ WF_hostStateVars(ServiceStarts(s))
        /\ WF_hostStateVars(ServiceFollows(s))

HostStateSpec == HostStateInit /\ [][HostStateNext]_hostStateVars

FairHostStateSpec == HostStateSpec /\ HostStateFairness

-----------------------------------------------------------------------------
\* hostState does not jump to postComplete on what was known of an earlier POST: when
\* it becomes postComplete, a POST has ended since the application last saw the host
\* off, however late the other services notice that it went off.
NoJumpBack ==
    [][hostState # "postComplete" /\ hostState' = "postComplete" => posted]_hostStateVars

\* When POST is done and the host stays up, hostState ends up postComplete: one of
\* biosDone and osState tells the application so.
DoneIsNoticed == <>[](host = "done") => <>[](hostState = "postComplete")

\* hostState settles on what the host is doing, if that settles.
HostStateConverges ==
    /\ <>[](host = "off") => <>[](hostState = "off")
    /\ <>[](host = "post") => <>[](hostState = "postInProgress")
    /\ DoneIsNoticed
=============================================================================
