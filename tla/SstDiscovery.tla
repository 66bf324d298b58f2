----------------------------- MODULE SstDiscovery -----------------------------
(***************************************************************************)
(* SST discovery in cpuinfoapp.  discoverOrWait walks the CPUs, stages an  *)
(* object for each and publishes the list when the walk is complete; after *)
(* a failure it retries when a timer expires.  Before each CPU the walk    *)
(* calls io_context::poll, which runs whatever handlers are waiting, among *)
(* them the change of hostState and the retry: each may start another walk *)
(* inside the first.  A staged or published object holds its CPU's D-Bus   *)
(* path; sd-bus refuses a second one, and the exception ends the process,  *)
(* which systemd restarts.                                                 *)
(***************************************************************************)
EXTENDS Naturals, Sequences

CONSTANTS
    NumCpus,       \* MAX_CLIENT_ADDR - MIN_CLIENT_ADDR + 1
    Capable,       \* the CPUs that are present and support SST-PP
    MaxErrors,     \* the PECI errors after which discovery is given up (50)
    MaxDepth,      \* bound: walks inside one another
    MaxFaults,     \* bound: PECI commands that fail
    Faults         \* how they fail

Cpu == 0..(NumCpus - 1)

ASSUME SstAssumption ==
    /\ NumCpus \in Nat \ {0}
    /\ Capable \subseteq Cpu
    /\ MaxErrors \in Nat \ {0}
    /\ MaxDepth \in Nat \ {0}
    /\ MaxFaults \in Nat
    /\ Faults \subseteq {"error", "notReady", "badId"}

VARIABLES
    hostState,     \* hostState # off
    calls,         \* the running calls of discoverOrWait, the innermost last
    cpus,          \* the persistent list: for each CPU, whether it is there
    timer,         \* peciRetryTimer is pending
    ready,         \* its wait is over and its handler queued
    errors,        \* peciErrorCount
    finished,      \* history: the persistent list is one that a walk completed
    aborted,       \* history: discovery was given up
    worked,        \* history: a walk was completed since the process started
    passedOver,    \* history: a CPU was passed over since the process started
    faults         \* the commands that may still fail

sstVars == <<hostState, calls, cpus, timer, ready, errors, finished, aborted,
             worked, passedOver, faults>>

\* An object was made of what its CPU said since the host was last powered on, or
\* before; "passed" stands for no object, because the CPU was passed over.
Object == {"none", "passed", "fresh", "stale"}
List == [Cpu -> Object]
Empty == [c \in Cpu |-> "none"]

\* cpu: the CPU the walk is at; polling: it is in io_context::poll; list: cpuList.
Call == [cpu : 0..NumCpus, polling : BOOLEAN, list : List]

SstTypeOK ==
    /\ hostState \in BOOLEAN
    /\ calls \in Seq(Call)
    /\ cpus \in List
    /\ timer \in BOOLEAN
    /\ ready \in BOOLEAN
    /\ errors \in Nat
    /\ finished \in BOOLEAN
    /\ aborted \in BOOLEAN
    /\ worked \in BOOLEAN
    /\ passedOver \in BOOLEAN
    /\ faults \in 0..MaxFaults

SstInit ==
    /\ hostState = FALSE
    /\ calls = << >>
    /\ cpus = Empty
    /\ timer = FALSE
    /\ ready = FALSE
    /\ errors = 0
    /\ finished = FALSE
    /\ aborted = FALSE
    /\ worked = FALSE
    /\ passedOver = FALSE
    /\ faults = MaxFaults

Top == calls[Len(calls)]
Outer == SubSeq(calls, 1, Len(calls) - 1)

\* Handlers run in the event loop and in the poll of the innermost walk.
HandlersRun == calls # << >> => Top.polling

\* The walk is past its poll and deals with its CPU.
AtCpu == calls # << >> /\ ~Top.polling /\ Top.cpu \in Cpu

-----------------------------------------------------------------------------
\* discoverOrWait begins: it cancels the pending retry and clears the list.
DiscoverOrWait ==
    /\ Len(calls) < MaxDepth
    /\ calls' = Append(calls, [cpu |-> 0, polling |-> TRUE, list |-> Empty])
    /\ timer' = FALSE
    /\ cpus' = Empty
    /\ finished' = FALSE

\* hostStateHandler, when the host leaves the off state.
HostOn ==
    /\ HandlersRun
    /\ ~hostState
    /\ hostState' = TRUE
    /\ DiscoverOrWait
    /\ UNCHANGED <<ready, errors, aborted, worked, passedOver, faults>>

Age(list) == [c \in Cpu |-> IF list[c] = "fresh" THEN "stale" ELSE list[c]]

\* The host is powered off; hostStateHandler does nothing.
HostOff ==
    /\ HandlersRun
    /\ hostState
    /\ hostState' = FALSE
    /\ cpus' = Age(cpus)
    /\ calls' = [k \in 1..Len(calls) |-> [calls[k] EXCEPT !.list = Age(@)]]
    /\ UNCHANGED <<timer, ready, errors, finished, aborted, worked, passedOver, faults>>

Expire ==
    /\ timer
    /\ ~ready
    /\ timer' = FALSE
    /\ ready' = TRUE
    /\ UNCHANGED <<hostState, calls, cpus, errors, finished, aborted, worked, passedOver,
                   faults>>

\* The handler of the retry timer.
Retry ==
    /\ HandlersRun
    /\ ready
    /\ ready' = FALSE
    /\ DiscoverOrWait
    /\ UNCHANGED <<hostState, errors, aborted, worked, passedOver, faults>>

-----------------------------------------------------------------------------
\* Mutant: the retry is left to the next change of the host state.
NotFinishedNoRetry == UNCHANGED timer

\* discoverCPUsAndConfigs returned false or threw: the list is dropped and the
\* timer is armed.
NotFinished == timer' = TRUE

ReturnFalse ==
    /\ calls' = Outer
    /\ NotFinished
    /\ UNCHANGED <<hostState, cpus, ready, finished, aborted, worked, passedOver>>

\* poll returns.
LeavePoll ==
    /\ calls # << >>
    /\ Top.polling
    /\ \/ /\ hostState
          /\ calls' = [calls EXCEPT ![Len(calls)].polling = FALSE]
          /\ UNCHANGED <<hostState, cpus, timer, ready, finished, aborted, worked,
                         passedOver>>
       \/ ~hostState /\ ReturnFalse
    /\ UNCHANGED <<errors, faults>>

\* The walk goes on with the next CPU, in the poll before it if there is one.
GoOn(list) ==
    /\ calls' = [calls EXCEPT ![Len(calls)] =
                    [cpu |-> @.cpu + 1, polling |-> @.cpu + 1 < NumCpus,
                     list |-> list]]
    /\ UNCHANGED <<hostState, cpus, timer, ready, errors, finished, aborted, worked>>

\* An object with this CPU's path exists.
PathTaken(c) ==
    \/ cpus[c] \in {"fresh", "stale"}
    \/ \E k \in 1..Len(calls) : calls[k].list[c] \in {"fresh", "stale"}

\* The CPU answers everything, and its object is staged.
Stage ==
    /\ AtCpu
    /\ Top.cpu \in Capable
    /\ ~PathTaken(Top.cpu)
    /\ GoOn([Top.list EXCEPT ![Top.cpu] = "fresh"])
    /\ UNCHANGED <<passedOver, faults>>

\* The CPU is not present, has no backend or no SST-PP, or names a current level that
\* is not among its levels.
Skip ==
    /\ AtCpu
    /\ Top.cpu \notin Capable
    /\ GoOn(Top.list)
    /\ UNCHANGED <<passedOver, faults>>

Fault(kind) ==
    /\ AtCpu
    /\ Top.cpu \in Capable
    /\ kind \in Faults
    /\ faults > 0
    /\ faults' = faults - 1

\* GetCPUID fails other than by a time-out: the CPU is passed over.
BadId ==
    /\ Fault("badId")
    /\ passedOver' = TRUE
    /\ GoOn([Top.list EXCEPT ![Top.cpu] = "passed"])

\* The backend is not ready yet.
NotReady == Fault("notReady") /\ ReturnFalse /\ UNCHANGED errors

\* Mutant: the walk catches the error and goes on.
PeciErrorIgnored == Fault("error") /\ GoOn(Top.list) /\ UNCHANGED passedOver

\* GetCPUID times out, or a mailbox command throws PECIError.
PeciError ==
    /\ Fault("error")
    /\ errors' = errors + 1
    /\ calls' = Outer
    /\ \/ errors + 1 < MaxErrors /\ NotFinished /\ UNCHANGED aborted
       \/ errors + 1 >= MaxErrors /\ aborted' = TRUE /\ UNCHANGED timer
    /\ UNCHANGED <<hostState, cpus, ready, finished, worked, passedOver>>

\* Mutant: a walk that succeeds cancels the retry.
FinishCancels ==
    /\ calls # << >>
    /\ Top.cpu = NumCpus
    /\ cpus' = Top.list
    /\ calls' = Outer
    /\ timer' = FALSE
    /\ finished' = TRUE
    /\ worked' = TRUE
    /\ UNCHANGED <<hostState, ready, errors, aborted, passedOver, faults>>

\* Every CPU was dealt with: the staged list becomes the persistent one, and what
\* that held is dropped.
Finish ==
    /\ calls # << >>
    /\ Top.cpu = NumCpus
    /\ cpus' = Top.list
    /\ calls' = Outer
    /\ finished' = TRUE
    /\ worked' = TRUE
    /\ UNCHANGED <<hostState, timer, ready, errors, aborted, passedOver, faults>>

\* The path of the CPU is taken: the process ends and is started again.
Crash ==
    /\ AtCpu
    /\ Top.cpu \in Capable
    /\ PathTaken(Top.cpu)
    /\ hostState' = FALSE
    /\ calls' = << >>
    /\ cpus' = Empty
    /\ timer' = FALSE
    /\ ready' = FALSE
    /\ errors' = 0
    /\ finished' = FALSE
    /\ aborted' = FALSE
    /\ worked' = FALSE
    /\ passedOver' = FALSE
    /\ UNCHANGED faults

\* The running walk.
Walk ==
    \/ LeavePoll
    \/ Stage
    \/ Skip
    \/ BadId
    \/ NotReady
    \/ PeciError
    \/ Finish
    \/ Crash

SstNext == HostOn \/ HostOff \/ Expire \/ Retry \/ Walk

\* A walk that runs goes on, a wait ends and a queued handler is run.
SstFairness ==
    /\ WF_sstVars(Walk)
    /\ WF_sstVars(Expire)
    /\ WF_sstVars(Retry)

SstSpec == SstInit /\ [][SstNext]_sstVars

FairSstSpec == SstSpec /\ SstFairness

-----------------------------------------------------------------------------
\* Discovery is never forgotten: while the host is on and nothing is published, a
\* walk runs or a retry is to come, unless discovery was given up.  Each walk cancels
\* the retry of the one it interrupts, and may fail in its place.
NoLostRetry ==
    hostState /\ ~finished /\ ~aborted => calls # << >> \/ timer \/ ready

\* What is published comes from one walk that dealt with every CPU: a walk that failed
\* anywhere, or that was interrupted by another, leaves nothing behind.
NothingPartial == finished => \A c \in Capable : cpus[c] # "none"

\* When the host stays on and PECI works again, the walks come to an end.
DiscoveryEnds == <>[]hostState => <>[](finished \/ aborted)

\* Discovery starts again whenever the host is powered on, so what is published while
\* the host is on was read since then.
NothingStale == hostState /\ finished => \A c \in Cpu : cpus[c] # "stale"

\* What a walk staged before its poll may be published although the host was powered
\* off and on in that poll (discoverCPUsAndConfigs checks hostState only after poll),
\* but not for good: another walk, which reads the CPUs again, runs or is to come.
\* The exceptions are a discovery that was given up and a CPU that was passed over.
StaleIsReplaced ==
    hostState /\ finished /\ (\E c \in Cpu : cpus[c] = "stale")
        => calls # << >> \/ timer \/ ready \/ aborted \/ passedOver

\* Walks that overlap do not get in each other's way: the path of a CPU is free when
\* its object is made.
PathsFree == AtCpu /\ Top.cpu \in Capable => ~PathTaken(Top.cpu)

\* Discovery is given up on CPUs that do not support it, not on CPUs that were
\* discovered before.
GivenUpIfUnsupported == [][~aborted /\ aborted' => ~worked]_sstVars
=============================================================================
