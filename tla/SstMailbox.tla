------------------------------ MODULE SstMailbox ------------------------------
(***************************************************************************)
(* One CPU's SST as cpuinfoapp uses it: the D-Bus properties of CPUConfig, *)
(* the commands they and discovery send through the PCode OS mailbox, and  *)
(* PECIManager, which sets the Wake-On-PECI (WOP) bit when the CPU sleeps. *)
(* Each access to a register is a step; in between the CPU falls asleep or *)
(* wakes up, PCode works, in-band software changes the configuration and   *)
(* another application uses WOP the same way.  PCode, the CPU and that     *)
(* application are external.  Whether BF is enabled is not modelled, and   *)
(* so its cached copy is not: only for which level the CPU is asked.       *)
(***************************************************************************)
EXTENDS Integers

CONSTANTS
    Levels,          \* the SST-PP levels of the CPU
    MbRetries,       \* how often the busy bit is looked at (mbRetries, 10)
    MaxDisturbances  \* bound: PECI commands that fail, changes by in-band software
                     \* and uses of WOP by another application

ASSUME SstMailboxAssumption ==
    /\ Levels # {}
    /\ MbRetries \in Nat \ {0}
    /\ MaxDisturbances \in Nat

VARIABLES
    pc,            \* what the operation does next; "idle" when there is none
    op,            \* the operation: a property read or set, or discovery
    cmd,           \* the mailbox command it sends
    attempts,      \* attempts
    waking,        \* tryWaking, of the register access at hand
    peciWoken,     \* peciWoken
    busy,          \* RUN_BUSY of the interface register
    iface,         \* the command that it holds
    data,          \* the data register
    pcode,         \* the command PCode is working on
    asleep,        \* the CPU is in a low-power state
    wop,           \* its WOP bit
    other,         \* the other application has set WOP and is to clear it
    level,         \* the CPU's current level
    currentLevel,  \* CPUConfig's copy of it
    during,        \* history: the levels the CPU had since the operation began
    leaked,        \* history: a write of WOP was reported as failed
    drifted,       \* history: the level was changed, or may be, unseen by CPUConfig
    disturbances   \* how many there were

managerVars == <<pc, op, cmd, attempts, waking, peciWoken, drifted>>
boxVars == <<busy, iface, data, pcode>>
cpuVars == <<asleep, wop, other, level>>
boundVars == <<leaked, disturbances>>
sstMailboxVars == <<managerVars, boxVars, cpuVars, currentLevel, during, boundVars>>

Ops == {"appliedConfig", "baseSpeedPriorityEnabled", "setAppliedConfig", "discover"}

\* GetLevelsInfo, GetConfigTdpControl and SetLevel, with the level they are about.
Commands ==
    [kind : {"getControl", "setLevel"}, arg : Levels] \cup {[kind |-> "getLevel"]}
NoCommand == [kind |-> "none"]

\* The data register holds a parameter, an answer or an error, and the command that
\* it belongs to.
Data == [of : Commands \cup {NoCommand}, what : {"param", "answer", "error"},
         level : Levels]

SstMailboxTypeOK ==
    /\ pc \in {"idle", "free", "data", "run", "return", "read", "clear"}
    /\ op \in Ops
    /\ cmd \in Commands \cup {NoCommand}
    /\ attempts \in 0..MbRetries
    /\ waking \in {"may", "must", "no"}
    /\ peciWoken \in BOOLEAN
    /\ busy \in BOOLEAN
    /\ iface \in Commands \cup {NoCommand}
    /\ data \in Data
    /\ pcode \in Commands \cup {NoCommand}
    /\ asleep \in BOOLEAN
    /\ wop \in BOOLEAN
    /\ other \in BOOLEAN
    /\ level \in Levels
    /\ currentLevel \in Levels
    /\ during \subseteq Levels
    /\ leaked \in BOOLEAN
    /\ drifted \in BOOLEAN
    /\ disturbances \in 0..MaxDisturbances

\* The CPU has been discovered.
SstMailboxInit ==
    /\ pc = "idle"
    /\ op = "discover"
    /\ cmd = NoCommand
    /\ attempts = 0
    /\ waking = "no"
    /\ peciWoken = FALSE
    /\ busy = FALSE
    /\ iface = NoCommand
    /\ pcode = NoCommand
    /\ asleep \in BOOLEAN
    /\ wop = FALSE
    /\ other = FALSE
    /\ level \in Levels
    /\ data = [of |-> NoCommand, what |-> "answer", level |-> level]
    /\ currentLevel = level
    /\ during = {}
    /\ leaked = FALSE
    /\ drifted = FALSE
    /\ disturbances = 0

-----------------------------------------------------------------------------
\* Discovery and the setter may wake the CPU, the getters may not.
WakeAllowed == op \in {"setAppliedConfig", "discover"}

\* The access to a register begins: tryWaking.
Fresh == IF WakeAllowed THEN "may" ELSE "no"

\* sendPECIOSMailboxCmd begins.
Send(c, wake) ==
    /\ cmd' = c
    /\ pc' = "free"
    /\ attempts' = MbRetries
    /\ waking' = wake

\* An operation begins with a PECIManager of its own.  A call that is refused, or that
\* finds the host off, changes nothing.
Begin(o, c) ==
    /\ pc = "idle"
    /\ op' = o
    /\ Send(c, IF o \in {"setAppliedConfig", "discover"} THEN "may" ELSE "no")
    /\ peciWoken' = FALSE
    /\ during' = {level}
    /\ UNCHANGED <<drifted, boxVars, cpuVars, currentLevel, boundVars>>

AppliedConfig == Begin("appliedConfig", [kind |-> "getLevel"])

BaseSpeedPriorityEnabled ==
    Begin("baseSpeedPriorityEnabled", [kind |-> "getControl", arg |-> currentLevel])

SetAppliedConfig(l) ==
    Begin("setAppliedConfig", [kind |-> "setLevel", arg |-> l])

\* Discovery asks which levels are supported, and more.
Discover(l) == Begin("discover", [kind |-> "getControl", arg |-> l])

-----------------------------------------------------------------------------
\* The CPU answers to register accesses.
Reachable == ~asleep \/ wop

\* The command to set the level has been sent, and its outcome is not known yet.
SetPending == op = "setAppliedConfig" /\ pc \in {"return", "read"}

\* Mutant: an error leaves the manager without its destructor.
FailNoClear ==
    /\ pc' = "idle"
    /\ waking' = "no"
    /\ drifted' = (drifted \/ SetPending)
    /\ UNCHANGED <<op, cmd, attempts, peciWoken>>

\* PECIError: the operation is over, the destructor is left to run.
Fail ==
    /\ pc' = "clear"
    /\ waking' = "no"
    /\ drifted' = (drifted \/ SetPending)
    /\ UNCHANGED <<op, cmd, attempts, peciWoken>>

\* The register access succeeded and the next one follows.
Step(p, n) ==
    /\ pc' = p
    /\ attempts' = n
    /\ waking' = Fresh
    /\ UNCHANGED <<op, cmd, peciWoken, drifted>>

\* Mutant: the mailbox is used as it is.
WaitFreeNot ==
    /\ pc = "free"
    /\ Reachable
    /\ waking # "must"
    /\ Step("data", attempts)
    /\ UNCHANGED <<boxVars, cpuVars, currentLevel, during, boundVars>>

\* Wait until RUN_BUSY is clear, for so many attempts.
WaitFree ==
    /\ pc = "free"
    /\ Reachable
    /\ waking # "must"
    /\ \/ ~busy /\ Step("data", attempts)
       \/ busy /\ attempts > 1 /\ Step("free", attempts - 1)
       \/ busy /\ attempts = 1 /\ Fail
    /\ UNCHANGED <<boxVars, cpuVars, currentLevel, during, boundVars>>

WriteData ==
    /\ pc = "data"
    /\ Reachable
    /\ waking # "must"
    /\ Step("run", attempts)
    /\ data' = [data EXCEPT !.of = cmd, !.what = "param"]
    /\ UNCHANGED <<busy, iface, pcode, cpuVars, currentLevel, during, boundVars>>

WriteInterface ==
    /\ pc = "run"
    /\ Reachable
    /\ waking # "must"
    /\ Step("return", MbRetries)
    /\ busy' = TRUE
    /\ iface' = cmd
    /\ UNCHANGED <<data, pcode, cpuVars, currentLevel, during, boundVars>>

\* Mutant: the attempts are not counted.
WaitReturnUncounted ==
    /\ pc = "return"
    /\ Reachable
    /\ waking # "must"
    /\ \/ ~busy /\ (IF data.what = "error" THEN Fail ELSE Step("read", attempts))
       \/ busy /\ Step("return", attempts)
    /\ UNCHANGED <<boxVars, cpuVars, currentLevel, during, boundVars>>

\* Wait until RUN_BUSY is clear again; an error status is a PECIError, save for
\* levelSupported, which discovery calls.
WaitReturn ==
    /\ pc = "return"
    /\ Reachable
    /\ waking # "must"
    /\ \/ ~busy /\ data.what = "error" /\ Fail
       \/ ~busy /\ (data.what # "error" \/ op = "discover") /\ Step("read", attempts)
       \/ busy /\ attempts > 1 /\ Step("return", attempts - 1)
       \/ busy /\ attempts = 1 /\ Fail
    /\ UNCHANGED <<boxVars, cpuVars, currentLevel, during, boundVars>>

\* Mutant: what was set is left for the next read to find out.
KeepReadsOnly ==
    currentLevel' = IF op = "appliedConfig" THEN data.level ELSE currentLevel

\* What the property keeps of a successful operation.
Keep ==
    currentLevel' = CASE op = "appliedConfig" -> data.level
                      [] op = "setAppliedConfig" -> cmd.arg
                      [] OTHER -> currentLevel

\* The data register is read and the command is done; discovery may go on with
\* another one, the properties are done.
ReadData ==
    /\ pc = "read"
    /\ Reachable
    /\ waking # "must"
    /\ Keep
    /\ \/ /\ pc' = "clear"
          /\ waking' = "no"
          /\ UNCHANGED <<cmd, attempts>>
       \/ /\ op = "discover"
          /\ \E l \in Levels : Send([kind |-> "getControl", arg |-> l], "may")
    /\ UNCHANGED <<op, peciWoken, drifted, boxVars, cpuVars, during, boundVars>>

\* isSleeping: the register is not reached, and the CPU is to be woken if that is
\* allowed and was not tried before.
Sleeping ==
    /\ pc \notin {"idle", "clear"}
    /\ ~Reachable
    /\ waking # "must"
    /\ \/ /\ waking = "may"
          /\ waking' = "must"
          /\ UNCHANGED <<pc, op, cmd, attempts, peciWoken, drifted>>
       \/ waking = "no" /\ Fail
    /\ UNCHANGED <<boxVars, cpuVars, currentLevel, during, boundVars>>

\* setWakeOnPECI(true), before the access is tried again.
SetWake ==
    /\ waking = "must"
    /\ wop' = TRUE
    /\ peciWoken' = TRUE
    /\ waking' = "no"
    /\ UNCHANGED <<pc, op, cmd, attempts, drifted, boxVars, asleep, other, level,
                   currentLevel, during, boundVars>>

\* Something happens that the bound counts.
Disturbance ==
    /\ disturbances < MaxDisturbances
    /\ disturbances' = disturbances + 1

\* A PECI command fails for another reason.  A write of WOP that is reported as failed
\* may have been done.
PeciFault ==
    /\ pc \notin {"idle", "clear"}
    /\ Disturbance
    /\ Fail
    /\ leaked' = (leaked \/ waking = "must")
    /\ \/ UNCHANGED wop
       \/ waking = "must" /\ wop' = TRUE
    /\ UNCHANGED <<boxVars, asleep, other, level, currentLevel, during>>

\* A write of a mailbox register is reported as failed although it was done: the command
\* may be PCode's already.
WriteMisreported ==
    /\ Reachable
    /\ waking # "must"
    /\ Disturbance
    /\ \/ /\ pc = "data"
          /\ data' = [data EXCEPT !.of = cmd, !.what = "param"]
          /\ UNCHANGED <<busy, iface, drifted>>
       \/ /\ pc = "run"
          /\ busy' = TRUE
          /\ iface' = cmd
          /\ drifted' = (drifted \/ op = "setAppliedConfig")
          /\ UNCHANGED data
    /\ pc' = "clear"
    /\ waking' = "no"
    /\ UNCHANGED <<op, cmd, attempts, peciWoken, pcode, cpuVars, currentLevel, during,
                   leaked>>

\* ~PECIManager clears WOP if it set it, and ignores a failure.
Destroy ==
    /\ pc = "clear"
    /\ pc' = "idle"
    /\ op' = "discover"
    /\ cmd' = NoCommand
    /\ attempts' = 0
    /\ during' = {}
    /\ peciWoken' = FALSE
    /\ \/ ~peciWoken /\ UNCHANGED <<wop, boundVars>>
       \/ peciWoken /\ wop' = FALSE /\ UNCHANGED boundVars
       \/ peciWoken /\ Disturbance /\ leaked' = TRUE /\ UNCHANGED wop
    /\ UNCHANGED <<waking, drifted, boxVars, asleep, other, level, currentLevel>>

-----------------------------------------------------------------------------
During(l) == IF pc = "idle" THEN {} ELSE during \cup {l}

\* PCode takes up the command in the interface register.
PcodeStarts ==
    /\ busy
    /\ pcode = NoCommand
    /\ pcode' = iface
    /\ UNCHANGED <<managerVars, busy, iface, data, cpuVars, currentLevel, during,
                   boundVars>>

\* PCode is done with it or refuses it, and clears RUN_BUSY.
PcodeAnswers ==
    /\ pcode # NoCommand
    /\ \E what \in {"answer", "error"} :
           /\ data' = [of |-> pcode, what |-> what, level |-> level]
           /\ level' = IF what = "answer" /\ pcode.kind = "setLevel" THEN pcode.arg
                       ELSE level
    /\ during' = During(level')
    /\ busy' = FALSE
    /\ iface' = NoCommand
    /\ pcode' = NoCommand
    /\ UNCHANGED <<managerVars, asleep, wop, other, currentLevel, boundVars>>

\* In-band software changes the level.
InBand ==
    /\ Disturbance
    /\ level' \in Levels
    /\ during' = During(level')
    /\ drifted' = TRUE
    /\ UNCHANGED <<pc, op, cmd, attempts, waking, peciWoken, boxVars, asleep, wop, other,
                   currentLevel, leaked>>

\* The CPU falls asleep or wakes up.
CpuDozes ==
    /\ asleep' = ~asleep
    /\ UNCHANGED <<managerVars, boxVars, wop, other, level, currentLevel, during,
                   boundVars>>

\* Another application wakes the CPU, and is done with it.
OtherWakes ==
    /\ ~other
    /\ asleep
    /\ Disturbance
    /\ other' = TRUE
    /\ wop' = TRUE
    /\ UNCHANGED <<managerVars, boxVars, asleep, level, currentLevel, during, leaked>>

OtherDone ==
    /\ other
    /\ other' = FALSE
    /\ wop' = FALSE
    /\ UNCHANGED <<managerVars, boxVars, asleep, level, currentLevel, during,
                   boundVars>>

\* A step of the operation.
OperationStep ==
    \/ WaitFree
    \/ WriteData
    \/ WriteInterface
    \/ WaitReturn
    \/ ReadData
    \/ Sleeping
    \/ SetWake
    \/ PeciFault
    \/ WriteMisreported
    \/ Destroy

SstMailboxNext ==
    \/ AppliedConfig
    \/ BaseSpeedPriorityEnabled
    \/ \E l \in Levels : SetAppliedConfig(l) \/ Discover(l)
    \/ OperationStep
    \/ PcodeStarts
    \/ PcodeAnswers
    \/ InBand
    \/ CpuDozes
    \/ OtherWakes
    \/ OtherDone

SstMailboxSpec == SstMailboxInit /\ [][SstMailboxNext]_sstMailboxVars

\* The operation goes on; nothing is assumed of the CPU, PCode or anyone else.
FairSstMailboxSpec == SstMailboxSpec /\ WF_sstMailboxVars(OperationStep)

-----------------------------------------------------------------------------
\* What is read from the mailbox is the answer to the command that was sent, also
\* after commands that were given up while PCode was working on them.
AnswerIsOurs == pc = "read" => data.of = cmd /\ data.what # "param"

\* A level that is kept was the CPU's at some time of the operation: a getter does not
\* return an older one, and a setter that succeeds has set it.
LevelWasCurrent ==
    [][ReadData /\ op \in {"appliedConfig", "setAppliedConfig"} =>
           currentLevel' \in during]_sstMailboxVars

\* WOP is not left set: whoever set it is still to clear it, unless a write of it
\* failed.  Two applications may set it and each may clear the other's.
WakeNotLeaked == wop => peciWoken \/ other \/ leaked

\* A property call always comes back, however the CPU and PCode behave.
OperationEnds == op # "discover" /\ pc # "idle" ~> pc = "idle"

\* BF is read for the level that CPUConfig has cached.  That is one the CPU had during
\* the call, unless in-band software has changed it or a set was given up whose command
\* was, or may have been, in the mailbox already, and which PCode may have carried out.
BfLevelExplained ==
    [][ReadData /\ op = "baseSpeedPriorityEnabled" =>
           cmd.arg \in during \/ drifted]_sstMailboxVars

\* Values can be changed by in-band software, so a full read is done on every get: BF
\* is that of the level the CPU has, or had during the call.
BfIsCurrent ==
    [][ReadData /\ op = "baseSpeedPriorityEnabled" => cmd.arg \in during]_sstMailboxVars
=============================================================================
