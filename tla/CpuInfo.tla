------------------------------- MODULE CpuInfo -------------------------------
(***************************************************************************)
(* The CPU information service, cpuinfoapp without its SST part.  The      *)
(* configuration of a CPU is looked up on D-Bus, and again ten seconds     *)
(* after the last change of it; each answer makes the CPU's CPUInfo anew,  *)
(* starts a loop that reads the SSpec from the PIROM until it is confirmed *)
(* and a loop that waits for the PPIN.  Loops of an earlier CPUInfo go on. *)
(* A call is served by the other process in one step and its answer is     *)
(* handled in a later one: by then it may be about an earlier              *)
(* configuration.  Messages of one process arrive in the order in which    *)
(* they were sent, messages of different ones in any order.                *)
(***************************************************************************)
EXTENDS CpuProperties, FiniteSets

CONSTANTS
    Bytes,           \* what a byte of a PIROM may be
    Contents,        \* the SSpec fields of PIROMs
    Unprintable,     \* a byte that is not a printable character
    LetterS,         \* the letter with which an SSpec starts
    Addresses,       \* the addresses with which a CPU may be configured
    NoReply,         \* the PIROM cannot be read
    NoCpu,           \* the CPU is not in cpuInfoMap
    NoSpec,          \* its sSpec is empty
    MaxFailedReads,  \* the failed reads that are put up with (10)
    MaxChanges       \* bound: changes of the configuration and of PIROMs, and
                     \* GetCPUID commands that fail

SspecSize == 6
ShortestSpec == 4

ASSUME CpuInfoAssumption ==
    /\ Contents \subseteq [1..SspecSize -> Bytes]
    /\ NoReply \notin Contents
    /\ {NoCpu, NoSpec} \cap Specs = {}
    /\ {"absent", "partial", "changed", NoCpu} \cap Addresses = {}
    /\ MaxFailedReads \in Nat
    /\ MaxChanges \in Nat

VARIABLES
    config,          \* the configuration of each CPU as its service has it
    messages,        \* what that service has sent: PropertiesChanged signals, and
                     \* configurations, the answers to GetAll
    filterTimer,     \* filterTimer is pending
    subtree,         \* the number of GetSubTree calls that are to be served
    found,           \* the answers of the mapper that are on their way
    getAll,          \* the number of GetAll calls to each service to be served
    address,         \* the address that each CPUInfo was made with
    pirom,           \* what reading the PIROM of each CPU gives
    sSpec,           \* cpuInfoMap, with the sSpec of each CPUInfo
    loops,           \* the number of sspecTimers that are pending for each CPU
    failedReads,     \* failedReads, one for all CPUs
    post,            \* hostState = postComplete
    ppin,            \* what is published of the PPIN of the CPUInfo
    waits,           \* the number of waitTimers that are pending for each CPU
    changes,         \* the bounded events so far
    left,            \* history: the waits that were pending when the CPUInfo was made
    seen,            \* history: the last two specs read since the CPUInfo was made
    ownFails         \* history: the failed reads of a CPU since one succeeded

callVars == <<filterTimer, subtree, found, getAll>>
configVars == <<config, messages, callVars, address>>
specVars == <<sSpec, loops, failedReads, seen, ownFails>>
ppinVars == <<ppin, waits, left>>
cpuInfoVars == <<propertyVars, configVars, specVars, ppinVars, pirom, post, changes>>

\* A bounded event.
Change == changes < MaxChanges /\ changes' = changes + 1

\* A CPU is not configured, configured without a number or an address, or with both.
Configs == {"absent", "partial"} \cup Addresses

\* main has asked for the configuration.
CpuInfoInit ==
    /\ PropertiesInit
    /\ config \in [Cpus -> {"absent"} \cup Addresses]
    /\ messages = [c \in Cpus |-> << >>]
    /\ filterTimer = FALSE
    /\ subtree = 1
    /\ found = << >>
    /\ getAll = [c \in Cpus |-> 0]
    /\ address = [c \in Cpus |-> NoCpu]
    /\ pirom \in [Cpus -> Contents \cup {NoReply}]
    /\ sSpec = [c \in Cpus |-> NoCpu]
    /\ loops = [c \in Cpus |-> 0]
    /\ failedReads = 0
    /\ post \in BOOLEAN
    /\ ppin = [c \in Cpus |-> "unread"]
    /\ waits = [c \in Cpus |-> 0]
    /\ changes = 0
    /\ left = [c \in Cpus |-> 0]
    /\ seen = [c \in Cpus |-> << >>]
    /\ ownFails = [c \in Cpus |-> 0]

-----------------------------------------------------------------------------
\* readSSpec: the printable characters, from the third byte on if the first is a
\* character but not an S.
ReadSSpec(b) ==
    LET printable(x) == x # Unprintable
        start == IF b[1] \in {LetterS, Unprintable} THEN 1 ELSE 3
    IN  SelectSeq(SubSeq(b, start, SspecSize), printable)

\* readSSpec succeeds: the device answers, and with enough characters.
Readable(r) == r # NoReply /\ Len(ReadSSpec(r)) >= ShortestSpec

ASSUME SpecsAssumption == \A r \in Contents : Readable(r) => ReadSSpec(r) \in Specs

\* Two reads gave the same: Model is set and the loop ends.
Confirm(c, cur, n) ==
    /\ Readable(pirom[c])
    /\ ReadSSpec(pirom[c]) = cur
    /\ SetCpuProperty(c, cur)
    /\ sSpec' = [sSpec EXCEPT ![c] = cur]
    /\ loops' = [loops EXCEPT ![c] = n]
    /\ UNCHANGED failedReads

\* A first or another value: it is to be confirmed.
Remember(c, cur, n) ==
    /\ Readable(pirom[c])
    /\ ReadSSpec(pirom[c]) # cur
    /\ sSpec' = [sSpec EXCEPT ![c] = ReadSSpec(pirom[c])]
    /\ failedReads' = 0
    /\ loops' = [loops EXCEPT ![c] = n + 1]
    /\ UNCHANGED propertyVars

\* Mutant: the loop does not give up.
ReadFailsForEver(c, cur, n) ==
    /\ ~Readable(pirom[c])
    /\ loops' = [loops EXCEPT ![c] = n + 1]
    /\ sSpec' = [sSpec EXCEPT ![c] = cur]
    /\ UNCHANGED <<propertyVars, failedReads>>

\* A failure, after which the loop goes on or gives up.
ReadFails(c, cur, n) ==
    /\ ~Readable(pirom[c])
    /\ failedReads' = failedReads + 1
    /\ loops' = [loops EXCEPT ![c] = IF failedReads' > MaxFailedReads THEN n ELSE n + 1]
    /\ sSpec' = [sSpec EXCEPT ![c] = cur]
    /\ UNCHANGED propertyVars

\* tryReadSSpec, where the CPUInfo has sSpec cur and n other loops are pending.
TryReadSSpec(c, cur, n) ==
    \/ Confirm(c, cur, n)
    \/ Remember(c, cur, n)
    \/ ReadFails(c, cur, n)

\* The history of the reads since the CPUInfo was made, before this one.
Reads(c, before, fails) ==
    /\ seen' = [seen EXCEPT ![c] =
                   IF ~Readable(pirom[c]) THEN before
                   ELSE IF before = << >> THEN <<ReadSSpec(pirom[c])>>
                   ELSE <<before[Len(before)], ReadSSpec(pirom[c])>>]
    /\ ownFails' = [ownFails EXCEPT ![c] = IF Readable(pirom[c]) THEN 0
                                           ELSE IF fails > MaxFailedReads THEN fails
                                           ELSE fails + 1]

\* A sspecTimer expires.
SspecTimer(c) ==
    /\ loops[c] > 0
    /\ TryReadSSpec(c, sSpec[c], loops[c] - 1)
    /\ Reads(c, seen[c], ownFails[c])
    /\ UNCHANGED <<configVars, ppinVars, pirom, post, changes>>

-----------------------------------------------------------------------------
\* Mutant: the check is not repeated when GetCPUID fails.
PpinLaterOnce(c, n) ==
    \/ ~post /\ waits' = [waits EXCEPT ![c] = n + 1] /\ UNCHANGED changes
    \/ post /\ Change /\ waits' = [waits EXCEPT ![c] = n]

\* POST is not complete, or GetCPUID fails: the check is repeated.
PpinLater(c, n) ==
    /\ \/ ~post /\ UNCHANGED changes
       \/ post /\ Change
    /\ waits' = [waits EXCEPT ![c] = n + 1]

\* What is published when the CPU has a PPIN or not, and the reads of its low and of
\* its high half succeed or not: the low half is zero if it could not be read, and
\* without the high half the PPIN is zero and what was published before stays.
Published(old, known, low, high) ==
    CASE known /\ high -> IF low THEN "whole" ELSE "half"
      [] OTHER -> IF old = "unread" THEN "failed" ELSE old

\* Mutant: the wait is not over when the PPIN was read.
PpinReadAgain(c, old, n) ==
    /\ post
    /\ waits' = [waits EXCEPT ![c] = IF old = "unread" THEN n + 1 ELSE n]
    /\ \E known, low, high \in BOOLEAN :
           ppin' = [ppin EXCEPT ![c] = Published(old, known, low, high)]
    /\ UNCHANGED changes

\* The PPIN of a CPUInfo that has published old.
PpinRead(c, old, n) ==
    /\ post
    /\ waits' = [waits EXCEPT ![c] = n]
    /\ \E known, low, high \in BOOLEAN :
           ppin' = [ppin EXCEPT ![c] = Published(old, known, low, high)]
    /\ UNCHANGED changes

\* A waitTimer expires: getPPIN.
WaitTimer(c) ==
    /\ waits[c] > 0
    /\ \/ PpinLater(c, waits[c] - 1) /\ UNCHANGED ppin
       \/ PpinRead(c, ppin[c], waits[c] - 1)
    /\ UNCHANGED <<propertyVars, configVars, specVars, left, pirom, post>>

-----------------------------------------------------------------------------
\* The oldest message of the service of c is m, and is handled.
Receives(c, m) ==
    /\ messages[c] # << >>
    /\ m = Head(messages[c])
    /\ messages' = [messages EXCEPT ![c] = Tail(@)]

\* Mutant: a change is not followed up while the mapper is being asked.
ConfigNoticedIdle(c) ==
    /\ Receives(c, "changed")
    /\ filterTimer' = (filterTimer \/ (subtree = 0 /\ found = << >>))
    /\ UNCHANGED <<propertyVars, config, subtree, found, getAll, address, specVars,
                   ppinVars, pirom, post, changes>>

\* The match of getCpuConfiguration: the wait for further changes starts anew.
ConfigNoticed(c) ==
    /\ Receives(c, "changed")
    /\ filterTimer' = TRUE
    /\ UNCHANGED <<propertyVars, config, subtree, found, getAll, address, specVars,
                   ppinVars, pirom, post, changes>>

\* The wait is over: getCpuConfiguration asks the mapper.
FilterExpires ==
    /\ filterTimer
    /\ filterTimer' = FALSE
    /\ subtree' = subtree + 1
    /\ UNCHANGED <<propertyVars, config, messages, found, getAll, address, specVars,
                   ppinVars, pirom, post, changes>>

\* The mapper answers with the CPUs that are configured.
MapperServes ==
    /\ subtree > 0
    /\ subtree' = subtree - 1
    /\ found' = Append(found, {c \in Cpus : config[c] # "absent"})
    /\ UNCHANGED <<propertyVars, config, messages, filterTimer, getAll, address, specVars,
                   ppinVars, pirom, post, changes>>

\* getCpuConfiguration has the answer, and asks for each CPU that is in it.
MapperAnswered ==
    /\ found # << >>
    /\ found' = Tail(found)
    /\ getAll' = [c \in Cpus |-> IF c \in Head(found) THEN getAll[c] + 1 ELSE getAll[c]]
    /\ UNCHANGED <<propertyVars, config, messages, filterTimer, subtree, address, specVars,
                   ppinVars, pirom, post, changes>>

\* The service answers with the configuration of the CPU, or with an error.
GetAllServed(c) ==
    /\ getAll[c] > 0
    /\ getAll' = [getAll EXCEPT ![c] = @ - 1]
    /\ messages' = [messages EXCEPT ![c] = Append(@, config[c])]
    /\ UNCHANGED <<propertyVars, config, filterTimer, subtree, found, address, specVars,
                   ppinVars, pirom, post, changes>>

\* Mutant: the entry that is in cpuInfoMap stays there.
NewSpecKept(c) == IF sSpec[c] = NoCpu THEN NoSpec ELSE sSpec[c]

\* The sSpec of a CPUInfo made anew.
NewSpec(c) == NoSpec

\* getCpuAddress has the answer: the CPUInfo is replaced, and what it published goes
\* with it.  Without a number or an address, or without the object, nothing is done.
CpuAddressAnswered(c) ==
    /\ \/ /\ Receives(c, "absent") \/ Receives(c, "partial")
          /\ UNCHANGED <<propertyVars, address, specVars, ppinVars, changes>>
       \/ /\ \E a \in Addresses :
                 Receives(c, a) /\ address' = [address EXCEPT ![c] = a]
          /\ TryReadSSpec(c, NewSpec(c), loops[c])
          /\ Reads(c, << >>, 0)
          /\ left' = [left EXCEPT ![c] = waits[c]]
          /\ \/ PpinLater(c, waits[c]) /\ ppin' = [ppin EXCEPT ![c] = "unread"]
             \/ PpinRead(c, "unread", waits[c])
    /\ UNCHANGED <<config, callVars, pirom, post>>

-----------------------------------------------------------------------------
\* The service of the configuration changes it and says so, unless the CPU is gone.
Configure(c, conf) ==
    /\ Change
    /\ config' = [config EXCEPT ![c] = conf]
    /\ messages' = IF conf = "absent" THEN messages
                   ELSE [messages EXCEPT ![c] = Append(@, "changed")]
    /\ UNCHANGED <<propertyVars, callVars, address, specVars, ppinVars, pirom, post>>

\* The PIROM answers differently, or not at all.
PiromChanges(c) ==
    /\ Change
    /\ \E r \in Contents \cup {NoReply} : pirom' = [pirom EXCEPT ![c] = r]
    /\ UNCHANGED <<propertyVars, configVars, specVars, ppinVars, post>>

\* hostState changes.
HostChanges ==
    /\ post' = ~post
    /\ UNCHANGED <<propertyVars, configVars, specVars, ppinVars, pirom, changes>>

Configuration ==
    \/ FilterExpires
    \/ MapperServes
    \/ MapperAnswered
    \/ \E c \in Cpus : ConfigNoticed(c) \/ GetAllServed(c) \/ CpuAddressAnswered(c)

CpuInfoNext ==
    \/ Configuration
    \/ HostChanges
    \/ \E c \in Cpus :
           \/ SspecTimer(c)
           \/ WaitTimer(c)
           \/ PiromChanges(c)
           \/ \E conf \in Configs : Configure(c, conf)
           \/ PropertiesStep(c) /\ UNCHANGED <<configVars, specVars, ppinVars, pirom,
                                               post, changes>>

\* Calls are answered, messages handled and timers expire.
CpuInfoFairness ==
    /\ WF_cpuInfoVars(FilterExpires)
    /\ WF_cpuInfoVars(MapperServes)
    /\ WF_cpuInfoVars(MapperAnswered)
    /\ \A c \in Cpus :
           /\ WF_cpuInfoVars(ConfigNoticed(c))
           /\ WF_cpuInfoVars(GetAllServed(c))
           /\ WF_cpuInfoVars(CpuAddressAnswered(c))
           /\ WF_cpuInfoVars(SspecTimer(c))
           /\ WF_cpuInfoVars(WaitTimer(c))
    /\ PropertiesFairness

CpuInfoSpec == CpuInfoInit /\ [][CpuInfoNext]_cpuInfoVars

FairCpuInfoSpec == CpuInfoSpec /\ CpuInfoFairness

-----------------------------------------------------------------------------
\* A Model that is set is what the two latest successful reads gave, and both were
\* made since the CPUInfo was, however many loops of it and its predecessors read.
ModelWasConfirmed ==
    [][\A c \in Cpus :
           propertiesToSet'[c] # propertiesToSet[c] =>
               seen'[c] = <<Newest(c)', Newest(c)'>>]_cpuInfoVars

\* Two subsequent reads have to be successful and match: no failed read lies between.
SubsequentReads ==
    [][\A c \in Cpus :
           propertiesToSet'[c] # propertiesToSet[c] => ownFails[c] = 0]_cpuInfoVars

\* The loop gives up after several consecutive failures of its reads.
GivesUpOnOwnFailures ==
    [][\A c \in Cpus :
           ownFails'[c] > ownFails[c] /\ loops'[c] < loops[c] =>
               ownFails'[c] > MaxFailedReads]_cpuInfoVars

\* When the PIROMs settle, every loop comes to an end.
ReadingEnds == <>[](\A c \in Cpus : loops[c] = 0)

\* When the configuration settles, the CPUInfo of every configured CPU has its address in
\* the end, whatever answers about earlier configurations were on their way.
ConfigurationApplied ==
    <>[](\A c \in Cpus : config[c] \in Addresses => address[c] = config[c])

\* When POST stays complete, the PPIN of every CPUInfo is read, however often the
\* CPUInfo was replaced while it waited.
PpinIsRead ==
    <>[]post => <>[](\A c \in Cpus : sSpec[c] # NoCpu => ppin[c] # "unread")

\* What getPPIN has read for a CPUInfo is final, be it the PPIN, half of it or nothing,
\* until the CPUInfo is made anew, unless an earlier CPUInfo had left a wait behind: one
\* that is over reads, and publishes, again.
PpinFinal ==
    [][\A c \in Cpus :
           ppin[c] # "unread" /\ ppin'[c] # ppin[c] =>
               CpuAddressAnswered(c) \/ left[c] > 0]_cpuInfoVars

\* A PPIN is published if it is valid: half of one does not take the place of a whole one.
WholePpinKept ==
    [][\A c \in Cpus : ppin[c] = "whole" => ppin'[c] # "half"]_cpuInfoVars
=============================================================================
