------------------------------ MODULE SstConfig ------------------------------
(***************************************************************************)
(* The SST configurations of one CPU: discoverCPUsAndConfigs from the      *)
(* creation of the backend on, getSingleConfig with what SSTMailbox makes  *)
(* of the answers, and the properties of the CPUConfig that is published.  *)
(* The walk over several CPUs, its nesting and the count of errors are in  *)
(* SstDiscovery, the registers behind a command in SstMailbox; here a      *)
(* command is a step that answers, throws PECIError, or, if the caller     *)
(* asks for the status, reports an error.  Nothing else of the process     *)
(* runs between the commands for a CPU, but in-band software does.  The    *)
(* CPU and that software are external.                                     *)
(***************************************************************************)
EXTENDS Integers, SequencesExt

CONSTANTS
    Cpus,            \* the CPUs there may be
    WordBits,        \* the cores of which a word of a core mask tells (32)
    WordBuckets,     \* the turbo buckets in a word (4)
    LevelModulus,    \* 2^8: levels are fields of eight bits
    mhzPerRatio,     \* 100
    MaxDisturbances  \* bound: commands that fail, changes by in-band software

(***************************************************************************)
(* A CPU as its answers describe it.  enabled, maxLevel and the levels are *)
(* GetLevelsInfo and GetConfigTdpControl; a level that is not supported is *)
(* not in the domain of levels, and initial are the levels it may come up  *)
(* with.  trlCores is the MSR 0x1AE.  Cores are numbered through, and      *)
(* buckets are in order of the number of cores.                            *)
(***************************************************************************)
Core == 0 .. (2 * WordBits - 1)
maxTFBuckets == 2 * WordBuckets
Buckets == [1 .. maxTFBuckets -> 0 .. 255]

LevelInfo == [pkgTdp : Nat, cores : SUBSET Core, p1 : Nat, p0 : Nat, tProchot : Nat,
              pbfSupport : BOOLEAN, hiCores : SUBSET Core, p1Hi : Nat, p1Lo : Nat,
              limitRatios : Buckets]

\* High-priority cores are enabled ones, and later buckets are for more cores.
CpuConforms(c) ==
    /\ c.model \in {"iceLake", "sapphireRapids", "other"}
    /\ c.enabled \in BOOLEAN
    /\ c.maxLevel \in 0 .. (LevelModulus - 1)
    /\ c.initial \subseteq 0 .. (LevelModulus - 1) /\ c.initial # {}
    /\ c.trlCores \in Buckets
    /\ \A i, j \in 1 .. maxTFBuckets :
           i < j /\ c.trlCores[j] # 0 => c.trlCores[i] \in 1 .. (c.trlCores[j] - 1)
    /\ DOMAIN c.levels \subseteq 0 .. (LevelModulus - 1)
    /\ \A l \in DOMAIN c.levels :
           c.levels[l] \in LevelInfo /\ c.levels[l].hiCores \subseteq c.levels[l].cores

ASSUME SstConfigAssumption ==
    /\ WordBits \in Nat \ {0} /\ WordBuckets \in Nat \ {0}
    /\ LevelModulus \in Nat \ {0}
    /\ mhzPerRatio \in Nat \ {0}
    /\ MaxDisturbances \in Nat
    /\ \A c \in Cpus : CpuConforms(c)

VARIABLES
    cpu,           \* the CPU
    level,         \* its current level
    bf,            \* the levels in which BF is enabled
    hostState,     \* hostState
    pc,            \* what discovery does next
    at,            \* the level its loop is at
    currentLevel,  \* CPUConfig's copy of the level
    bfEnabled,     \* CPUConfig's copy of whether BF is enabled
    availConfigs,  \* CPUConfig's configurations
    misjudged,     \* history: the levels whose support was asked for in vain
    disturbances   \* how many there were

configVars == <<currentLevel, bfEnabled, availConfigs, misjudged>>
cpuVars == <<cpu, level, bf>>
sstConfigVars == <<cpuVars, hostState, pc, at, configVars, disturbances>>
-----------------------------------------------------------------------------
(***************************************************************************)
(* What becomes of the answers.                                            *)
(***************************************************************************)
\* A core mask comes as two words, each a set of bits.
CoreMask(cores) ==
    <<{c \in 0 .. (WordBits - 1) : c \in cores},
      {c \in 0 .. (WordBits - 1) : c + WordBits \in cores}>>

\* A loop that fills a vector: of item[1] to item[n], those whose number is in kept are
\* pushed back.
PushedBack(n, kept, item) ==
    LET vector[i \in Nat] ==
            IF i = 0 THEN << >>
            ELSE IF i \in kept THEN Append(vector[i - 1], item[i]) ELSE vector[i - 1]
    IN  vector[n]

convertMaskToList(mask) ==
    PushedBack(2 * WordBits, {b + 1 : b \in mask}, [i \in 1 .. (2 * WordBits) |-> i - 1])

\* Mutant: the high word is not shifted.
CoreListUnshifted(words) == convertMaskToList(words[1] \cup words[2])

\* enabledCoreList and bfHighPriorityCoreList
CoreList(words) == convertMaskToList(words[1] \cup {b + WordBits : b \in words[2]})

\* The buckets of a level come as two words as well.
RatioWord(info, w) == SubSeq(info.limitRatios, w * WordBuckets + 1, (w + 1) * WordBuckets)

\* Mutant: the words are put together in the wrong order.
sseTurboProfileSwapped(trlCores, ratioLo, ratioHi) ==
    LET limitRatios == ratioHi \o ratioLo
        entries == [i \in 1 .. maxTFBuckets |->
                       [speed |-> limitRatios[i] * mhzPerRatio, cores |-> trlCores[i]]]
        used == {i \in 1 .. maxTFBuckets : trlCores[i] # 0 /\ limitRatios[i] # 0}
    IN  PushedBack(maxTFBuckets, used, entries)

\* The buckets that have both cores and a ratio.
sseTurboProfile(trlCores, ratioLo, ratioHi) ==
    LET limitRatios == ratioLo \o ratioHi
        entries == [i \in 1 .. maxTFBuckets |->
                       [speed |-> limitRatios[i] * mhzPerRatio, cores |-> trlCores[i]]]
        used == {i \in 1 .. maxTFBuckets : trlCores[i] # 0 /\ limitRatios[i] # 0}
    IN  PushedBack(maxTFBuckets, used, entries)

\* getSingleConfig
baseSpeedPrioritySettings(info) ==
    LET totalCoreList == CoreList(CoreMask(info.cores))
        hiFreqCoreList == CoreList(CoreMask(info.hiCores))
        loFreqCoreList ==
            PushedBack(Len(totalCoreList),
                       {i \in 1 .. Len(totalCoreList) :
                           totalCoreList[i] \notin ToSet(hiFreqCoreList)},
                       totalCoreList)
    IN  IF ~info.pbfSupport THEN <<>>
        ELSE <<[speed |-> info.p1Hi * mhzPerRatio, list |-> hiFreqCoreList],
               [speed |-> info.p1Lo * mhzPerRatio, list |-> loFreqCoreList]>>

OperatingConfig(l) ==
    LET info == cpu.levels[l]
    IN  [level |-> l,
         powerLimit |-> info.pkgTdp,
         availableCoreCount |-> Len(CoreList(CoreMask(info.cores))),
         baseSpeed |-> info.p1 * mhzPerRatio,
         maxSpeed |-> info.p0 * mhzPerRatio,
         maxJunctionTemperature |-> info.tProchot,
         baseSpeedPrioritySettings |-> baseSpeedPrioritySettings(info),
         turboProfile |->
             sseTurboProfile(cpu.trlCores, RatioWord(info, 0), RatioWord(info, 1))]

createMailbox == cpu.model \in {"iceLake", "sapphireRapids"}
supportsControl == cpu.model = "sapphireRapids"

\* The levels that can be set, and whose objects are there.
Listed == {availConfigs[i].level : i \in 1 .. Len(availConfigs)}
-----------------------------------------------------------------------------
Walking == pc \notin {"idle", "wait", "published"}

Disturbance ==
    /\ disturbances < MaxDisturbances
    /\ disturbances' = disturbances + 1

\* The CPUConfig of an earlier discovery, or of one that failed, is dropped.
Dropped ==
    /\ availConfigs' = <<>>
    /\ misjudged' = {}
    /\ UNCHANGED <<currentLevel, bfEnabled>>

\* discoverOrWait, when the host leaves the off state, and when a retry is due.
HostOn ==
    /\ ~Walking
    /\ hostState = "off"
    /\ hostState' = "postInProgress"
    /\ level' \in cpu.initial
    /\ pc' = "ppEnabled"
    /\ Dropped
    /\ UNCHANGED <<cpu, bf, at, disturbances>>

Retry ==
    /\ pc = "wait"
    /\ IF hostState = "off" THEN UNCHANGED pc ELSE pc' = "ppEnabled"
    /\ Dropped
    /\ UNCHANGED <<cpuVars, hostState, at, disturbances>>

PostComplete ==
    /\ ~Walking
    /\ hostState = "postInProgress"
    /\ hostState' = "postComplete"
    /\ UNCHANGED <<cpuVars, pc, at, configVars, disturbances>>

HostOff ==
    /\ ~Walking
    /\ hostState # "off"
    /\ hostState' = "off"
    /\ UNCHANGED <<cpuVars, pc, at, configVars, disturbances>>

\* A step of the loop: only pc and at change.
Go(p, l) ==
    /\ pc' = p
    /\ at' = l
    /\ UNCHANGED <<cpuVars, hostState, disturbances>>

\* Mutant: the loop counts in the width of the field.
NextLevelWraps(l) == (l + 1) % LevelModulus

\* The loop counts in an unsigned int.
NextLevel(l) == l + 1

\* getInstance and ppEnabled.
PpEnabled ==
    /\ pc = "ppEnabled"
    /\ Go(IF createMailbox /\ cpu.enabled THEN "currentLevel" ELSE "idle", at)
    /\ UNCHANGED configVars

ReadCurrentLevel ==
    /\ pc = "currentLevel"
    /\ Go("bfEnabled", at)
    /\ currentLevel' = level
    /\ UNCHANGED <<bfEnabled, availConfigs, misjudged>>

\* The last command before CPUConfig is made; it fails for a level without support.
ReadBfEnabled ==
    /\ pc = "bfEnabled"
    /\ \/ /\ currentLevel \in DOMAIN cpu.levels
          /\ Go("maxLevel", 0)
          /\ bfEnabled' = (currentLevel \in bf)
          /\ UNCHANGED <<currentLevel, availConfigs, misjudged>>
       \/ /\ currentLevel \notin DOMAIN cpu.levels
          /\ Go("wait", at)
          /\ Dropped

\* The condition of the loop over the levels asks for the largest each time.
ReadMaxLevel ==
    /\ pc = "maxLevel"
    /\ Go(IF at <= cpu.maxLevel THEN "levelSupported" ELSE "finish", at)
    /\ UNCHANGED configVars

\* Mutant: the loop goes on without the next level.
LevelSupportedStays ==
    /\ pc = "levelSupported"
    /\ \/ at \in DOMAIN cpu.levels /\ Go("config", at)
       \/ at \notin DOMAIN cpu.levels /\ Go("maxLevel", at)
    /\ UNCHANGED configVars

LevelSupported ==
    /\ pc = "levelSupported"
    /\ \/ at \in DOMAIN cpu.levels /\ Go("config", at)
       \/ at \notin DOMAIN cpu.levels /\ Go("maxLevel", NextLevel(at))
    /\ UNCHANGED configVars

\* The command reports an error, whatever it is: the level counts as not supported.
LevelRefused ==
    /\ pc = "levelSupported"
    /\ Disturbance
    /\ pc' = "maxLevel"
    /\ at' = NextLevel(at)
    /\ misjudged' = misjudged \cup {at}
    /\ UNCHANGED <<cpuVars, hostState, currentLevel, bfEnabled, availConfigs>>

\* newConfig and getSingleConfig.
GetSingleConfig ==
    /\ pc = "config"
    /\ Go("maxLevel", NextLevel(at))
    /\ availConfigs' = Append(availConfigs, OperatingConfig(at))
    /\ UNCHANGED <<currentLevel, bfEnabled, misjudged>>

\* Mutant: the CPU is published whatever was found.
FinishUnchecked ==
    /\ pc = "finish"
    /\ Go("published", at)
    /\ UNCHANGED configVars

\* foundCurrentLevel, and finalize.
Finish ==
    /\ pc = "finish"
    /\ \/ currentLevel \in Listed /\ Go("published", at) /\ UNCHANGED configVars
       \/ currentLevel \notin Listed /\ Go("idle", at) /\ Dropped

\* A command throws: what was found is dropped, and the walk is retried.
PeciError ==
    /\ Walking /\ pc # "finish"
    /\ Disturbance
    /\ pc' = "wait"
    /\ Dropped
    /\ UNCHANGED <<cpuVars, hostState, at>>
-----------------------------------------------------------------------------
(***************************************************************************)
(* The properties.  A read that fails leaves the copy as it is.            *)
(***************************************************************************)
AppliedConfig ==
    /\ pc = "published"
    /\ hostState # "off"
    /\ currentLevel' = level
    /\ UNCHANGED <<cpuVars, hostState, pc, at, bfEnabled, availConfigs, misjudged,
                   disturbances>>

BaseSpeedPriorityEnabled ==
    /\ pc = "published"
    /\ hostState # "off"
    /\ currentLevel \in DOMAIN cpu.levels
    /\ bfEnabled' = (currentLevel \in bf)
    /\ UNCHANGED <<cpuVars, hostState, pc, at, currentLevel, availConfigs, misjudged,
                   disturbances>>

SetAppliedConfig(l) ==
    /\ pc = "published"
    /\ l \in Listed
    /\ supportsControl
    /\ hostState = "postComplete"
    /\ level' = l
    /\ currentLevel' = l
    /\ UNCHANGED <<cpu, bf, hostState, pc, at, bfEnabled, availConfigs, misjudged,
                   disturbances>>

\* The command fails, but PCode may have carried it out.
SetAppliedConfigFails(l) ==
    /\ pc = "published"
    /\ l \in Listed
    /\ supportsControl
    /\ hostState = "postComplete"
    /\ Disturbance
    /\ level' \in {level, l}
    /\ UNCHANGED <<cpu, bf, hostState, pc, at, configVars>>

\* In-band software chooses one of the levels, and enables or disables BF.
InBand ==
    /\ hostState # "off"
    /\ Disturbance
    /\ \E l \in {m \in DOMAIN cpu.levels : m <= cpu.maxLevel} :
           /\ level' = l
           /\ bf' \in {bf \cup {l}, bf \ {l}}
    /\ UNCHANGED <<cpu, hostState, pc, at, configVars>>

SstConfigInit ==
    /\ cpu \in Cpus
    /\ level \in cpu.initial
    /\ bf = {}
    /\ hostState = "off"
    /\ pc = "idle"
    /\ at = 0
    /\ currentLevel = 0
    /\ bfEnabled = FALSE
    /\ availConfigs = <<>>
    /\ misjudged = {}
    /\ disturbances = 0

\* A step of the walk that runs.
Walk ==
    \/ PpEnabled
    \/ ReadCurrentLevel
    \/ ReadBfEnabled
    \/ ReadMaxLevel
    \/ LevelSupported
    \/ LevelRefused
    \/ GetSingleConfig
    \/ Finish
    \/ PeciError

SstConfigNext ==
    \/ HostOn
    \/ Retry
    \/ PostComplete
    \/ HostOff
    \/ Walk
    \/ AppliedConfig
    \/ BaseSpeedPriorityEnabled
    \/ \E l \in Listed : SetAppliedConfig(l) \/ SetAppliedConfigFails(l)
    \/ InBand

SstConfigSpec == SstConfigInit /\ [][SstConfigNext]_sstConfigVars

\* A walk that runs goes on, and the retry timer expires.
FairSstConfigSpec == SstConfigSpec /\ WF_sstConfigVars(Walk) /\ WF_sstConfigVars(Retry)
-----------------------------------------------------------------------------
(***************************************************************************)
(* Properties.                                                             *)
(***************************************************************************)
SstConfigTypeOK ==
    /\ cpu \in Cpus
    /\ level \in 0 .. (LevelModulus - 1)
    /\ bf \subseteq DOMAIN cpu.levels
    /\ hostState \in {"off", "postInProgress", "postComplete"}
    /\ pc \in {"idle", "wait", "ppEnabled", "currentLevel", "bfEnabled", "maxLevel",
              "levelSupported", "config", "finish", "published"}
    /\ at \in 0 .. LevelModulus
    /\ currentLevel \in 0 .. (LevelModulus - 1)
    /\ bfEnabled \in BOOLEAN
    /\ Listed \subseteq DOMAIN cpu.levels
    /\ misjudged \subseteq 0 .. (LevelModulus - 1)
    /\ disturbances \in 0 .. MaxDisturbances

\* The levels are published in order and each once, the last one, which may be the
\* largest number of its field, and those behind a gap included (the loop of
\* discoverCPUsAndConfigs); only one whose support was asked for in vain is missing.
LevelsListed ==
    /\ \A i, j \in 1 .. Len(availConfigs) :
           i < j => availConfigs[i].level < availConfigs[j].level
    /\ pc = "published" =>
           \A l \in DOMAIN cpu.levels : l <= cpu.maxLevel => l \in Listed \cup misjudged

\* The level that AppliedConfig names has an object, although in-band software changes
\* the level during discovery and after it and the getter follows, unless its support
\* was asked for in vain (foundCurrentLevel).
AppliedIsListed == pc = "published" => currentLevel \in Listed \cup misjudged

\* The core lists of a configuration are those of the CPU: the words of a mask are put
\* together, the core count and the two priorities agree, and a core has one priority.
CoresExact ==
    \A i \in 1 .. Len(availConfigs) :
        LET config == availConfigs[i]
            info == cpu.levels[config.level]
            priority == config.baseSpeedPrioritySettings
        IN  /\ config.availableCoreCount = Cardinality(info.cores)
            /\ info.pbfSupport =>
                   /\ ToSet(priority[1].list) = info.hiCores
                   /\ ToSet(priority[1].list) \cup ToSet(priority[2].list) = info.cores
                   /\ Len(priority[1].list) + Len(priority[2].list)
                          = config.availableCoreCount

\* With n cores active the published profile allows the same speed as the CPU's
\* registers do, although empty buckets are left out of it (sseTurboProfile).
TurboExact ==
    \A i \in 1 .. Len(availConfigs) :
        LET profile == availConfigs[i].turboProfile
            ratios == cpu.levels[availConfigs[i].level].limitRatios
            Usable(n) == {b \in 1 .. maxTFBuckets : cpu.trlCores[b] >= n /\ ratios[b] # 0}
            Shown(n) == {k \in 1 .. Len(profile) : profile[k].cores >= n}
        IN  \A n \in {cpu.trlCores[b] : b \in 1 .. maxTFBuckets} \ {0} :
                /\ Usable(n) = {} <=> Shown(n) = {}
                /\ Usable(n) # {} =>
                       profile[Min(Shown(n))].speed = ratios[Min(Usable(n))] * mhzPerRatio

\* Discovery of a CPU comes to an end, whatever the CPU answers.
ConfigWalkEnds == Walking ~> ~Walking
=============================================================================
