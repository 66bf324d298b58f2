--------------------------- MODULE SstConfig_proofs ---------------------------
(***************************************************************************)
(* Which levels discovery publishes and which level it says is applied,    *)
(* for any CPU, any number of errors and any changes by in-band software.  *)
(***************************************************************************)
EXTENDS SstConfig, NaturalLemmas

Level == 0 .. (LevelModulus - 1)
Configs == {OperatingConfig(l) : l \in DOMAIN cpu.levels}

\* The levels that in-band software may choose, and discovery ought to publish.
Choosable == {m \in DOMAIN cpu.levels : m <= cpu.maxLevel}

InLoop == pc \in {"maxLevel", "levelSupported", "config"}

\* The configurations are in order, and of levels that discovery has come by.
InOrder ==
    /\ availConfigs \in Seq(Configs)
    /\ \A i, j \in 1 .. Len(availConfigs) :
           i < j => availConfigs[i].level < availConfigs[j].level
    /\ \A i \in 1 .. Len(availConfigs) :
           /\ availConfigs[i].level \in Choosable
           /\ InLoop => availConfigs[i].level < at

\* Where the loop is, and that it has left nothing behind.
LoopAt ==
    /\ pc \in {"idle", "wait", "ppEnabled", "currentLevel", "bfEnabled"}
           => availConfigs = << >>
    /\ pc = "maxLevel" => at <= cpu.maxLevel + 1
    /\ pc \in {"levelSupported", "config"} => at <= cpu.maxLevel
    /\ pc = "config" => at \in DOMAIN cpu.levels
    /\ InLoop => \A l \in Choosable : l < at => l \in Listed \cup misjudged
    /\ pc \in {"finish", "published"} => Choosable \subseteq Listed \cup misjudged

\* The CPU has the level that was read, or one that in-band software chose.
LevelChosen ==
    /\ InLoop \/ pc \in {"bfEnabled", "finish"} => level = currentLevel \/ level \in Choosable
    /\ pc = "published" => level \in Choosable /\ currentLevel \in Choosable

\* The invariant that the steps preserve.
ConfigInv == SstConfigTypeOK /\ InOrder /\ LoopAt /\ LevelChosen
-----------------------------------------------------------------------------
\* A configuration is of the level it was read for.
LEMMA LevelOf == \A l : OperatingConfig(l).level = l
  BY DEF OperatingConfig

\* What the assumption says of the CPU.
LEMMA CpuFacts ==
    ASSUME SstConfigTypeOK
    PROVE  /\ cpu.maxLevel \in Level /\ cpu.initial \subseteq Level
           /\ DOMAIN cpu.levels \subseteq Level /\ LevelModulus \in Nat \ {0}
           /\ Choosable \subseteq DOMAIN cpu.levels
  BY SstConfigAssumption DEF SstConfigTypeOK, CpuConforms, Level, Choosable

\* No configurations.
LEMMA NoneListed ==
    ASSUME NEW S
    PROVE  << >> \in Seq(S) /\ 1 .. Len(<< >>) = {}
  OBVIOUS

\* A discovery that is dropped leaves a state that keeps the invariant.
LEMMA DroppedInv ==
    ASSUME ConfigInv, Dropped, cpu' = cpu, level' \in Level, bf' = bf,
           hostState' \in {"off", "postInProgress", "postComplete"},
           pc' \in {"idle", "wait", "ppEnabled"}, at' = at,
           disturbances' \in 0 .. MaxDisturbances
    PROVE  ConfigInv'
<1>1. /\ availConfigs' = << >> /\ misjudged' = {}
      /\ currentLevel' = currentLevel /\ bfEnabled' = bfEnabled
  BY DEF Dropped
<1>2. Listed' = {}
  BY <1>1 DEF Listed
<1>3. SstConfigTypeOK'
  BY <1>1, <1>2 DEF ConfigInv, SstConfigTypeOK, Level
<1>4. InOrder'
  BY <1>1, NoneListed DEF InOrder
<1>5. LoopAt' /\ LevelChosen'
  BY <1>1 DEF LoopAt, LevelChosen, InLoop
<1>. QED
  BY <1>3, <1>4, <1>5 DEF ConfigInv

\* What is there of the CPUConfig stays: the configurations and the list.
LEMMA SameConfigs ==
    ASSUME availConfigs' = availConfigs, cpu' = cpu
    PROVE  Listed' = Listed /\ Configs' = Configs /\ Choosable' = Choosable
<1>1. Listed' = Listed /\ Choosable' = Choosable
  BY DEF Listed, Choosable
<1>2. Configs' = Configs
  BY DEF Configs, OperatingConfig
<1>. QED
  BY <1>1, <1>2

-----------------------------------------------------------------------------
\* The steps in front of the loop.
LEMMA BeforeLoopInv ==
    ASSUME ConfigInv, PpEnabled \/ ReadCurrentLevel \/ ReadBfEnabled
    PROVE  ConfigInv'
<1>1. CASE ReadBfEnabled /\ currentLevel \notin DOMAIN cpu.levels
  BY <1>1, DroppedInv DEF ReadBfEnabled, Go, cpuVars, ConfigInv, SstConfigTypeOK, Level
<1>2. CASE PpEnabled \/ ReadCurrentLevel
           \/ (ReadBfEnabled /\ currentLevel \in DOMAIN cpu.levels)
  <2>1. /\ availConfigs = << >> /\ availConfigs' = availConfigs /\ misjudged' = misjudged
        /\ cpu' = cpu /\ level' = level /\ bf' = bf /\ hostState' = hostState
        /\ disturbances' = disturbances
    BY <1>2 DEF PpEnabled, ReadCurrentLevel, ReadBfEnabled, Go, cpuVars, configVars,
       ConfigInv, LoopAt
  <2>2. Listed' = Listed /\ Configs' = Configs /\ Choosable' = Choosable
    BY <2>1, SameConfigs
  <2>3. /\ pc' \in {"idle", "currentLevel", "bfEnabled", "maxLevel"}
        /\ pc' = "maxLevel" => at' = 0
        /\ at' \in 0 .. LevelModulus
    BY <1>2, SstConfigAssumption DEF PpEnabled, ReadCurrentLevel, ReadBfEnabled, Go,
       ConfigInv, SstConfigTypeOK
  <2>4. currentLevel' \in Level
    BY <1>2 DEF PpEnabled, ReadCurrentLevel, ReadBfEnabled, configVars, ConfigInv,
       SstConfigTypeOK, Level
  <2>5. bfEnabled' \in BOOLEAN
    <3>1. bfEnabled' = bfEnabled \/ bfEnabled' = (currentLevel \in bf)
      BY <1>2 DEF PpEnabled, ReadCurrentLevel, ReadBfEnabled, configVars
    <3>2. bfEnabled \in BOOLEAN
      BY DEF ConfigInv, SstConfigTypeOK
    <3>3. (currentLevel \in bf) \in BOOLEAN
      OBVIOUS
    <3>. QED
      BY <3>1, <3>2, <3>3
  <2>6. SstConfigTypeOK'
    BY <2>1, <2>2, <2>3, <2>4, <2>5 DEF ConfigInv, SstConfigTypeOK, Level
  <2>7. InOrder'
    BY <2>1, <2>2, NoneListed DEF InOrder
  <2>8. LoopAt'
    <3>1. cpu.maxLevel \in Nat /\ \A l \in Choosable : ~(l < 0)
      BY CpuFacts, SstConfigAssumption DEF ConfigInv, Level
    <3>. QED
      BY <2>1, <2>2, <2>3, <3>1 DEF LoopAt, InLoop
  <2>9. LevelChosen'
    BY <1>2, <2>1, <2>2, <2>3 DEF PpEnabled, ReadCurrentLevel, ReadBfEnabled, Go,
       configVars, ConfigInv, LevelChosen, InLoop
  <2>. QED
    BY <2>6, <2>7, <2>8, <2>9 DEF ConfigInv
<1>. QED
  BY <1>1, <1>2 DEF ReadBfEnabled

\* The steps of the loop that leave the configurations as they are.
LEMMA LoopInv ==
    ASSUME ConfigInv, ReadMaxLevel \/ LevelSupported \/ LevelRefused
    PROVE  ConfigInv'
<1>1. /\ availConfigs' = availConfigs /\ currentLevel' = currentLevel
      /\ bfEnabled' = bfEnabled /\ cpu' = cpu /\ level' = level /\ bf' = bf
      /\ hostState' = hostState /\ InLoop
  BY DEF ReadMaxLevel, LevelSupported, LevelRefused, Go, cpuVars, configVars, InLoop
<1>2. Listed' = Listed /\ Configs' = Configs /\ Choosable' = Choosable
  BY <1>1, SameConfigs
<1>3. /\ cpu.maxLevel \in Level /\ DOMAIN cpu.levels \subseteq Level
      /\ LevelModulus \in Nat \ {0} /\ Choosable \subseteq DOMAIN cpu.levels
      /\ at \in 0 .. LevelModulus
  BY CpuFacts DEF ConfigInv, SstConfigTypeOK
<1>4. /\ pc = "maxLevel" => at <= cpu.maxLevel + 1
      /\ pc = "levelSupported" => at <= cpu.maxLevel
      /\ \A l \in Choosable : l < at => l \in Listed \cup misjudged
  BY <1>1 DEF ConfigInv, LoopAt
<1>5. disturbances' \in 0 .. MaxDisturbances
  BY SstConfigAssumption DEF ReadMaxLevel, LevelSupported, LevelRefused, Go, Disturbance,
     ConfigInv, SstConfigTypeOK
<1>6. \/ pc = "maxLevel" /\ at' = at /\ misjudged' = misjudged /\ at <= cpu.maxLevel
            /\ pc' = "levelSupported"
      \/ pc = "maxLevel" /\ at' = at /\ misjudged' = misjudged /\ ~(at <= cpu.maxLevel)
            /\ pc' = "finish"
      \/ pc = "levelSupported" /\ at' = at /\ misjudged' = misjudged /\ pc' = "config"
            /\ at \in DOMAIN cpu.levels
      \/ pc = "levelSupported" /\ at' = at + 1 /\ misjudged' = misjudged
            /\ pc' = "maxLevel" /\ at \notin DOMAIN cpu.levels
      \/ pc = "levelSupported" /\ at' = at + 1 /\ misjudged' = misjudged \cup {at}
            /\ pc' = "maxLevel"
  BY DEF ReadMaxLevel, LevelSupported, LevelRefused, Go, configVars, NextLevel
<1>7. at' \in 0 .. LevelModulus /\ misjudged' \subseteq Level
  <2>1. pc = "levelSupported" => at \in Level /\ at + 1 \in 0 .. LevelModulus
    BY <1>3, <1>4 DEF Level
  <2>2. misjudged \subseteq Level
    BY DEF ConfigInv, SstConfigTypeOK, Level
  <2>3. at' \in 0 .. LevelModulus
    BY <1>3, <1>6, <2>1
  <2>. QED
    BY <1>6, <2>1, <2>2, <2>3
<1>8. SstConfigTypeOK'
  BY <1>1, <1>2, <1>5, <1>6, <1>7 DEF ConfigInv, SstConfigTypeOK, Level
<1>9. InOrder'
  <2>1. ASSUME NEW i \in 1 .. Len(availConfigs)
        PROVE  availConfigs[i].level \in Choosable /\ availConfigs[i].level < at'
    <3>1. availConfigs[i].level \in Choosable /\ availConfigs[i].level < at
      BY <1>1 DEF ConfigInv, InOrder
    <3>. QED
      BY <1>3, <1>6, <3>1 DEF Level
  <2>. QED
    BY <1>1, <1>2, <2>1 DEF ConfigInv, InOrder
<1>10. LoopAt'
  <2>1. ASSUME NEW l \in Choosable, l < at' \/ pc' = "finish"
        PROVE  l \in Listed \cup misjudged'
    <3>1. l \in DOMAIN cpu.levels /\ l \in Level /\ l <= cpu.maxLevel
      BY <1>3 DEF Choosable
    <3>2. l < at \/ (l = at /\ at' = at + 1)
      BY <1>3, <1>6, <2>1, <3>1 DEF Level
    <3>3. misjudged \subseteq misjudged'
      BY <1>6
    <3>4. at' = at + 1 /\ at \in DOMAIN cpu.levels => at \in misjudged'
      BY <1>3, <1>6
    <3>. QED
      BY <1>4, <3>1, <3>2, <3>3, <3>4
  <2>2. pc' = "maxLevel" => at' <= cpu.maxLevel + 1
    BY <1>3, <1>4, <1>6 DEF Level
  <2>3. pc' \in {"levelSupported", "config"} => at' <= cpu.maxLevel
    BY <1>4, <1>6
  <2>. QED
    BY <1>1, <1>2, <1>6, <2>1, <2>2, <2>3 DEF LoopAt, InLoop
<1>11. LevelChosen'
  BY <1>1, <1>2, <1>6 DEF ConfigInv, LevelChosen, InLoop
<1>. QED
  BY <1>8, <1>9, <1>10, <1>11 DEF ConfigInv

\* The configuration of the level at hand is put behind the others.
LEMMA GetSingleConfigInv ==
    ASSUME ConfigInv, GetSingleConfig
    PROVE  ConfigInv'
<1>. DEFINE n == Len(availConfigs)
<1>1. /\ currentLevel' = currentLevel /\ misjudged' = misjudged /\ pc = "config"
      /\ bfEnabled' = bfEnabled /\ cpu' = cpu /\ level' = level /\ bf' = bf
      /\ hostState' = hostState /\ InLoop /\ disturbances' = disturbances
      /\ pc' = "maxLevel" /\ at' = at + 1
  BY DEF GetSingleConfig, Go, cpuVars, InLoop, NextLevel
<1>2. Configs' = Configs /\ Choosable' = Choosable
  BY <1>1 DEF Configs, Choosable, OperatingConfig
<1>3. /\ cpu.maxLevel \in Level /\ LevelModulus \in Nat \ {0}
      /\ DOMAIN cpu.levels \subseteq Level
      /\ at \in DOMAIN cpu.levels /\ at <= cpu.maxLevel
  BY <1>1, CpuFacts DEF ConfigInv, LoopAt
<1>4. at \in Level /\ at \in Choosable /\ at' \in 0 .. LevelModulus
  BY <1>1, <1>3 DEF Choosable, Level
<1>5. PICK c \in Configs : availConfigs' = Append(availConfigs, c) /\ c.level = at
  BY <1>3, LevelOf DEF GetSingleConfig, Configs
<1>6. availConfigs \in Seq(Configs) /\ n \in Nat
  BY DEF ConfigInv, InOrder
<1>7. /\ availConfigs' \in Seq(Configs) /\ Len(availConfigs') = n + 1
      /\ availConfigs'[n + 1] = c
      /\ \A i \in 1 .. n : availConfigs'[i] = availConfigs[i]
  BY <1>5, <1>6
<1>. HIDE DEF n
<1>8. \A i \in 1 .. (n + 1) : i \in 1 .. n \/ i = n + 1
  BY <1>6
<1>9. \A i \in 1 .. n : availConfigs[i].level \in Choosable /\ availConfigs[i].level < at
  BY <1>1 DEF ConfigInv, InOrder, n
<1>10. InOrder'
  <2>1. ASSUME NEW i \in 1 .. (n + 1)
        PROVE  availConfigs'[i].level \in Choosable /\ availConfigs'[i].level < at + 1
    <3>1. \A l \in Choosable : l \in Int
      BY <1>3 DEF Choosable, Level
    <3>2. at \in Int
      BY <1>4 DEF Level
    <3>3. CASE i \in 1 .. n
      <4>1. availConfigs'[i] = availConfigs[i]
        BY <1>7, <3>3
      <4>2. availConfigs[i].level \in Choosable /\ availConfigs[i].level < at
        BY <1>9, <3>3
      <4>. QED
        BY <3>1, <3>2, <4>1, <4>2
    <3>4. CASE i = n + 1
      BY <1>4, <1>5, <1>7, <3>2, <3>4
    <3>. QED
      BY <1>8, <3>3, <3>4
  <2>2. ASSUME NEW i \in 1 .. (n + 1), NEW j \in 1 .. (n + 1), i < j
        PROVE  availConfigs'[i].level < availConfigs'[j].level
    <3>1. i \in 1 .. n
      BY <1>6, <2>2
    <3>2. CASE j \in 1 .. n
      BY <1>7, <2>2, <3>1, <3>2 DEF ConfigInv, InOrder, n
    <3>3. CASE j = n + 1
      BY <1>5, <1>7, <1>9, <3>1, <3>3
    <3>. QED
      BY <1>8, <3>2, <3>3
  <2>. QED
    BY <1>1, <1>2, <1>7, <2>1, <2>2 DEF InOrder
<1>11. Listed' = Listed \cup {at}
  <2>1. ASSUME NEW x
        PROVE  x \in Listed' <=> x \in Listed \cup {at}
    BY <1>5, <1>6, <1>7, <1>8 DEF Listed, n
  <2>. QED
    BY <2>1
<1>12. SstConfigTypeOK'
  BY <1>1, <1>3, <1>4, <1>11 DEF ConfigInv, SstConfigTypeOK, Level
<1>13. LoopAt'
  <2>1. ASSUME NEW l \in Choosable, l < at + 1
        PROVE  l \in Listed' \cup misjudged
    <3>1. l < at \/ l = at
      BY <1>3, <1>4, <2>1 DEF Choosable, Level
    <3>. QED
      BY <1>1, <1>11, <3>1 DEF ConfigInv, LoopAt
  <2>2. at + 1 <= cpu.maxLevel + 1
    BY <1>3, <1>4 DEF Level
  <2>. QED
    BY <1>1, <1>2, <2>1, <2>2 DEF LoopAt, InLoop
<1>14. LevelChosen'
  BY <1>1, <1>2 DEF ConfigInv, LevelChosen, InLoop
<1>. QED
  BY <1>10, <1>12, <1>13, <1>14 DEF ConfigInv

\* The end of the loop: what is published has its level among the configurations.
LEMMA FinishInv ==
    ASSUME ConfigInv, Finish
    PROVE  ConfigInv'
<1>1. CASE currentLevel \notin Listed
  BY <1>1, DroppedInv DEF Finish, Go, cpuVars, ConfigInv, SstConfigTypeOK, Level
<1>2. CASE currentLevel \in Listed
  <2>1. /\ UNCHANGED <<cpuVars, hostState, at, configVars, disturbances>>
        /\ pc = "finish" /\ pc' = "published"
    BY <1>2 DEF Finish, Go
  <2>2. Listed' = Listed /\ Configs' = Configs /\ Choosable' = Choosable
    BY <2>1, SameConfigs DEF cpuVars, configVars
  <2>3. SstConfigTypeOK'
    BY <2>1, <2>2 DEF ConfigInv, SstConfigTypeOK, cpuVars, configVars
  <2>4. InOrder' /\ LoopAt'
    BY <2>1, <2>2 DEF ConfigInv, InOrder, LoopAt, InLoop, cpuVars, configVars
  <2>5. Listed \subseteq Choosable
    BY DEF ConfigInv, InOrder, Listed
  <2>6. LevelChosen'
    BY <1>2, <2>1, <2>2, <2>5 DEF ConfigInv, LevelChosen, InLoop, cpuVars, configVars
  <2>. QED
    BY <2>3, <2>4, <2>6 DEF ConfigInv
<1>. QED
  BY <1>1, <1>2

\* The steps that change the level of the CPU, or CPUConfig's copy of it or of BF.
LEMMA PropertyInv ==
    ASSUME ConfigInv, cpu' = cpu, at' = at, pc' = pc, availConfigs' = availConfigs,
           misjudged' = misjudged, hostState' \in {"off", "postInProgress", "postComplete"},
           disturbances' \in 0 .. MaxDisturbances, bfEnabled' \in BOOLEAN,
           bf' \subseteq DOMAIN cpu.levels,
           level' = level \/ level' \in Choosable,
           \/ currentLevel' = currentLevel
           \/ pc = "published" /\ currentLevel' \in Choosable
    PROVE  ConfigInv'
<1>1. Listed' = Listed /\ Configs' = Configs /\ Choosable' = Choosable
  BY SameConfigs
<1>2. Choosable \subseteq Level
  BY CpuFacts DEF ConfigInv
<1>3. SstConfigTypeOK'
  BY <1>1, <1>2 DEF ConfigInv, SstConfigTypeOK, Level
<1>4. InOrder' /\ LoopAt'
  BY <1>1 DEF ConfigInv, InOrder, LoopAt, InLoop
<1>5. LevelChosen'
  BY <1>1 DEF ConfigInv, LevelChosen, InLoop
<1>. QED
  BY <1>3, <1>4, <1>5 DEF ConfigInv

\* The D-Bus properties, in-band software, and the host.
LEMMA OutsideInv ==
    ASSUME ConfigInv,
           \/ AppliedConfig \/ BaseSpeedPriorityEnabled \/ InBand \/ PostComplete \/ HostOff
           \/ \E l \in Listed : SetAppliedConfig(l) \/ SetAppliedConfigFails(l)
    PROVE  ConfigInv'
<1>1. /\ cpu' = cpu /\ at' = at /\ pc' = pc /\ availConfigs' = availConfigs
      /\ misjudged' = misjudged
      /\ hostState' \in {"off", "postInProgress", "postComplete"}
  BY DEF AppliedConfig, BaseSpeedPriorityEnabled, InBand, PostComplete, HostOff,
     SetAppliedConfig, SetAppliedConfigFails, cpuVars, configVars, ConfigInv,
     SstConfigTypeOK
<1>2. disturbances' \in 0 .. MaxDisturbances
  BY SstConfigAssumption DEF AppliedConfig, BaseSpeedPriorityEnabled, InBand, PostComplete,
     HostOff, SetAppliedConfig, SetAppliedConfigFails, Disturbance, ConfigInv,
     SstConfigTypeOK
<1>3. bfEnabled' \in BOOLEAN
  <2>1. bfEnabled' = bfEnabled \/ bfEnabled' = (currentLevel \in bf)
    BY DEF AppliedConfig, BaseSpeedPriorityEnabled, InBand, PostComplete, HostOff,
       SetAppliedConfig, SetAppliedConfigFails, configVars
  <2>2. bfEnabled \in BOOLEAN
    BY DEF ConfigInv, SstConfigTypeOK
  <2>3. (currentLevel \in bf) \in BOOLEAN
    OBVIOUS
  <2>. QED
    BY <2>1, <2>2, <2>3
<1>4. bf' \subseteq DOMAIN cpu.levels
  BY DEF AppliedConfig, BaseSpeedPriorityEnabled, InBand, PostComplete, HostOff,
     SetAppliedConfig, SetAppliedConfigFails, cpuVars, ConfigInv, SstConfigTypeOK
<1>5. Listed \subseteq Choosable
  BY DEF ConfigInv, InOrder, Listed
<1>6. level' = level \/ level' \in Choosable
  BY <1>5 DEF AppliedConfig, BaseSpeedPriorityEnabled, InBand, PostComplete, HostOff,
     SetAppliedConfig, SetAppliedConfigFails, cpuVars, Choosable
<1>7. \/ currentLevel' = currentLevel
      \/ pc = "published" /\ currentLevel' \in Choosable
  BY <1>5 DEF AppliedConfig, BaseSpeedPriorityEnabled, InBand, PostComplete, HostOff,
     SetAppliedConfig, SetAppliedConfigFails, configVars, ConfigInv, LevelChosen
<1>. QED
  BY <1>1, <1>2, <1>3, <1>4, <1>6, <1>7, PropertyInv

\* Discovery begins again, or a command throws.
LEMMA AgainInv ==
    ASSUME ConfigInv, HostOn \/ Retry \/ PeciError
    PROVE  ConfigInv'
<1>1. /\ Dropped /\ cpu' = cpu /\ bf' = bf /\ at' = at
      /\ pc' \in {"idle", "wait", "ppEnabled"}
      /\ hostState' \in {"off", "postInProgress", "postComplete"}
  BY DEF HostOn, Retry, PeciError, cpuVars, ConfigInv, SstConfigTypeOK
<1>2. disturbances' \in 0 .. MaxDisturbances
  BY SstConfigAssumption DEF HostOn, Retry, PeciError, Disturbance, ConfigInv,
     SstConfigTypeOK
<1>3. level' \in Level
  BY CpuFacts DEF HostOn, Retry, PeciError, cpuVars, ConfigInv, SstConfigTypeOK, Level
<1>. QED
  BY <1>1, <1>2, <1>3, DroppedInv

\* ConfigInv holds in every state that the application reaches.
THEOREM ConfigInvariant == SstConfigSpec => []ConfigInv
<1>1. SstConfigInit => ConfigInv
  <2>. SUFFICES ASSUME SstConfigInit
                PROVE  ConfigInv
    OBVIOUS
  <2>1. Listed = {} /\ availConfigs = << >>
    BY DEF SstConfigInit, Listed
  <2>2. SstConfigTypeOK
    <3>1. cpu \in Cpus /\ level \in cpu.initial /\ CpuConforms(cpu)
      BY SstConfigAssumption DEF SstConfigInit
    <3>2. level \in 0 .. (LevelModulus - 1)
      BY <3>1 DEF CpuConforms
    <3>3. /\ 0 \in 0 .. LevelModulus /\ 0 \in 0 .. (LevelModulus - 1)
          /\ 0 \in 0 .. MaxDisturbances
      BY SstConfigAssumption
    <3>. QED
      BY <2>1, <3>1, <3>2, <3>3 DEF SstConfigInit, SstConfigTypeOK
  <2>3. InOrder
    BY <2>1, NoneListed DEF InOrder
  <2>. QED
    BY <2>1, <2>2, <2>3 DEF SstConfigInit, ConfigInv, LoopAt, LevelChosen, InLoop
<1>2. ConfigInv /\ [SstConfigNext]_sstConfigVars => ConfigInv'
  <2>. SUFFICES ASSUME ConfigInv, [SstConfigNext]_sstConfigVars
                PROVE  ConfigInv'
    OBVIOUS
  <2>1. CASE HostOn \/ Retry \/ PeciError
    BY <2>1, AgainInv
  <2>2. CASE PpEnabled \/ ReadCurrentLevel \/ ReadBfEnabled
    BY <2>2, BeforeLoopInv
  <2>3. CASE ReadMaxLevel \/ LevelSupported \/ LevelRefused
    BY <2>3, LoopInv
  <2>4. CASE GetSingleConfig
    BY <2>4, GetSingleConfigInv
  <2>5. CASE Finish
    BY <2>5, FinishInv
  <2>6. CASE \/ AppliedConfig \/ BaseSpeedPriorityEnabled \/ InBand \/ PostComplete
             \/ HostOff
             \/ \E l \in Listed : SetAppliedConfig(l) \/ SetAppliedConfigFails(l)
    BY <2>6, OutsideInv
  <2>7. CASE UNCHANGED sstConfigVars
    BY <2>7, PropertyInv DEF sstConfigVars, cpuVars, configVars, ConfigInv, SstConfigTypeOK
  <2>. QED
    BY <2>1, <2>2, <2>3, <2>4, <2>5, <2>6, <2>7 DEF SstConfigNext, Walk
<1>. QED
  BY <1>1, <1>2, PTL DEF SstConfigSpec

\* Every state is in its types: neither the levels of a CPU nor the loop over them
\* leave the range of the eight-bit field, and its one successor.
THEOREM SstConfigTypeCorrect == SstConfigSpec => []SstConfigTypeOK
  BY ConfigInvariant, PTL DEF ConfigInv

\* The published levels are in order, and complete but for those whose support was
\* asked for in vain, for every CPU.
THEOREM LevelsAlwaysListed == SstConfigSpec => []LevelsListed
<1>1. ConfigInv => LevelsListed
  BY DEF ConfigInv, InOrder, LoopAt, LevelsListed, Choosable
<1>. QED
  BY <1>1, ConfigInvariant, PTL

\* The applied level has an object, whatever in-band software does during discovery.
THEOREM AppliedAlwaysListed == SstConfigSpec => []AppliedIsListed
<1>1. ConfigInv => AppliedIsListed
  BY DEF ConfigInv, LoopAt, LevelChosen, AppliedIsListed
<1>. QED
  BY <1>1, ConfigInvariant, PTL
-----------------------------------------------------------------------------
(***************************************************************************)
(* What the loops that fill vectors make of masks and buckets.             *)
(***************************************************************************)
\* s has the items whose numbers are in kept and at most i, in the order of the numbers,
\* which e gives.
Lists(s, e, i, kept, item) ==
    /\ e \in [1 .. Len(s) -> {j \in kept : j <= i}]
    /\ \A k \in 1 .. Len(s) : s[k] = item[e[k]]
    /\ \A j, k \in 1 .. Len(s) : j < k => e[j] < e[k]
    /\ \A j \in {q \in kept : q <= i} : \E k \in 1 .. Len(s) : e[k] = j

\* The loop pushes back each item that is kept once, in order.
LEMMA PushedBackLists ==
    ASSUME NEW n \in Nat, NEW kept \in SUBSET (1 .. n), NEW V, NEW item \in [1 .. n -> V]
    PROVE  /\ PushedBack(n, kept, item) \in Seq(V)
           /\ Len(PushedBack(n, kept, item)) = Cardinality(kept)
           /\ \E e : Lists(PushedBack(n, kept, item), e, n, kept, item)
<1>. DEFINE vector[i \in Nat] ==
                IF i = 0 THEN << >>
                ELSE IF i \in kept THEN Append(vector[i - 1], item[i]) ELSE vector[i - 1]
<1>1. PushedBack(n, kept, item) = vector[n]
  BY DEF PushedBack
<1>2. \E f \in [Nat -> Seq(V)] :
          f = [i \in Nat |-> IF i = 0 THEN << >>
                             ELSE IF i \in kept THEN Append(f[i - 1], item[i]) ELSE f[i - 1]]
  <2>. DEFINE v == [i \in Nat |-> << >>]
              R == [i \in Nat |-> IF i = 0 THEN 0 ELSE i - 1]
              c == [i \in Nat |-> [w \in Seq(V) |-> IF i \in kept THEN Append(w, item[i]) ELSE w]]
              m == [i \in Nat |-> i]
              B == {0}
  <2>1. v \in [Nat -> Seq(V)] /\ R \in [Nat -> Nat] /\ m \in [Nat -> Nat]
    OBVIOUS
  <2>2. c \in [Nat -> [Seq(V) -> Seq(V)]]
    <3>1. ASSUME NEW i \in Nat, NEW w \in Seq(V)
          PROVE  (IF i \in kept THEN Append(w, item[i]) ELSE w) \in Seq(V)
      OBVIOUS
    <3>. QED
      BY <3>1
  <2>3. \A i \in Nat \ B : m[R[i]] < m[i]
    OBVIOUS
  <2>4. \A i \in Nat : v[i] = << >> /\ (i # 0 => R[i] = i - 1)
    OBVIOUS
  <2>5. \A i \in Nat, w \in Seq(V) : c[i][w] = IF i \in kept THEN Append(w, item[i]) ELSE w
    OBVIOUS
  <2>6. \A i \in Nat : i \in B <=> i = 0
    OBVIOUS
  <2>. HIDE DEF v, R, c, m, B
  <2>7. Descends(Nat, Seq(V), B, v, R, c, m)
    BY <2>1, <2>2, <2>3 DEF Descends
  <2>8. PICK f \in [Nat -> Seq(V)] : Recursion(f, Nat, B, v, R, c)
    BY <2>7, RecursionExists
  <2>9. ASSUME NEW i \in Nat
        PROVE  f[i] = IF i = 0 THEN << >>
                      ELSE IF i \in kept THEN Append(f[i - 1], item[i]) ELSE f[i - 1]
    <3>1. CASE i = 0
      BY <2>4, <2>6, <2>8, <3>1 DEF Recursion
    <3>2. CASE i # 0
      <4>1. i - 1 \in Nat /\ f[i - 1] \in Seq(V)
        BY <3>2
      <4>2. f[i] = c[i][f[i - 1]]
        BY <2>4, <2>6, <2>8, <3>2 DEF Recursion
      <4>. QED
        BY <2>5, <3>2, <4>1, <4>2
    <3>. QED
      BY <3>1, <3>2
  <2>. QED
    BY <2>9
<1>3. vector = [i \in Nat |-> IF i = 0 THEN << >>
                           ELSE IF i \in kept THEN Append(vector[i - 1], item[i])
                           ELSE vector[i - 1]]
  BY <1>2
<1>. HIDE DEF vector
<1>4. /\ vector[0] = << >>
      /\ \A i \in Nat : vector[i + 1] = IF i + 1 \in kept THEN Append(vector[i], item[i + 1])
                                        ELSE vector[i]
  <2>1. \A i \in Nat : vector[i] = IF i = 0 THEN << >>
                                   ELSE IF i \in kept THEN Append(vector[i - 1], item[i])
                                   ELSE vector[i - 1]
    BY <1>3, Zenon
  <2>2. vector[0] = << >>
    BY <2>1
  <2>3. ASSUME NEW i \in Nat, NEW j \in Nat, j = i + 1
        PROVE  vector[j] = IF j \in kept THEN Append(vector[i], item[j]) ELSE vector[i]
    <3>1. j # 0 /\ j - 1 = i
      BY <2>3
    <3>. QED
      BY <2>1, <3>1, Zenon
  <2>4. \A i \in Nat : i + 1 \in Nat
    OBVIOUS
  <2>. QED
    BY <2>2, <2>3, <2>4, Zenon
<1>. DEFINE Upto(i) == {j \in kept : j <= i}
            T == {i \in Nat : i <= n => /\ vector[i] \in Seq(V)
                                        /\ Len(vector[i]) = Cardinality(Upto(i))
                                        /\ \E e : Lists(vector[i], e, i, kept, item)}
<1>5. \A j \in kept : j \in Nat /\ j >= 1 /\ j <= n
  OBVIOUS
<1>6. \A i \in Nat : IsFiniteSet(Upto(i)) /\ Cardinality(Upto(i)) \in Nat
  <2>1. kept \in SUBSET (0 .. n)
    BY <1>5
  <2>. QED
    BY <2>1, FiniteParts
<1>7. 0 \in T
  <2>1. Upto(0) = {}
    <3>1. \A j \in kept : ~(j <= 0)
      BY <1>5
    <3>. QED
      BY <3>1, Zenon
  <2>2. Cardinality(Upto(0)) = 0
    BY <2>1, FS_EmptySet
  <2>3. Len(vector[0]) = 0 /\ 1 .. Len(vector[0]) = {}
    BY <1>4
  <2>4. [k \in {} |-> 0] \in [1 .. Len(vector[0]) -> Upto(0)]
    BY <2>3
  <2>5. Lists(vector[0], [k \in {} |-> 0], 0, kept, item)
    BY <2>1, <2>3, <2>4 DEF Lists
  <2>6. vector[0] \in Seq(V)
    BY <1>4
  <2>. QED
    BY <2>2, <2>3, <2>5, <2>6
<1>8. ASSUME NEW i \in T PROVE i + 1 \in T
  <2>. SUFFICES ASSUME i + 1 <= n
                PROVE  /\ vector[i + 1] \in Seq(V)
                       /\ Len(vector[i + 1]) = Cardinality(Upto(i + 1))
                       /\ \E e : Lists(vector[i + 1], e, i + 1, kept, item)
    OBVIOUS
  <2>1. i \in Nat /\ i <= n
    OBVIOUS
  <2>2. vector[i] \in Seq(V) /\ Len(vector[i]) = Cardinality(Upto(i))
    BY <2>1
  <2>3. PICK e : Lists(vector[i], e, i, kept, item)
    BY <2>1
  <2>. DEFINE s == vector[i]
              l == Len(s)
              q == i + 1
  <2>4. \A j \in kept : j <= q <=> j <= i \/ j = q
    BY <1>5
  <2>5. CASE q \notin kept
    <3>1. vector[q] = s
      BY <1>4, <2>1, <2>5
    <3>2. Upto(q) = Upto(i)
      BY <2>4, <2>5, Zenon
    <3>3. Lists(vector[q], e, q, kept, item)
      BY <2>3, <3>1, <3>2, Zenon DEF Lists
    <3>. QED
      BY <2>2, <3>1, <3>2, <3>3
  <2>6. CASE q \in kept
    <3>1. vector[q] = Append(s, item[q]) /\ s \in Seq(V) /\ l \in Nat /\ item[q] \in V
      <4>1. vector[q] = Append(s, item[q])
        BY <1>4, <2>1, <2>6, Zenon
      <4>2. item[q] \in V
        BY <2>6
      <4>3. s \in Seq(V) /\ l \in Nat
        BY <2>2
      <4>. QED
        BY <4>1, <4>2, <4>3
    <3>2. /\ Len(vector[q]) = l + 1 /\ vector[q][l + 1] = item[q]
          /\ \A k \in 1 .. l : vector[q][k] = s[k]
      BY <3>1
    <3>3. Upto(q) = Upto(i) \cup {q}
      BY <2>4, <2>6, Zenon
    <3>4. q \notin Upto(i)
      BY <2>1
    <3>5. Cardinality(Upto(q)) = l + 1
      <4>. HIDE DEF Upto, q, l
      <4>1. Cardinality(Upto(i) \cup {q}) = Cardinality(Upto(i)) + 1
        BY <1>6, <2>1, <3>4, FS_AddElement
      <4>. QED
        BY <2>2, <3>3, <4>1 DEF l
    <3>6. \A k \in 1 .. (l + 1) : k \in 1 .. l \/ k = l + 1
      BY <3>1
    <3>. DEFINE g == [k \in 1 .. (l + 1) |-> IF k = l + 1 THEN q ELSE e[k]]
    <3>7. \A k \in 1 .. l : k \in 1 .. (l + 1) /\ k # l + 1 /\ g[k] = e[k] /\ e[k] \in Upto(i)
      <4>1. \A k \in 1 .. l : k \in 1 .. (l + 1) /\ k # l + 1
        BY <3>1
      <4>2. \A k \in 1 .. l : e[k] \in Upto(i)
        BY <2>3 DEF Lists
      <4>. QED
        BY <4>1, <4>2, Zenon
    <3>8. l + 1 \in 1 .. (l + 1) /\ g[l + 1] = q
      BY <3>1
    <3>9. g \in [1 .. (l + 1) -> Upto(q)]
      BY <3>3, <3>6, <3>7, <3>8
    <3>. HIDE DEF g
    <3>10. \A k \in 1 .. (l + 1) : vector[q][k] = item[g[k]]
      BY <2>3, <3>2, <3>6, <3>7, <3>8 DEF Lists
    <3>11. ASSUME NEW j \in 1 .. (l + 1), NEW k \in 1 .. (l + 1), j < k PROVE g[j] < g[k]
      <4>1. j \in 1 .. l
        BY <3>1, <3>11
      <4>2. CASE k \in 1 .. l
        BY <2>3, <3>7, <3>11, <4>1, <4>2 DEF Lists
      <4>3. CASE k = l + 1
        <5>1. g[j] \in Upto(i) /\ g[k] = q
          BY <3>7, <3>8, <4>1, <4>3
        <5>2. g[j] \in Nat /\ g[j] <= i
          BY <1>5, <5>1
        <5>. QED
          BY <2>1, <5>1, <5>2
      <4>. QED
        BY <3>6, <4>2, <4>3
    <3>12. ASSUME NEW j \in Upto(q) PROVE \E k \in 1 .. (l + 1) : g[k] = j
      <4>1. CASE j = q
        BY <3>8, <4>1
      <4>2. CASE j \in Upto(i)
        BY <2>3, <3>7, <4>2 DEF Lists
      <4>. QED
        BY <3>3, <4>1, <4>2
    <3>13. Lists(vector[q], g, q, kept, item)
      BY <3>2, <3>9, <3>10, <3>11, <3>12 DEF Lists
    <3>. QED
      BY <3>1, <3>2, <3>5, <3>13
  <2>. QED
    BY <2>5, <2>6
<1>9. T = Nat
  <2>. HIDE DEF T
  <2>. QED
    BY <1>7, <1>8, SetInduction DEF T
<1>10. Upto(n) = kept
  BY <1>5, Zenon
<1>11. n \in T /\ n <= n
  <2>. HIDE DEF T
  <2>. QED
    BY <1>9
<1>12. /\ vector[n] \in Seq(V) /\ Len(vector[n]) = Cardinality(kept)
       /\ \E e : Lists(vector[n], e, n, kept, item)
  BY <1>10, <1>11
<1>. QED
  BY <1>1, <1>12

\* The list of a mask has each core of the mask once: the bits of the two words are put
\* together.
LEMMA CoreListExact ==
    ASSUME NEW cores \in SUBSET Core
    PROVE  /\ CoreList(CoreMask(cores)) \in Seq(Core)
           /\ ToSet(CoreList(CoreMask(cores))) = cores
           /\ Len(CoreList(CoreMask(cores))) = Cardinality(cores)
           /\ IsFiniteSet(cores) /\ Cardinality(cores) \in Nat
           /\ \A j, k \in 1 .. Len(CoreList(CoreMask(cores))) :
                  CoreList(CoreMask(cores))[j] = CoreList(CoreMask(cores))[k] => j = k
<1>. DEFINE W == 2 * WordBits
            words == CoreMask(cores)
            mask == words[1] \cup {b + WordBits : b \in words[2]}
            kept == {b + 1 : b \in cores}
            item == [i \in 1 .. W |-> i - 1]
            list == CoreList(words)
<1>1. WordBits \in Nat \ {0} /\ W \in Nat /\ Core = 0 .. (W - 1)
  BY SstConfigAssumption DEF Core
<1>2. mask = cores
  <2>1. /\ words[1] = {c \in 0 .. (WordBits - 1) : c \in cores}
        /\ words[2] = {c \in 0 .. (WordBits - 1) : c + WordBits \in cores}
    BY DEF CoreMask
  <2>2. ASSUME NEW c \in cores PROVE c \in mask
    <3>1. c \in 0 .. (WordBits - 1) \/ (c - WordBits \in 0 .. (WordBits - 1))
      BY <1>1
    <3>2. (c - WordBits) + WordBits = c
      BY <1>1
    <3>. QED
      BY <2>1, <3>1, <3>2
  <2>3. ASSUME NEW c \in mask PROVE c \in cores
    BY <2>1, <2>3
  <2>. HIDE DEF mask
  <2>. QED
    BY <2>2, <2>3
<1>3. list = PushedBack(W, kept, item)
  BY <1>2 DEF CoreList, convertMaskToList
<1>4. kept \in SUBSET (1 .. W) /\ item \in [1 .. W -> Core]
  BY <1>1
<1>5. \A c \in cores : c \in Nat /\ c + 1 \in kept /\ c + 1 \in 1 .. W /\ item[c + 1] = c
  BY <1>1
<1>6. \A i \in kept : item[i] \in cores /\ item[i] + 1 = i /\ i \in Nat /\ i <= W
  BY <1>1
<1>. HIDE DEF kept, item, list, W
<1>7. /\ list \in Seq(Core) /\ Len(list) = Cardinality(kept)
      /\ \E e : Lists(list, e, W, kept, item)
  BY <1>1, <1>3, <1>4, PushedBackLists
<1>8. PICK e : Lists(list, e, W, kept, item)
  BY <1>7
<1>9. \A k \in 1 .. Len(list) : e[k] \in kept /\ list[k] = item[e[k]]
  BY <1>8 DEF Lists
<1>10. \A c \in cores : \E k \in 1 .. Len(list) : list[k] = c
  BY <1>1, <1>5, <1>6, <1>8, <1>9 DEF Lists
<1>11. ToSet(list) = cores
  <2>1. DOMAIN list = 1 .. Len(list)
    BY <1>7
  <2>2. \A k \in 1 .. Len(list) : list[k] \in cores
    BY <1>6, <1>9
  <2>. QED
    BY <1>10, <2>1, <2>2 DEF ToSet
<1>12. IsFiniteSet(cores) /\ Cardinality(cores) \in Nat
  <2>1. cores \in SUBSET (0 .. W)
    BY <1>1, <1>5 DEF W
  <2>. QED
    BY <1>1, <2>1, FiniteParts
<1>13. Cardinality(kept) = Cardinality(cores)
  <2>. DEFINE f == [c \in cores |-> c + 1]
  <2>1. f \in [cores -> kept]
    BY <1>5
  <2>2. \A x, y \in cores : f[x] = f[y] => x = y
    BY <1>5
  <2>3. \A z \in kept : \E x \in cores : f[x] = z
    BY <1>6
  <2>. HIDE DEF f
  <2>. QED
    BY <1>12, <2>1, <2>2, <2>3, SameSize
<1>14. ASSUME NEW j \in 1 .. Len(list), NEW k \in 1 .. Len(list), list[j] = list[k]
       PROVE  j = k
  <2>1. e[j] = e[k] /\ e[j] \in Nat
    BY <1>6, <1>9, <1>14
  <2>2. ~(j < k) /\ ~(k < j)
    BY <1>8, <2>1 DEF Lists
  <2>3. j \in Nat /\ k \in Nat
    OBVIOUS
  <2>. QED
    BY <2>2, <2>3
<1>. QED
  BY <1>7, <1>11, <1>12, <1>13, <1>14 DEF list

\* What a configuration shows of its level.
LEMMA ConfigFields ==
    ASSUME NEW l
    PROVE  /\ OperatingConfig(l).availableCoreCount
                  = Len(CoreList(CoreMask(cpu.levels[l].cores)))
           /\ OperatingConfig(l).baseSpeedPrioritySettings
                  = baseSpeedPrioritySettings(cpu.levels[l])
           /\ OperatingConfig(l).turboProfile
                  = sseTurboProfile(cpu.trlCores, RatioWord(cpu.levels[l], 0),
                                    RatioWord(cpu.levels[l], 1))
  BY DEF OperatingConfig

\* What the assumption says of a level.
LEMMA LevelFacts ==
    ASSUME ConfigInv, NEW i \in 1 .. Len(availConfigs)
    PROVE  /\ availConfigs[i] = OperatingConfig(availConfigs[i].level)
           /\ cpu.levels[availConfigs[i].level] \in LevelInfo
           /\ cpu.levels[availConfigs[i].level].hiCores
                  \subseteq cpu.levels[availConfigs[i].level].cores
           /\ cpu.trlCores \in Buckets
<1>1. PICK l \in DOMAIN cpu.levels : availConfigs[i] = OperatingConfig(l)
  BY DEF ConfigInv, InOrder, Configs
<1>2. CpuConforms(cpu)
  BY SstConfigAssumption DEF ConfigInv, SstConfigTypeOK
<1>3. availConfigs[i].level = l
  BY <1>1, LevelOf
<1>. QED
  BY <1>1, <1>2, <1>3 DEF CpuConforms

\* The lists of a configuration: no core of the CPU is left out, shown twice or given
\* both priorities, whatever its masks.
THEOREM CoresAlwaysExact == SstConfigSpec => []CoresExact
<1>1. ConfigInv => CoresExact
  <2>. SUFFICES ASSUME ConfigInv, NEW i \in 1 .. Len(availConfigs)
                PROVE  LET config == availConfigs[i]
                           info == cpu.levels[config.level]
                           priority == config.baseSpeedPrioritySettings
                       IN  /\ config.availableCoreCount = Cardinality(info.cores)
                           /\ info.pbfSupport =>
                                  /\ ToSet(priority[1].list) = info.hiCores
                                  /\ ToSet(priority[1].list) \cup ToSet(priority[2].list)
                                         = info.cores
                                  /\ Len(priority[1].list) + Len(priority[2].list)
                                         = config.availableCoreCount
    BY DEF CoresExact
  <2>. DEFINE config == availConfigs[i]
              info == cpu.levels[config.level]
              priority == config.baseSpeedPrioritySettings
              total == CoreList(CoreMask(info.cores))
              hi == CoreList(CoreMask(info.hiCores))
              kept == {k \in 1 .. Len(total) : total[k] \notin ToSet(hi)}
              lo == PushedBack(Len(total), kept, total)
  <2>1. config = OperatingConfig(config.level) /\ info \in LevelInfo
        /\ info.hiCores \subseteq info.cores
    BY LevelFacts
  <2>2. info.cores \in SUBSET Core /\ info.hiCores \in SUBSET Core
    BY <2>1 DEF LevelInfo
  <2>3. /\ total \in Seq(Core) /\ ToSet(total) = info.cores
        /\ Len(total) = Cardinality(info.cores)
        /\ IsFiniteSet(info.cores) /\ Cardinality(info.cores) \in Nat
        /\ \A j, k \in 1 .. Len(total) : total[j] = total[k] => j = k
    BY <2>2, CoreListExact
  <2>4. /\ hi \in Seq(Core) /\ ToSet(hi) = info.hiCores
        /\ Len(hi) = Cardinality(info.hiCores) /\ Cardinality(info.hiCores) \in Nat
    BY <2>2, CoreListExact
  <2>5. config.availableCoreCount = Len(total)
    BY <2>1, ConfigFields, Zenon
  <2>6. config.baseSpeedPrioritySettings = baseSpeedPrioritySettings(info)
    BY <2>1, ConfigFields, Zenon
  <2>7. ASSUME info.pbfSupport
        PROVE  priority[1].list = hi /\ priority[2].list = lo
    <3>1. priority = <<[speed |-> info.p1Hi * mhzPerRatio, list |-> hi],
                       [speed |-> info.p1Lo * mhzPerRatio, list |-> lo]>>
      BY <2>6, <2>7, Zenon DEF baseSpeedPrioritySettings
    <3>. HIDE DEF priority, hi, lo
    <3>. QED
      BY <3>1
  <2>8. /\ Len(total) \in Nat /\ kept \in SUBSET (1 .. Len(total))
        /\ total \in [1 .. Len(total) -> Core] /\ DOMAIN total = 1 .. Len(total)
    <3>. HIDE DEF total
    <3>. QED
      BY <2>3
  <2>. HIDE DEF config, info, priority, total, hi, lo
  <2>9. /\ lo \in Seq(Core) /\ Len(lo) = Cardinality(kept)
        /\ \E e : Lists(lo, e, Len(total), kept, total)
    BY <2>8, PushedBackLists DEF lo
  <2>10. PICK e : Lists(lo, e, Len(total), kept, total)
    BY <2>9
  <2>11. \A k \in kept : total[k] \in info.cores \ info.hiCores
    BY <2>3, <2>4, <2>8 DEF ToSet
  <2>12. \A c \in info.cores \ info.hiCores : \E k \in kept : total[k] = c
    BY <2>3, <2>4, <2>8 DEF ToSet
  <2>13. ToSet(lo) = info.cores \ info.hiCores
    <3>1. DOMAIN lo = 1 .. Len(lo)
      BY <2>9
    <3>2. \A k \in 1 .. Len(lo) : e[k] \in kept /\ lo[k] = total[e[k]]
      BY <2>10 DEF Lists
    <3>3. \A q \in kept : \E k \in 1 .. Len(lo) : e[k] = q
      BY <2>8, <2>10 DEF Lists
    <3>. QED
      <4>1. \A k \in 1 .. Len(lo) : lo[k] \in info.cores \ info.hiCores
        BY <2>11, <3>2
      <4>2. \A c \in info.cores \ info.hiCores : \E k \in 1 .. Len(lo) : lo[k] = c
        BY <2>12, <3>2, <3>3
      <4>. QED
        BY <3>1, <4>1, <4>2, Zenon DEF ToSet
  <2>14. Cardinality(kept) = Cardinality(info.cores) - Cardinality(info.hiCores)
    <3>. DEFINE f == [k \in kept |-> total[k]]
                rest == info.cores \ info.hiCores
    <3>1. f \in [kept -> rest]
      BY <2>11
    <3>2. \A x, y \in kept : f[x] = f[y] => x = y
      BY <2>3
    <3>3. \A z \in rest : \E x \in kept : f[x] = z
      BY <2>12
    <3>4. IsFiniteSet(kept)
      <4>1. kept \in SUBSET (0 .. Len(total))
        BY <2>8
      <4>. QED
        BY <2>8, <4>1, FiniteParts
    <3>5. Cardinality(rest) = Cardinality(kept)
      <4>. HIDE DEF f, rest, kept
      <4>. QED
        BY <3>1, <3>2, <3>3, <3>4, SameSize
    <3>6. Cardinality(rest) = Cardinality(info.cores)
                                  - Cardinality(info.cores \cap info.hiCores)
      BY <2>3, FS_Difference
    <3>7. info.cores \cap info.hiCores = info.hiCores
      BY <2>1
    <3>. QED
      BY <3>5, <3>6, <3>7
  <2>. HIDE DEF kept
  <2>15. info.pbfSupport => /\ ToSet(priority[1].list) = info.hiCores
                            /\ ToSet(priority[1].list) \cup ToSet(priority[2].list) = info.cores
    BY <2>1, <2>4, <2>7, <2>13
  <2>16. info.pbfSupport => Len(priority[1].list) + Len(priority[2].list)
                                = config.availableCoreCount
    <3>1. Len(hi) + Len(lo) = Len(total)
      BY <2>3, <2>4, <2>9, <2>14
    <3>. QED
      BY <2>5, <2>7, <3>1, Zenon
  <2>. QED
    BY <2>3, <2>5, <2>15, <2>16 DEF config, info, priority
<1>. QED
  BY <1>1, ConfigInvariant, PTL

\* The least number of a set.
LEMMA MinFacts ==
    ASSUME NEW S, S \subseteq Nat, S # {}
    PROVE  Min(S) \in S /\ \A y \in S : Min(S) <= y
  BY LeastElement DEF Min

\* A sequence is its two halves put together.
LEMMA Halves ==
    ASSUME NEW S, NEW n \in Nat \ {0}, NEW r \in [1 .. (n + n) -> S], NEW b \in 1 .. (n + n)
    PROVE  (SubSeq(r, 1, n) \o SubSeq(r, n + 1, n + n))[b] = r[b]
<1>. DEFINE lo == SubSeq(r, 1, n)
            hi == SubSeq(r, n + 1, n + n)
<1>1. r \in Seq(S) /\ Len(r) = n + n
  OBVIOUS
<1>2. lo \in Seq(S) /\ Len(lo) = n /\ \A k \in 1 .. n : lo[k] = r[k]
  BY <1>1
<1>3. hi \in Seq(S) /\ Len(hi) = n /\ \A k \in 1 .. n : hi[k] = r[n + k]
  BY <1>1
<1>. HIDE DEF lo, hi
<1>4. (lo \o hi)[b] = IF b <= n THEN lo[b] ELSE hi[b - n]
  BY <1>2, <1>3
<1>5. CASE b <= n
  BY <1>2, <1>4, <1>5
<1>6. CASE ~(b <= n)
  <2>1. b - n \in 1 .. n /\ n + (b - n) = b
    BY <1>6
  <2>. QED
    BY <1>3, <1>4, <1>6, <2>1
<1>. QED
  BY <1>5, <1>6 DEF lo, hi

\* The two words of a level's ratios, put together, are its ratios.
LEMMA RatiosJoined ==
    ASSUME NEW info \in LevelInfo
    PROVE  \A b \in 1 .. maxTFBuckets :
               (RatioWord(info, 0) \o RatioWord(info, 1))[b] = info.limitRatios[b]
<1>1. WordBuckets \in Nat \ {0} /\ maxTFBuckets = WordBuckets + WordBuckets
  BY SstConfigAssumption DEF maxTFBuckets
<1>2. info.limitRatios \in [1 .. (WordBuckets + WordBuckets) -> 0 .. 255]
  BY <1>1 DEF LevelInfo, Buckets
<1>3. /\ RatioWord(info, 0) = SubSeq(info.limitRatios, 1, WordBuckets)
      /\ RatioWord(info, 1)
             = SubSeq(info.limitRatios, WordBuckets + 1, WordBuckets + WordBuckets)
  <2>1. /\ 0 * WordBuckets + 1 = 1 /\ (0 + 1) * WordBuckets = WordBuckets
        /\ 1 * WordBuckets + 1 = WordBuckets + 1
        /\ (1 + 1) * WordBuckets = WordBuckets + WordBuckets
    BY <1>1
  <2>. QED
    BY <2>1, Zenon DEF RatioWord
<1>. QED
  BY <1>1, <1>2, <1>3, Halves

\* For any number of active cores the published profile allows the speed that the
\* registers do: leaving out the empty buckets keeps the order of the others.
THEOREM TurboAlwaysExact == SstConfigSpec => []TurboExact
<1>1. ConfigInv => TurboExact
  <2>. SUFFICES ASSUME ConfigInv, NEW i \in 1 .. Len(availConfigs),
                       NEW n \in {cpu.trlCores[b] : b \in 1 .. maxTFBuckets} \ {0}
                PROVE  LET profile == availConfigs[i].turboProfile
                           ratios == cpu.levels[availConfigs[i].level].limitRatios
                           usable == {b \in 1 .. maxTFBuckets :
                                         cpu.trlCores[b] >= n /\ ratios[b] # 0}
                           shown == {k \in 1 .. Len(profile) : profile[k].cores >= n}
                       IN  /\ usable = {} <=> shown = {}
                           /\ usable # {} =>
                                  profile[Min(shown)].speed = ratios[Min(usable)] * mhzPerRatio
    BY DEF TurboExact
  <2>. DEFINE profile == availConfigs[i].turboProfile
              info == cpu.levels[availConfigs[i].level]
              ratios == info.limitRatios
              trl == cpu.trlCores
              joined == RatioWord(info, 0) \o RatioWord(info, 1)
              entries == [b \in 1 .. maxTFBuckets |->
                             [speed |-> joined[b] * mhzPerRatio, cores |-> trl[b]]]
              kept == {b \in 1 .. maxTFBuckets : trl[b] # 0 /\ joined[b] # 0}
              usable == {b \in 1 .. maxTFBuckets : trl[b] >= n /\ ratios[b] # 0}
              shown == {k \in 1 .. Len(profile) : profile[k].cores >= n}
              V == {entries[b] : b \in 1 .. maxTFBuckets}
  <2>1. /\ availConfigs[i] = OperatingConfig(availConfigs[i].level) /\ info \in LevelInfo
        /\ trl \in Buckets
    BY LevelFacts
  <2>2. profile = sseTurboProfile(trl, RatioWord(info, 0), RatioWord(info, 1))
    BY <2>1, ConfigFields, Zenon
  <2>3. profile = PushedBack(maxTFBuckets, kept, entries)
    BY <2>2 DEF sseTurboProfile
  <2>4. \A b \in 1 .. maxTFBuckets : joined[b] = ratios[b]
    BY <2>1, RatiosJoined
  <2>5. \A b \in 1 .. maxTFBuckets : /\ trl[b] \in Nat
                                     /\ entries[b].speed = joined[b] * mhzPerRatio
                                     /\ entries[b].cores = trl[b]
    <3>1. \A b \in 1 .. maxTFBuckets : trl[b] \in Nat
      <4>1. trl \in [1 .. maxTFBuckets -> 0 .. 255]
        BY <2>1, Zenon DEF Buckets
      <4>. HIDE DEF trl
      <4>2. \A x \in 0 .. 255 : x \in Nat
        OBVIOUS
      <4>. QED
        BY <4>1, <4>2
    <3>. HIDE DEF trl, joined
    <3>. QED
      BY <3>1
  <2>6. n \in Nat \ {0}
    BY <2>5
  <2>7. maxTFBuckets \in Nat
    BY SstConfigAssumption DEF maxTFBuckets
  <2>8. kept \in SUBSET (1 .. maxTFBuckets) /\ entries \in [1 .. maxTFBuckets -> V]
    OBVIOUS
  <2>. HIDE DEF entries, kept, V, joined, trl, ratios, info, profile
  <2>9. /\ profile \in Seq(V) /\ \E e : Lists(profile, e, maxTFBuckets, kept, entries)
    BY <2>3, <2>7, <2>8, PushedBackLists
  <2>10. PICK e : Lists(profile, e, maxTFBuckets, kept, entries)
    BY <2>9
  <2>11. \A k \in 1 .. Len(profile) : /\ e[k] \in kept /\ e[k] \in 1 .. maxTFBuckets
                                      /\ profile[k] = entries[e[k]]
    BY <2>8, <2>10 DEF Lists
  <2>12. \A b \in kept : \E k \in 1 .. Len(profile) : e[k] = b
    <3>1. \A b \in kept : b <= maxTFBuckets
      BY <2>7, <2>8
    <3>. QED
      BY <2>10, <3>1, Zenon DEF Lists
  <2>13. usable = {b \in kept : trl[b] >= n}
    BY <2>4, <2>5, <2>6 DEF kept
  <2>14. \A k \in 1 .. Len(profile) : k \in shown <=> e[k] \in usable
    BY <2>5, <2>11, <2>13
  <2>15. \A b \in usable : \E k \in shown : e[k] = b
    BY <2>12, <2>13, <2>14
  <2>16. usable = {} <=> shown = {}
    BY <2>14, <2>15
  <2>17. ASSUME usable # {}
         PROVE  profile[Min(shown)].speed = ratios[Min(usable)] * mhzPerRatio
    <3>1. Min(shown) \in shown /\ \A k \in shown : Min(shown) <= k
      <4>1. shown \subseteq Nat
        BY <2>9
      <4>. QED
        BY <2>16, <2>17, <4>1, MinFacts
    <3>2. Min(usable) \in usable /\ \A b \in usable : Min(usable) <= b
      <4>1. usable \subseteq Nat
        BY <2>7
      <4>. QED
        BY <2>17, <4>1, MinFacts
    <3>. DEFINE k == Min(shown)
                b == Min(usable)
    <3>3. PICK j \in shown : e[j] = b
      BY <2>15, <3>2
    <3>4. k \in 1 .. Len(profile) /\ j \in 1 .. Len(profile) /\ k <= j
      BY <3>1, <3>3
    <3>5. e[k] \in usable /\ b <= e[k]
      BY <2>14, <3>1, <3>2, <3>4
    <3>. HIDE DEF k, b
    <3>6. e[k] <= b
      <4>1. CASE k = j
        BY <3>3, <3>5, <4>1, <2>7
      <4>2. CASE k < j
        BY <2>7, <2>10, <2>11, <3>3, <3>4, <4>2 DEF Lists
      <4>. QED
        BY <2>9, <3>4, <4>1, <4>2
    <3>7. e[k] = b
      BY <2>7, <2>11, <3>3, <3>4, <3>5, <3>6
    <3>8. profile[k].speed = joined[b] * mhzPerRatio
      BY <2>5, <2>11, <3>4, <3>7
    <3>9. b \in 1 .. maxTFBuckets
      BY <2>11, <3>4, <3>7
    <3>. QED
      BY <2>4, <3>8, <3>9 DEF k, b
  <2>. QED
    BY <2>16, <2>17 DEF profile, ratios, info, trl
<1>. QED
  BY <1>1, ConfigInvariant, PTL
=============================================================================
