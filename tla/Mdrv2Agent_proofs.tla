-------------------------- MODULE Mdrv2Agent_proofs --------------------------
(***************************************************************************)
(* The SMBIOS file, the directory and the agent, for all tables,           *)
(* directories and host inputs.                                            *)
(***************************************************************************)
EXTENDS Mdrv2Agent, MCMdrv2Directory, TLAPS

\* readDataFromFlash fills the whole storage with bytes, whatever the file.
LEMMA ReadImageType ==
    ASSUME NEW f \in File
    PROVE  ReadImage(f) \in Image
<1>1. ASSUME NEW i \in 1..StorageSize, i <= Len(f.data)
      PROVE  f.data[i] \in Byte
  BY <1>1, SmbiosFileAssumption DEF File
<1>. QED
  BY <1>1, SmbiosFileAssumption DEF ReadImage, Image

\* A file that cannot be read leaves the storage zero.
LEMMA UnreadableIsZero ==
    ASSUME NEW f \in File, ~ReadSucceeds(f)
    PROVE  ReadImage(f) = ZeroImage
  BY DEF ReadImage, ZeroImage

\* The files that do not hold a table, and the one with a hole for a header.
LEMMA FileConstants ==
    NoFile \in File /\ ShortFile \in File /\ HoledFile \in File
<1>1. << >> \in Seq(Byte)
  OBVIOUS
<1>2. NoFile \in File
  BY <1>1, SmbiosFileAssumption DEF NoFile, File, FileKind
<1>3. ShortFile \in File
  BY <1>2 DEF ShortFile, File, FileKind
<1>4. HoledFile \in File
  BY <1>1, SmbiosFileAssumption DEF HoledFile, TableFile, File, FileKind
<1>. QED
  BY <1>2, <1>3, <1>4

\* They read as an empty storage.
LEMMA NoTableReadsZero ==
    /\ ReadImage(NoFile) = ZeroImage
    /\ ReadImage(ShortFile) = ZeroImage
    /\ ReadImage(HoledFile) = ZeroImage
<1>1. ~ReadSucceeds(NoFile) /\ ~ReadSucceeds(ShortFile)
  BY DEF ReadSucceeds, NoFile, ShortFile
<1>2. HoledFile.dataSize = 0
  BY DEF HoledFile, TableFile
<1>3. ReadImage(HoledFile) = ZeroImage
  BY <1>2, SmbiosFileAssumption DEF ReadImage, ZeroImage
<1>. QED
  BY <1>1, <1>3, UnreadableIsZero, FileConstants

-----------------------------------------------------------------------------
\* What Sync leaves in the storage is supported exactly if the file was accepted.
LEMMA SupportedIsAccepted ==
    ASSUME NEW f \in File, ReadImage(f) \in Supported
    PROVE  Accepts(f)
  BY UnreadableIsZero, AgentAssumption DEF Accepts

\* The table entry is well formed after a synchronisation, valid and available.
LEMMA LoadedEntryType ==
    ASSUME NEW e \in Entry, NEW f \in File
    PROVE  /\ LoadedEntry(e, f) \in Entry
           /\ LoadedEntry(e, f).stage = "loaded"
           /\ LoadedEntry(e, f).lock = "unlocked"
  BY DirectoryAssumption DEF LoadedEntry, Entry, File, Stage, Lock

\* The constructor's directory is well formed.
LEMMA FreshDirType ==
    FreshDir \subseteq [DirIndex -> Entry]
<1>. SUFFICES ASSUME NEW g \in [DirIndex -> Garbage]
              PROVE  [g EXCEPT ![0].id = SmbiosTableId] \in [DirIndex -> Entry]
  BY DEF FreshDir
<1>1. g \in [DirIndex -> Entry] /\ 0 \in DirIndex
  BY DirectoryAssumption DEF DirIndex
<1>2. [g[0] EXCEPT !.id = SmbiosTableId] \in Entry
  BY <1>1, DirectoryAssumption DEF Entry
<1>. QED
  BY <1>1, <1>2

-----------------------------------------------------------------------------
\* agentSynchronizeData, from the method or from the timer.
LEMMA SyncType ==
    ASSUME TypeOK, Sync
    PROVE  /\ storage' \in Image
           /\ spilled' = FALSE
           /\ timer' \in Handler
           /\ arming' \in BOOLEAN
           /\ dir' \in [DirIndex -> Entry]
<1>1. storage' \in Image /\ spilled' = FALSE
  BY ReadImageType DEF Sync, TypeOK
<1>2. CASE Accepts(file)
  <2>1. timer' = "info" /\ arming' = ~arming
    BY <1>2 DEF Sync, Arm
  <2>2. dir' = [dir EXCEPT ![0] = LoadedEntry(dir[0], file)]
    BY <1>2 DEF Sync
  <2>3. dir' \in [DirIndex -> Entry]
    BY <2>2, LoadedEntryType, DirectoryAssumption DEF TypeOK, DirTypeOK, DirIndex
  <2>. QED
    BY <1>1, <2>1, <2>3 DEF TypeOK, Handler
<1>3. CASE ~Accepts(file)
  BY <1>1, <1>3 DEF Sync, TypeOK, DirTypeOK
<1>. QED
  BY <1>2, <1>3

\* systemInfoUpdate, from InterfacesAdded or from the timer.
LEMMA SystemInfoUpdateType ==
    ASSUME TypeOK, SystemInfoUpdate
    PROVE  /\ inventory' = storage
           /\ inventory' \in Image
           /\ file' \in File
  BY FileConstants DEF SystemInfoUpdate, SystemVersion, TypeOK

\* The directory methods keep the directory well formed.
LEMMA SendDirectoryType ==
    ASSUME DirTypeOK, NEW version \in DirVersions, NEW i \in DirIndex,
           NEW ids \in Packets, NEW more \in 0..1,
           SendDirectoryInformation(version, i, ids, more)
    PROVE  DirTypeOK'
<1>1. ids \in Seq(DataIds) /\ i \in Nat
  BY DirectoryAssumption DEF DirIndex
<1>2. dirVersion' \in DirVersions /\ dirEntries' \in Nat
  BY <1>1 DEF SendDirectoryInformation, ReturnedEntries, DirTypeOK
<1>3. ASSUME NEW k \in DirIndex, k \in i..(i + Len(ids) - 1)
      PROVE  [dir[k] EXCEPT !.id = ids[k - i + 1]] \in Entry
  <2>1. k - i + 1 \in 1..Len(ids)
    BY <1>1, <1>3
  <2>2. ids[k - i + 1] \in DataIds
    BY <1>1, <2>1
  <2>. QED
    BY <2>2 DEF DirTypeOK, Entry
<1>4. dir' \in [DirIndex -> Entry]
  BY <1>3 DEF SendDirectoryInformation, DirTypeOK
<1>. QED
  BY <1>2, <1>4 DEF DirTypeOK

\* sendDataInformation stores a version that fits in its uint8_t field.
LEMMA SendDataType ==
    ASSUME DirTypeOK, NEW i \in DirIndex, NEW len \in Sizes, NEW ver \in DataVers,
           NEW time \in Times, SendDataInformation(i, len, ver, time)
    PROVE  /\ DirTypeOK'
           /\ dir'[0].stage = dir[0].stage
           /\ dir'[0].lock = dir[0].lock
<1>1. Narrow(ver) \in 0..(VersionModulus - 1)
  BY DirectoryAssumption DEF Narrow
<1>. DEFINE e == [dir[i] EXCEPT !.dataSetSize = len,
                                !.dataVersion = Narrow(ver), !.timestamp = time]
<1>2. e \in Entry /\ e.stage = dir[i].stage /\ e.lock = dir[i].lock
  BY <1>1, DirectoryAssumption DEF DirTypeOK, Entry
<1>3. dir' = [dir EXCEPT ![i] = e]
  BY DEF SendDataInformation, DirTypeOK, Entry
<1>. HIDE DEF e
<1>4. dir' \in [DirIndex -> Entry]
  BY <1>2, <1>3 DEF DirTypeOK
<1>5. dir'[0].stage = dir[0].stage /\ dir'[0].lock = dir[0].lock
  <2>1. 0 \in DirIndex
    BY DirectoryAssumption DEF DirIndex
  <2>2. dir'[0] = IF i = 0 THEN e ELSE dir[0]
    BY <1>3, <2>1 DEF DirTypeOK
  <2>. QED
    BY <1>2, <2>2
<1>6. dirVersion' \in DirVersions /\ dirEntries' \in Nat
  BY DEF SendDataInformation, DirTypeOK
<1>. QED
  BY <1>4, <1>5, <1>6 DEF DirTypeOK

\* synchronizeDirectoryCommonData of an existing entry changes its size alone.
LEMMA SetSizeType ==
    ASSUME DirTypeOK, NEW i \in DirIndex, NEW size \in Sizes, SetSize(i, size)
    PROVE  /\ DirTypeOK'
           /\ dir'[0].stage = dir[0].stage
           /\ dir'[0].lock = dir[0].lock
<1>1. [dir[i] EXCEPT !.size = size] \in Entry
  BY DirectoryAssumption DEF DirTypeOK, Entry
<1>2. dir' \in [DirIndex -> Entry]
  BY <1>1 DEF SetSize, DirTypeOK
<1>3. 0 \in DirIndex
  BY DirectoryAssumption DEF DirIndex
<1>4. dir'[0].stage = dir[0].stage /\ dir'[0].lock = dir[0].lock
  BY <1>3 DEF SetSize, DirTypeOK, Entry
<1>. QED
  BY <1>2, <1>4 DEF SetSize, DirTypeOK

-----------------------------------------------------------------------------
\* The types hold initially and every step preserves them.
LEMMA TypeInit == Init => TypeOK
<1>. SUFFICES ASSUME Init PROVE TypeOK
  OBVIOUS
<1>1. storage \in Image
  BY SmbiosFileAssumption DEF Init, ZeroImage, Image
<1>2. DirTypeOK
  BY FreshDirType, DirectoryAssumption DEF Init, DirInit, DirTypeOK
<1>. QED
  BY <1>1, <1>2, FileConstants DEF Init, TypeOK, Handler

\* Every action of the agent keeps the types, one case per action.
LEMMA TypeStep == TypeOK /\ [Next]_vars => TypeOK'
<1>. SUFFICES ASSUME TypeOK, [Next]_vars PROVE TypeOK'
  OBVIOUS
<1>1. CASE AgentSynchronizeData
  BY <1>1, SyncType DEF AgentSynchronizeData, TypeOK, DirTypeOK
<1>2. CASE InterfacesAdded
  BY <1>2, SystemInfoUpdateType
     DEF InterfacesAdded, TypeOK, DirTypeOK, dirVars, timerVars
<1>3. ASSUME NEW i \in 0..MaxDirEntries, NEW size \in Sizes,
             SynchronizeDirectoryCommonData(i, size)
      PROVE  TypeOK'
  <2>1. timer' \in Handler /\ arming' \in BOOLEAN
    BY <1>3 DEF SynchronizeDirectoryCommonData, Arm, Handler, TypeOK
  <2>2. CASE SetSize(i, size) /\ UNCHANGED <<storage, spilled>>
    <3>1. DirTypeOK'
      BY <2>2, SetSizeType DEF SetSize, TypeOK
    <3>. QED
      BY <1>3, <2>1, <2>2, <3>1 DEF SynchronizeDirectoryCommonData, TypeOK
  <2>3. CASE storage' \in Image /\ spilled' = TRUE /\ UNCHANGED dirVars
    BY <1>3, <2>1, <2>3
       DEF SynchronizeDirectoryCommonData, TypeOK, DirTypeOK, dirVars
  <2>. QED
    BY <1>3, <2>2, <2>3 DEF SynchronizeDirectoryCommonData
<1>4. ASSUME NEW version \in DirVersions, NEW i \in DirIndex, NEW ids \in Packets,
             NEW more \in 0..1, SendDirectory(version, i, ids, more)
      PROVE  TypeOK'
  <2>1. DirTypeOK'
    BY <1>4, SendDirectoryType DEF SendDirectory, TypeOK
  <2>2. storage' \in Image /\ spilled' \in BOOLEAN
    BY <1>4 DEF SendDirectory, TypeOK
  <2>. QED
    BY <1>4, <2>1, <2>2 DEF SendDirectory, TypeOK, timerVars
<1>5. CASE SendData
  <2>1. DirTypeOK'
    BY <1>5, SendDataType DEF SendData, Announce, TypeOK
  <2>. QED
    BY <1>5, <2>1 DEF SendData, TypeOK, timerVars
<1>6. CASE Expire
  BY <1>6 DEF Expire, TypeOK, DirTypeOK, dirVars, Handler
<1>7. CASE RunInfo
  BY <1>7, SystemInfoUpdateType DEF RunInfo, TypeOK, DirTypeOK, dirVars, Handler
<1>8. CASE RunSync
  BY <1>8, SyncType DEF RunSync, TypeOK, DirTypeOK, Handler
<1>9. CASE AgentRestart
  <2>1. storage' \in Image /\ timer' \in Handler
    BY <1>9, ReadImageType DEF AgentRestart, TypeOK, Handler
  <2>2. dir' \in [DirIndex -> Entry]
    <3>1. PICK d \in FreshDir :
              dir' = IF Accepts(file)
                     THEN [d EXCEPT ![0] = LoadedEntry(d[0], file)] ELSE d
      BY <1>9 DEF AgentRestart
    <3>2. d \in [DirIndex -> Entry] /\ 0 \in DirIndex
      BY FreshDirType, DirectoryAssumption DEF DirIndex
    <3>3. LoadedEntry(d[0], file) \in Entry
      BY <3>2, LoadedEntryType DEF TypeOK
    <3>. QED
      BY <3>1, <3>2, <3>3
  <2>3. dirVersion' \in DirVersions /\ dirEntries' \in Nat
    BY <1>9, DirectoryAssumption DEF AgentRestart
  <2>. QED
    BY <1>9, <2>1, <2>2, <2>3 DEF AgentRestart, TypeOK, DirTypeOK, Handler
<1>10. ASSUME NEW f \in HostFiles, HostWritesFile(f)
       PROVE  TypeOK'
  BY <1>10, AgentAssumption
     DEF HostWritesFile, TypeOK, DirTypeOK, agentVars, dirVars, timerVars
<1>11. CASE UNCHANGED vars
  BY <1>11 DEF vars, TypeOK, DirTypeOK, agentVars, dirVars, timerVars
<1>. QED
  BY <1>1, <1>2, <1>3, <1>4, <1>5, <1>6, <1>7, <1>8, <1>9, <1>10, <1>11
     DEF Next, DBusCall, TimerStep

\* Every variable of the agent stays in its type: the storage keeps its size
\* whatever file is read, and dir[] holds entries even when a packet overruns it.
THEOREM TypeCorrect == Spec => []TypeOK
  BY TypeInit, TypeStep, PTL DEF Spec

-----------------------------------------------------------------------------
\* A synchronisation that leaves an accepted table in the storage has armed the
\* timer and marked the entry.
LEMMA SyncSafe ==
    ASSUME TypeOK, Sync
    PROVE  storage' \in Supported =>
               /\ timer' = "info"
               /\ dir'[0].stage = "loaded"
               /\ dir'[0].lock = "unlocked"
<1>. SUFFICES ASSUME storage' \in Supported
              PROVE  /\ timer' = "info"
                     /\ dir'[0].stage = "loaded"
                     /\ dir'[0].lock = "unlocked"
  OBVIOUS
<1>1. Accepts(file)
  BY SupportedIsAccepted DEF Sync, TypeOK
<1>2. dir'[0] = LoadedEntry(dir[0], file) /\ timer' = "info"
  BY <1>1, DirectoryAssumption DEF Sync, Arm, TypeOK, DirTypeOK, DirIndex
<1>3. dir[0] \in Entry
  BY DirectoryAssumption DEF TypeOK, DirTypeOK, DirIndex
<1>. QED
  BY <1>2, <1>3, LoadedEntryType DEF TypeOK

\* NoLostPublication and TableHasValidEntry are inductive together with the types:
\* an accepted table gets into the storage only by a step that arms the timer and
\* marks the entry, and a wait disappears only into ready.
TableEntry == storage \in Supported /\ ~spilled =>
                  dir[0].stage = "loaded" /\ dir[0].lock = "unlocked"

\* smbiosValidFlag and smbiosIsAvailForUpdate of a loaded, unlocked entry.
LEMMA TableEntrySuffices == TypeOK /\ TableEntry => TableHasValidEntry
  BY DirectoryAssumption
     DEF TableEntry, TableHasValidEntry, ValidFlag, IsAvailForUpdate

AgentInv == TypeOK /\ NoLostPublication /\ TableEntry

\* A first start, with nothing in the file, satisfies the invariant.
LEMMA AgentInvInit == Init => AgentInv
<1>. SUFFICES ASSUME Init PROVE NoLostPublication /\ TableEntry
  BY TypeInit DEF AgentInv
<1>1. storage \notin Supported
  BY AgentAssumption DEF Init
<1>. QED
  BY <1>1 DEF NoLostPublication, Outdated, TableEntry

\* Every action of the agent preserves the invariant, one case per action.
LEMMA AgentInvStep == AgentInv /\ [Next]_vars => AgentInv'
<1>. SUFFICES ASSUME AgentInv, [Next]_vars
              PROVE  NoLostPublication' /\ TableEntry'
  BY TypeStep DEF AgentInv
<1>. USE DEF AgentInv
<1>. USE DEF NoLostPublication, Outdated, TableEntry
<1>1. CASE AgentSynchronizeData
  BY <1>1, SyncSafe DEF AgentSynchronizeData
<1>2. CASE InterfacesAdded
  BY <1>2, SystemInfoUpdateType DEF InterfacesAdded, dirVars, timerVars
<1>3. ASSUME NEW i \in 0..MaxDirEntries, NEW size \in Sizes,
             SynchronizeDirectoryCommonData(i, size)
      PROVE  NoLostPublication' /\ TableEntry'
  <2>1. timer' = "sync"
    BY <1>3 DEF SynchronizeDirectoryCommonData, Arm
  <2>2. CASE SetSize(i, size) /\ UNCHANGED <<storage, spilled>>
    BY <2>1, <2>2, SetSizeType DEF SetSize, TypeOK
  <2>3. CASE spilled' = TRUE
    BY <2>1, <2>3
  <2>. QED
    BY <1>3, <2>2, <2>3 DEF SynchronizeDirectoryCommonData
<1>4. ASSUME NEW version \in DirVersions, NEW i \in DirIndex, NEW ids \in Packets,
             NEW more \in 0..1, SendDirectory(version, i, ids, more)
      PROVE  NoLostPublication' /\ TableEntry'
  <2>1. dir'[0].stage = dir[0].stage /\ dir'[0].lock = dir[0].lock
    BY <1>4, DirectoryAssumption
       DEF SendDirectory, SendDirectoryInformation, TypeOK, DirTypeOK, DirIndex, Entry
  <2>. QED
    BY <1>4, <2>1 DEF SendDirectory, timerVars
<1>5. CASE SendData
  <2>1. dir'[0].stage = dir[0].stage /\ dir'[0].lock = dir[0].lock
    BY <1>5, SendDataType DEF SendData, Announce, TypeOK
  <2>. QED
    BY <1>5, <2>1 DEF SendData, timerVars
<1>6. CASE Expire
  BY <1>6 DEF Expire, dirVars
<1>7. CASE RunInfo
  BY <1>7, SystemInfoUpdateType DEF RunInfo, dirVars
<1>8. CASE RunSync
  BY <1>8, SyncSafe DEF RunSync
<1>9. CASE AgentRestart
  <2>. SUFFICES ASSUME storage' \in Supported
                PROVE  /\ timer' = "info"
                       /\ dir'[0].stage = "loaded"
                       /\ dir'[0].lock = "unlocked"
    OBVIOUS
  <2>1. Accepts(file)
    BY <1>9, SupportedIsAccepted DEF AgentRestart, TypeOK
  <2>2. PICK d \in FreshDir : dir' = [d EXCEPT ![0] = LoadedEntry(d[0], file)]
    BY <1>9, <2>1 DEF AgentRestart
  <2>3. d \in [DirIndex -> Entry] /\ 0 \in DirIndex
    BY FreshDirType, DirectoryAssumption DEF DirIndex
  <2>4. dir'[0] = LoadedEntry(d[0], file) /\ d[0] \in Entry
    BY <2>2, <2>3
  <2>. QED
    BY <1>9, <2>1, <2>4, LoadedEntryType DEF AgentRestart, TypeOK
<1>10. ASSUME NEW f \in HostFiles, HostWritesFile(f)
       PROVE  NoLostPublication' /\ TableEntry'
  BY <1>10 DEF HostWritesFile, agentVars, dirVars, timerVars
<1>11. CASE UNCHANGED vars
  BY <1>11 DEF vars, agentVars, dirVars, timerVars
<1>. QED
  BY <1>1, <1>2, <1>3, <1>4, <1>5, <1>6, <1>7, <1>8, <1>9, <1>10, <1>11
     DEF Next, DBusCall, TimerStep

\* No interleaving of synchronisations, cancelled waits, refused files and restarts
\* leaves an accepted table in the storage unpublished with nothing left to publish it.
THEOREM PublicationNotLost == Spec => []NoLostPublication
<1>1. AgentInv => NoLostPublication
  BY DEF AgentInv
<1>. QED
  BY <1>1, AgentInvInit, AgentInvStep, PTL DEF Spec

\* The directory reports the table as valid and available whenever it is there, from
\* any contents of the uninitialised dir[].
THEOREM TableEntryIsValid == Spec => []TableHasValidEntry
<1>1. AgentInv => TableHasValidEntry
  BY TableEntrySuffices DEF AgentInv
<1>. QED
  BY <1>1, AgentInvInit, AgentInvStep, PTL DEF Spec

-----------------------------------------------------------------------------
\* A transfer that no packet has come of has no more to come.
PacketsCounted ==
    /\ packets \in Nat
    /\ packets = 0 => left = 0

\* The last packet that was accepted is the whole of the directory.
LEMMA FirstPacketFound ==
    ASSUME NEW v, NEW ids \in Packets, NEW remaining \in Nat,
           FirstPacket(v, ids, remaining)
    PROVE  SentIdsAreFound'
<1>1. /\ sent' = ids /\ dirEntries' = Len(ids) /\ ids \in Seq(DataIds)
      /\ Len(ids) \in Nat /\ Len(ids) <= MaxDirEntries /\ MaxDirEntries \in Nat
  BY DirectoryAssumption DEF FirstPacket, SendDirectoryInformation, ReturnedEntries
<1>2. ASSUME NEW k \in 1..Len(ids)
      PROVE  k - 1 \in DirIndex /\ k - 1 < dirEntries' /\ dir'[k - 1].id = ids[k]
  <2>1. k - 1 \in DirIndex /\ k - 1 \in 0..(0 + Len(ids) - 1) /\ k - 1 < dirEntries'
    BY <1>1 DEF DirIndex
  <2>2. dir'[k - 1] = [dir[k - 1] EXCEPT !.id = ids[k - 1 - 0 + 1]]
    BY <2>1 DEF FirstPacket, SendDirectoryInformation
  <2>. QED
    BY <1>1, <2>1, <2>2
<1>. QED
  BY <1>1, <1>2 DEF SentIdsAreFound, IdIndexes

\* A directory that comes in one packet can be queried for each of its ids as soon as
\* its version is the current one, whatever transfer was given up before.
THEOREM OnePacketAlwaysQueryable == HostSpec => OnePacketQueryable
<1>1. HostInit => PacketsCounted
  BY DEF HostInit, PacketsCounted
<1>2. PacketsCounted /\ [HostNext]_directoryVars => PacketsCounted'
  <2>. SUFFICES ASSUME PacketsCounted, [HostNext]_directoryVars PROVE PacketsCounted'
    OBVIOUS
  <2>1. ASSUME NEW ids \in Packets, NextPacket(ids) PROVE PacketsCounted'
    BY <2>1 DEF NextPacket, PacketsCounted
  <2>2. CASE UNCHANGED hostVars
    BY <2>2 DEF hostVars, PacketsCounted
  <2>3. ASSUME NEW v, NEW ids, NEW remaining, FirstPacket(v, ids, remaining)
        PROVE  PacketsCounted'
    BY <2>3 DEF FirstPacket, PacketsCounted
  <2>. QED
    BY <2>1, <2>2, <2>3 DEF HostNext, directoryVars
<1>3. PacketsCounted /\ [HostNext]_directoryVars
          => [dirVersion' # dirVersion /\ packets' = 1 => SentIdsAreFound']_directoryVars
  <2>. SUFFICES ASSUME PacketsCounted, HostNext, dirVersion' # dirVersion, packets' = 1
                PROVE  SentIdsAreFound'
    OBVIOUS
  <2>1. ASSUME NEW ids \in Packets, NextPacket(ids) PROVE FALSE
    <3>1. left = 0
      BY <2>1 DEF NextPacket, PacketsCounted
    <3>2. Len(ids) \in Nat
      BY DirectoryAssumption
    <3>. QED
      BY <2>1, <3>1, <3>2 DEF NextPacket, SendDirectoryInformation
  <2>2. PICK v \in DirVersions, ids \in Packets, remaining \in 0..1 :
            FirstPacket(v, ids, remaining)
    BY <2>1 DEF HostNext, Announce, SendDataInformation, LoadTable, SetSize
  <2>. QED
    BY <2>2, FirstPacketFound
<1>. QED
  BY <1>1, <1>2, <1>3, PTL DEF HostSpec, OnePacketQueryable
=============================================================================
