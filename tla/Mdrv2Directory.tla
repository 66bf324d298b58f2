--------------------------- MODULE Mdrv2Directory ---------------------------
(***************************************************************************)
(* smbiosDir, the directory that smbiosmdrv2app keeps for the host, and    *)
(* the D-Bus methods that read and change it.  A method that throws        *)
(* changes nothing and is not a step; the methods that only read are       *)
(* operators on the state.                                                 *)
(***************************************************************************)
EXTENDS SmbiosFile

CONSTANTS
    MaxDirEntries,     \* maxDirEntries
    VersionModulus,    \* 2^8: dataVersion is a uint8_t
    DataIds,           \* the values of a DataIdStruct
    SmbiosTableId,     \* smbiosTableId
    DirVersions,       \* the values of dirVersion, 1 among them
    Garbage,           \* what an entry of the uninitialised dir[] may hold
    Sizes,             \* the values of the host's size and dataLen arguments
    DataVers,          \* the values of the host's dataVer argument, a uint32_t
    Packets            \* the id lists of a SendDirectoryInformation

Stage == {"init", "loaded", "updated", "updating", "other"}
Lock == {"unlocked", "locked"}

Entry == [id : DataIds, size : Nat, dataSetSize : Nat,
          dataVersion : 0..(VersionModulus - 1), timestamp : Times,
          stage : Stage, lock : Lock]

ASSUME DirectoryAssumption ==
    /\ MaxDirEntries \in Nat \ {0}
    /\ VersionModulus \in Nat \ {0}
    /\ DirVers \subseteq 0..(VersionModulus - 1)
    /\ SmbiosTableId \in DataIds
    /\ 1 \in DirVersions
    /\ Garbage # {}
    /\ Garbage \subseteq Entry
    /\ Sizes \subseteq Nat
    /\ DataVers \subseteq Nat
    /\ Packets \subseteq Seq(DataIds)

VARIABLES
    dirVersion,        \* smbiosDir.dirVersion
    dirEntries,        \* smbiosDir.dirEntries
    dir                \* smbiosDir.dir: entry 0 is the SMBIOS table

dirVars == <<dirVersion, dirEntries, dir>>

DirIndex == 0..(MaxDirEntries - 1)

DirTypeOK ==
    /\ dirVersion \in DirVersions
    /\ dirEntries \in Nat
    /\ dir \in [DirIndex -> Entry]

\* The constructor names entry 0 and leaves every other field of dir[] as it
\* finds it in memory.
FreshDir == {[g EXCEPT ![0].id = SmbiosTableId] : g \in [DirIndex -> Garbage]}

-----------------------------------------------------------------------------
\* smbiosIsAvailForUpdate: GetDataOffer throws UpdateInProgress when it is false.
IsAvailForUpdate(i) ==
    /\ i < MaxDirEntries
    /\ dir[i].stage \in {"init", "loaded", "updated"}
    /\ dir[i].lock = "unlocked"

\* smbiosValidFlag, which GetDataInformation returns with the entry.
ValidFlag(i) ==
    CASE dir[i].stage \notin {"loaded", "updated"} -> "invalid"
      [] dir[i].lock = "locked" -> "locked"
      [] OTHER -> "valid"

\* findIdIndex: the entries, of those the directory is said to have, with this id;
\* it returns the least of them and throws InvalidId when there is none.
IdIndexes(id) == {i \in DirIndex : i < dirEntries /\ dir[i].id = id}

-----------------------------------------------------------------------------
\* returnedEntries entries from dirIndex on do not fit in dir[].
Overruns(dirIndex, ids) == dirIndex + Len(ids) > MaxDirEntries

\* Mutant: the number of entries is taken to be the last index.
LastIndex(ids) == Len(ids) - 1

\* returnedEntries, which the length of the id list must agree with.
ReturnedEntries(ids) == Len(ids)

\* sendDirectoryInformation with a new version: one packet of a directory, which
\* continues while remaining > 0.  The version changes with the last packet; the
\* number of entries is that of this packet alone.
SendDirectoryInformation(version, dirIndex, ids, remaining) ==
    /\ dirIndex < MaxDirEntries
    /\ Len(ids) >= 1
    /\ version # dirVersion
    /\ dirVersion' = IF remaining > 0 THEN dirVersion ELSE version
    /\ dirEntries' = ReturnedEntries(ids)
    /\ dir' = [i \in DirIndex |->
                  IF i \in dirIndex..(dirIndex + Len(ids) - 1)
                  THEN [dir[i] EXCEPT !.id = ids[i - dirIndex + 1]]
                  ELSE dir[i]]

\* What sendDataInformation answers: the host's data set differs from the one the
\* entry describes, and has to be sent.
EntryChanged(i, dataLen, dataVer, time) ==
    \/ dir[i].dataSetSize # dataLen
    \/ dir[i].dataVersion # dataVer
    \/ dir[i].timestamp # time

\* The conversion of dataVer to the uint8_t dataVersion.
Narrow(v) == v % VersionModulus

SendDataInformation(i, dataLen, dataVer, time) ==
    /\ i < MaxDirEntries
    /\ dir' = [dir EXCEPT ![i].dataSetSize = dataLen,
                          ![i].dataVersion = Narrow(dataVer),
                          ![i].timestamp = time]
    /\ UNCHANGED <<dirVersion, dirEntries>>

\* Mutant: the lock is left as it was.
LoadedEntryStillLocked(e, f) ==
    [e EXCEPT !.dataVersion = f.dirVer,
              !.timestamp = f.timestamp,
              !.size = f.dataSize,
              !.stage = "loaded"]

\* An entry e of the table after agentSynchronizeData accepted file f.
LoadedEntry(e, f) ==
    [e EXCEPT !.dataVersion = f.dirVer,
              !.timestamp = f.timestamp,
              !.size = f.dataSize,
              !.stage = "loaded",
              !.lock = "unlocked"]

\* synchronizeDirectoryCommonData of an entry that exists.
SetSize(i, size) ==
    /\ i \in DirIndex
    /\ dir' = [dir EXCEPT ![i].size = size]
    /\ UNCHANGED <<dirVersion, dirEntries>>

-----------------------------------------------------------------------------
\* The directory alone.  The agent adds what these methods do to its timer and its
\* storage, and the table that is loaded is the one in the file.
DirInit ==
    /\ dirVersion = 1
    /\ dirEntries = 1
    /\ dir \in FreshDir

Announce ==
    \E i \in DirIndex, dataLen \in Sizes, dataVer \in DataVers, time \in Times :
        SendDataInformation(i, dataLen, dataVer, time)

LoadTable ==
    /\ ReadSucceeds(file)
    /\ dir' = [dir EXCEPT ![0] = LoadedEntry(dir[0], file)]
    /\ UNCHANGED <<dirVersion, dirEntries>>

\* sendDataInformation tells a host that announces the same data set again that
\* nothing changed, so that the host does not send its table at every boot (it does not
\* for a version that dataVersion has no room for).
RepeatedAnnouncement ==
    [][\A i \in DirIndex, len \in Sizes, ver \in DataVers, time \in Times :
           SendDataInformation(i, len, ver, time)
               => ~EntryChanged(i, len, ver, time)']_dirVars
=============================================================================
