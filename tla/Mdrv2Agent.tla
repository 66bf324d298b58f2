------------------------------ MODULE Mdrv2Agent ------------------------------
(***************************************************************************)
(* smbiosmdrv2app: a single-threaded process that copies the SMBIOS file   *)
(* into its table storage when AgentSynchronizeData is called, and         *)
(* publishes what the storage holds on D-Bus two seconds later, from the   *)
(* handler of a timer.  SynchronizeDirectoryCommonData uses the same timer *)
(* to defer a synchronisation.  Arming the timer cancels the wait that was *)
(* pending on it, but not a handler that has already expired and waits for *)
(* its turn; a cancelled handler sees an error code and does nothing.      *)
(***************************************************************************)
EXTENDS Mdrv2Directory

CONSTANTS
    Supported,     \* the images that pass checkSMBIOSVersion
    Broken,        \* the images with unprintable characters in the BIOS version
    HostFiles      \* what another writer (intel-ipmi-oem) may leave in the file

\* An all-zero storage has no anchor string, and no record in it.
ASSUME AgentAssumption ==
    /\ Supported \subseteq Image
    /\ Broken \subseteq Image
    /\ ZeroImage \notin Supported \cup Broken
    /\ HostFiles \subseteq File

VARIABLES
    storage,       \* smbiosTableStorage
    timer,         \* the wait pending on timer: what its handler will do
    ready,         \* the handler whose wait is over and that is queued to run
    arming,        \* flips when the timer is armed: two waits are told apart
    inventory,     \* the image the D-Bus objects were built from; << >>: none
    spilled        \* history: dir[] was overrun since the storage was filled

timerVars == <<timer, ready, arming>>
agentVars == <<dirVars, storage, timerVars, inventory, spilled>>
vars == <<file, agentVars>>

Handler == {"none", "info", "sync"}

TypeOK ==
    /\ file \in File
    /\ DirTypeOK
    /\ storage \in Image
    /\ timer \in Handler
    /\ ready \in Handler
    /\ arming \in BOOLEAN
    /\ inventory \in Image \cup {<< >>}
    /\ spilled \in BOOLEAN

-----------------------------------------------------------------------------
\* Mutant: the pending wait is cancelled and none is started.
ArmWithoutWait(handler) == timer' = "none" /\ arming' = ~arming

\* timer.expires_after and async_wait.
Arm(handler) == timer' = handler /\ arming' = ~arming

\* agentSynchronizeData accepts f: it can be read and its version is supported.
Accepts(f) == ReadSucceeds(f) /\ ReadImage(f) \in Supported

\* agentSynchronizeData.  The storage is wiped and filled whether or not the file is
\* accepted; a refused file leaves the entry, and a pending wait, as they were.
Sync ==
    /\ storage' = ReadImage(file)
    /\ spilled' = FALSE
    /\ IF Accepts(file)
       THEN /\ Arm("info")
            /\ dir' = [dir EXCEPT ![0] = LoadedEntry(dir[0], file)]
       ELSE UNCHANGED <<timer, arming, dir>>

\* Mutant: objects that exist are not rebuilt.
SystemInfoUpdateOnce ==
    /\ inventory' = IF inventory = << >> THEN storage ELSE inventory
    /\ UNCHANGED file

\* System::version truncates the file when the BIOS version in the storage has
\* unprintable characters, if it can open the file for writing.
SystemVersion ==
    \/ storage \in Broken /\ file' = ShortFile
    \/ UNCHANGED file

\* systemInfoUpdate: every inventory object is rebuilt from the storage, the System
\* object last.
SystemInfoUpdate == inventory' = storage /\ SystemVersion

-----------------------------------------------------------------------------
\* The D-Bus method AgentSynchronizeData.
AgentSynchronizeData ==
    /\ Sync
    /\ UNCHANGED <<file, dirVersion, dirEntries, ready, inventory>>

\* synchronizeDirectoryCommonData does not check idIndex: past the end of dir[] the
\* size lands in the members behind it, the first of which is the storage.
SynchronizeDirectoryCommonData(i, size) ==
    /\ Arm("sync")
    /\ \/ SetSize(i, size) /\ UNCHANGED <<storage, spilled>>
       \/ /\ i \notin DirIndex
          /\ storage' \in Image
          /\ spilled' = TRUE
          /\ UNCHANGED dirVars
    /\ UNCHANGED <<file, ready, inventory>>

\* An id list that does not fit in dir[] runs on into the storage as well.
SendDirectory(version, dirIndex, ids, remaining) ==
    /\ SendDirectoryInformation(version, dirIndex, ids, remaining)
    /\ \/ ~Overruns(dirIndex, ids) /\ UNCHANGED <<storage, spilled>>
       \/ Overruns(dirIndex, ids) /\ storage' \in Image /\ spilled' = TRUE
    /\ UNCHANGED <<file, timerVars, inventory>>

SendData ==
    /\ Announce
    /\ UNCHANGED <<file, storage, timerVars, inventory, spilled>>

\* The match on InterfacesAdded calls systemInfoUpdate at once, whatever the
\* storage holds.
InterfacesAdded ==
    /\ SystemInfoUpdate
    /\ UNCHANGED <<dirVars, storage, timerVars, spilled>>

\* The wait is over: its handler is queued.  The io_context polls the timer again
\* only after it has run the handlers it queued before.
Expire ==
    /\ timer # "none"
    /\ ready = "none"
    /\ ready' = timer
    /\ timer' = "none"
    /\ UNCHANGED <<file, dirVars, storage, arming, inventory, spilled>>

RunInfo ==
    /\ ready = "info"
    /\ ready' = "none"
    /\ SystemInfoUpdate
    /\ UNCHANGED <<dirVars, storage, timer, arming, spilled>>

RunSync ==
    /\ ready = "sync"
    /\ ready' = "none"
    /\ Sync
    /\ UNCHANGED <<file, dirVersion, dirEntries, inventory>>

\* The process dies and systemd starts it again (Restart=always): the constructor
\* fills in smbiosDir and ends with an agentSynchronizeData.
AgentRestart ==
    /\ dirVersion' = 1
    /\ dirEntries' = 1
    /\ storage' = ReadImage(file)
    /\ timer' = IF Accepts(file) THEN "info" ELSE "none"
    /\ ready' = "none"
    /\ arming' = ~arming
    /\ inventory' = << >>
    /\ spilled' = FALSE
    /\ \E d \in FreshDir :
           dir' = IF Accepts(file)
                  THEN [d EXCEPT ![0] = LoadedEntry(d[0], file)] ELSE d
    /\ UNCHANGED file

\* External: another writer of the file, before it calls AgentSynchronizeData.
HostWritesFile(f) == file' = f /\ UNCHANGED agentVars

-----------------------------------------------------------------------------
\* The first start of the process on a BMC that no table was ever sent to: the
\* agentSynchronizeData of the constructor fails.  (Starts with a table in the file
\* are restarts.)
Init ==
    /\ file = NoFile
    /\ DirInit
    /\ storage = ZeroImage
    /\ timer = "none"
    /\ ready = "none"
    /\ arming = FALSE
    /\ inventory = << >>
    /\ spilled = FALSE

\* The methods and signals that come in over D-Bus.
DBusCall ==
    \/ AgentSynchronizeData
    \/ InterfacesAdded
    \/ \E i \in 0..MaxDirEntries, size \in Sizes :
           SynchronizeDirectoryCommonData(i, size)
    \/ \E version \in DirVersions, i \in DirIndex, ids \in Packets, more \in 0..1 :
           SendDirectory(version, i, ids, more)
    \/ SendData

TimerStep == Expire \/ RunInfo \/ RunSync

Next ==
    \/ DBusCall
    \/ TimerStep
    \/ AgentRestart
    \/ \E f \in HostFiles : HostWritesFile(f)

\* A wait ends if the timer is not armed again before, hence one condition for each
\* value of arming; a handler that is queued is run.
AgentFairness ==
    /\ WF_vars(Expire /\ arming = TRUE)
    /\ WF_vars(Expire /\ arming = FALSE)
    /\ WF_vars(RunInfo)
    /\ WF_vars(RunSync)

Spec == Init /\ [][Next]_vars

FairSpec == Spec /\ AgentFairness

-----------------------------------------------------------------------------
\* No publication is lost: as long as the storage holds an accepted table that is
\* not the one on D-Bus, a wait is pending or a handler is queued.  The waits for the
\* two deferred calls cancel each other, a refused file leaves a wait of its
\* predecessor behind, and the process may restart between any two of these.
Outdated == storage \in Supported /\ inventory # storage /\ ~spilled

NoLostPublication == Outdated => timer # "none" \/ ready # "none"

\* When the callers leave the timer alone from some point on, the inventory ends up
\* describing the table in the storage, for good.
TimerLeftAlone == <>[](arming = TRUE) \/ <>[](arming = FALSE)

EventuallyPublished == TimerLeftAlone => <>[]~Outdated

\* While the storage holds an accepted table the directory says so: GetDataInformation
\* reports entry 0 as valid and GetDataOffer offers it, although dir[] starts out with
\* whatever the memory held and the host may rewrite every other field of the entry.
TableHasValidEntry ==
    storage \in Supported /\ ~spilled => ValidFlag(0) = "valid" /\ IsAvailForUpdate(0)

\* The flag that GetDataInformation returns tells the host that the table it names
\* is there: a valid entry has a table behind it.
ValidEntryHasTable == ValidFlag(0) = "valid" => storage \in Supported

\* A table that agentSynchronizeData refused is not published.
RefusedNotPublished == inventory \in Supported \cup {<< >>, ZeroImage}
=============================================================================
