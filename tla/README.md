# A TLA+ verification of smbios-mdr

smbios-mdr is three programs for an OpenBMC system: `smbiosmdrv2app`, which
keeps the SMBIOS table of the host and publishes it on D-Bus; a blob handler
that `ipmid` loads, through which the host sends that table; and `cpuinfoapp`,
which reads further CPU data over I2C and PECI. This directory holds TLA+
modules that model them, the TLC configurations that check the models on small
instances, and TLAPS proofs of the properties that matter most. `PROJECT.json`
lists components, runs, mutants, the definition-to-source map, findings,
hazards and theorems. Source paths below are relative to the repository.

    tlc -workers 2 -config Mdrv2Agent.cfg MCMdrv2Agent     # a run
    tlapm Mdrv2Agent_proofs.tla                            # the proofs of a module

## 1. Inventory

| part | state | operations | interacts with | what is hard | what makes it correct |
|---|---|---|---|---|---|
| SMBIOS file (`/var/lib/smbios/smbios2`) | header and bytes | rewritten in place by the blob handler, read and truncated by the agent | both processes | no lock, no atomic replacement; either may die in between | what was reported as stored is what is read |
| blob handler (`src/smbios-ipmi-blobs`) | one open blob: session, state flags, staging buffer | open, write, commit, close, expire, stat | the file; D-Bus call to the agent | commit is a sequence of file operations and a blocking call that may fail or time out; retries | buffer is what was written and fits; one outcome; agent called with the whole file |
| MDRv2 directory (`smbiosDir` in `src/mdrv2.cpp`) | version, number of entries, four entries | SendDirectoryInformation, SendDataInformation, FindIdIndex, GetData*, SynchronizeDirectoryCommonData | the host's IPMI commands | multi-packet transfers, integer widths, indices that are not checked, uninitialised memory | the host can query what it sent |
| MDRv2 agent (`src/mdrv2.cpp`) | table storage, one timer for two deferred operations | AgentSynchronizeData, InterfacesAdded, the timer's handlers, restart | file, directory, inventory | cancellation, queued handlers, partial failure | an accepted table is published in the end |
| table parser (`include/smbios_mdrv2.hpp`) | none | walks by type, index and handle; counts; GetRecordType | inventory | limits, structures without an end, short records | the walks agree with each other and with the table |
| inventory objects (`systemInfoUpdate`; cpu, dimm, pcieslot, tpm, firmware, baseboard, system) | lists of D-Bus objects | rebuilt or updated in place | object mapper, other services' objects | objects kept over updates, lookups that fail, path collisions, short structures, exceptions | the objects are those of the table, and show it |
| host state (`src/cpuinfo_utils.cpp`) | powerState, biosDone, osState, hostState | replies, PropertiesChanged, InterfacesAdded | three services | messages of different services in any order, services that come and go | converges on what the host does |
| CPU property setter (`src/cpuinfo_main.cpp`) | propertiesToSet, matches | setCpuProperty, InterfacesAdded | CPU objects of smbiosmdrv2app | objects come and go | the newest value ends up on the object |
| CPU information (`src/cpuinfo_main.cpp`) | cpuInfoMap, failure count, timers | configuration lookup, PIROM loop, PPIN loop | entity-manager, I2C, PECI | loops of replaced objects go on; one count for all CPUs | only confirmed values; the loops end |
| SST discovery (`src/speed_select.cpp`) | staged and published lists, error count, timer | discoverOrWait, hostStateHandler | host state, PECI | re-entrance through `io_context::poll` | never forgotten, never partial |
| SST mailbox, CPUConfig (`src/sst_mailbox.cpp`, `src/speed_select.cpp`) | WOP bookkeeping, cached level, operating configurations | property reads and writes, OS mailbox commands, the loop over the levels | PCode, in-band software, other WOP users | retries, a mailbox shared over time, PECI errors anywhere | answers belong to the command; WOP is not leaked; the levels are all listed |
| chassis CPU objects (`src/chassisCpu.cpp`, a `PLATFORM_PREFIX` build only) | a static list of D-Bus objects | made with each CPU object, cleared with that of CPU 0 | CPU objects | objects of a larger table before stay until CPU 0 is made again | not modelled |
| service files, build files, tools | - | - | - | - | not modelled |

`smbiosmdrv2app` and `cpuinfoapp` are single-threaded asio programs: a handler
runs to its end, and what interleaves are handlers, messages and timers. The
exception is SST discovery, which calls `poll` and so runs handlers inside a
handler. `ipmid` and `smbiosmdrv2app` are two processes that share the file.

## 2. Modules

    SmbiosFile <- BlobHandler ----------------+
        ^                                     +-- SmbiosTransfer
        +------- Mdrv2Directory <- Mdrv2Agent-+
                                              |
                            TableService <====+
    SmbiosTable <- Inventory          RecordFields
    CpuProperties <- CpuInfo          HostState
    SstDiscovery      SstConfig       SstMailbox

(`A <- B`: B extends A; `A <=== B`: B implements A, by INSTANCE with a refinement
mapping.) `MCx` instantiates x; `x_proofs` holds the theorems of x and of the modules
that x composes or that belong to the same program (see the table in section 4);
`NaturalLemmas` has what they share about numbers, recursion and counting.
Each module says in its header what it abstracts. The main correspondences:

* **SmbiosFile.** `file` is absent, shorter than its header, or a header and
  bytes that may disagree about the length; `ReadImage`-style operators are what
  `readDataFromFlash` puts into the storage. Reading is one step, a simplification: the
  function makes several system calls, and ipmid may write between them. A writer's steps
  are separate, so that a reader sees every intermediate file; the commit that wrote it
  calls the agent again at its end. The header is written in one piece.
* **BlobHandler.** `sessionId`, `state`, `buffer` are `blobPtr`'s members;
  `phase` is where `commit` is between the file system calls and the D-Bus call.
  Each of those may fail. Requests that are refused change nothing and are no steps.
* **Mdrv2Directory.** `dir[]` starts with arbitrary contents (`Garbage`), as the
  struct is not initialised; `dataVersion` is kept modulo `VersionModulus`; a write
  behind `dir[]` has an arbitrary effect on the agent's own members (`spilled`).
* **Mdrv2Agent.** `timer` is the wait that is pending, `ready` a handler that has
  expired and can no longer be cancelled, `arming` tells two waits apart. What is
  published is reduced to the image it is made from (`inventory`).
* **SmbiosTransfer.** Both processes on one file; `call` is the agent's answer to
  commit's call, which may time out before or after it is served. `durable` is a
  history variable.
* **TableService.** The abstract service: a commit stands until the next one begins,
  a table that was taken up is shown or owed. `SmbiosTransfer` maps `committed` to
  its history of the last commit, `held` to the storage, `shown` to the inventory and
  `owed` to a publication, or a synchronisation that leads to one, that is pending.
* **SmbiosTable.** A table is a sequence of structures, a pointer a position; the
  lengths that decide whether a walk gives up are kept. The loops are recursive
  functions. A header shorter than four bytes and a structure that looks like an
  entry point are left out; `char` is taken as unsigned, as on the BMC's ARM.
* **Inventory.** `systemInfoUpdate` in one step: it blocks the only thread. Objects
  carry their path, the structure they show and the chassis they are associated
  with. Each mapper lookup may fail. The field conversions are in RecordFields, the
  `System` object is in Mdrv2Agent.
* **RecordFields.** The conversions of `dimm.cpp`, `cpu.cpp`, `pcieslot.cpp` and
  `tpm.cpp`. A structure is a record of the fields of the C struct laid over it; a
  field behind the end of the structure holds arbitrary bytes, and only the code of the
  slots looks at a length. A text is reduced to
  what the code looks for in it. An exception ends the process; systemd restarts it
  and it reads the file again.
* **HostState.** Per service: the value it has, the messages on their way, whether
  the answer to `getProperty` is outstanding. The matches are in place when an
  answer is handled: the call is asynchronous and they are made in the same function. `HostMoves` is guarded so
  that a phase of the host lasts longer than a message takes.
* **CpuProperties, CpuInfo.** The list `propertiesToSet` is kept per CPU. A call, its
  being served by the other process and the handling of its answer are three steps:
  `found` and `messages` hold the answers and signals on their way, in order for each
  sender, so that an answer may be about an earlier configuration. `SspecTimer` is one
  turn of the PIROM loop and `WaitTimer` one of the PPIN loop; loops of a replaced
  `CPUInfo` are counted, and `left` is the history of the waits it left behind.
* **SstDiscovery.** `calls` is the stack of walks, each inside the `poll` of the one
  below. PECI commands fail in three ways (`Faults`). `passedOver` is the history of
  CPUs that a walk left out because of a fault.
* **SstConfig.** One CPU from the creation of its backend on, command by command: the
  loop over its levels, what `getSingleConfig` makes of masks, ratios and buckets, and
  the properties afterwards. Nothing else of the process runs between those commands,
  but in-band software does. A level outside `levels` is one for which PCode reports
  an error; `misjudged` is the history of levels for which it did so by accident.
* **SstMailbox.** Each register access is a step; a write that is reported as failed may
  have been done (`PeciFault` for WOP, `WriteMisreported` for the mailbox). PCode, the CPU's sleep state,
  in-band changes and another user of Wake-On-PECI are external actors. One user of
  the mailbox is assumed: it has no lock, and the repository does not say what
  should hold with two.

## 3. Runs that pass

| run | shows | bounds, and why they are enough |
|---|---|---|
| `blob_handler` | buffer = replay of accepted writes; one outcome | storage of 3 bytes, chunks of 0 to 2 bytes, 3 writes: overlap, gap, exact fit and overflow all occur; two sessions for a stale one |
| `directory` | a directory sent in one packet can be queried for all its ids, whatever packets of a transfer that was given up, announcements and tables came before | two entries, versions modulo 4 with one past it, packets of one and two ids |
| `agent` | no lost publication, valid entry for an accepted table, eventual publication | two-byte images: a good file, a broken, an unsupported and an overlong one; one entry; two garbage entries. Two waits at most exist at a time (one armed, one queued) |
| `transfer` | a table reported as committed is accepted and stays, and gets published; every step is one of `TableService` | one session, tables of two bytes written in one piece: a good, a broken and a refused one, partial files; any number of deaths and commits |
| `host_state` | hostState does not become postComplete on knowledge of an earlier POST; it converges | two messages per service on their way; any number of power cycles |
| `sst_discovery` | no lost retry, nothing partial, stale objects are replaced, discovery ends | 3 CPUs, one without SST; nesting up to 3; 4 faults of 3 kinds; given up after 3 errors, so that a discovery goes on after two |
| `sst_config` | the levels are complete and in order, the applied one is among them, core lists and turbo profiles are the CPU's, the walk ends | six CPUs: gaps in the levels, the largest level number, PP switched off, an unknown model, a current level behind the largest or without support; words of 2 cores and 2 buckets, levels of 2 bits; 3 errors or in-band changes |
| `sst_mailbox` | answers are ours, WOP not leaked, level current, BF asked for an explainable level; operations end | 2 levels, 2 retries, and one disturbance anywhere: a PECI fault, an in-band change or a use of WOP by another application |
| `cpu_info` | Model only from confirmed reads and kept on the object, loops end, the CPUInfo has the configured address in the end, PPIN read, and final unless an earlier CPUInfo left a wait | one CPU, 2 addresses, 2 moves of the object, 2 changes of the configuration or faults: an answer about the first configuration arrives after the second was made, and an old and a new loop overlap |
| `inventory` | the walks and the objects against a reference definition, over all small tables and over histories; unique paths; GetRecordType agrees; one chassis | all tables of up to four structures (five with a board in front) of 11 kinds, each published at the start; then histories of two out of 4 tables that cover all object kinds, with two anchors, two modules and one lookup failing at a time; counts limited to 2, the end of a structure looked for over 8 bytes |
| `record_fields` | no field of an earlier table stays, a slot without a height is not shown as a low one, sizes are exact; a good table is shown whatever the service died of before | every ordered pair out of 138 tables, each of which differs from a plain one in one kind of structure; `size` of 4 bits, 4 kilobytes to the megabyte and arithmetic modulo 64, so that all sizes up to and past the largest occur. What an object shows depends on the table before last only through the one before, so that two are enough |

The types of the variables, that the staging buffer fits and that the agent is called
with the whole file are proved (section 4) and not checked again by runs.

Deadlock is checked in every run but `record_fields`, where the service is at rest
once the host has sent its last table.

**Fairness.** Only what the process or the kernel does by itself is fair; nothing
is assumed of the host, of callers, of PCode or of operators.
`AgentFairness` (and `TransferFairness`): a wait ends if the timer is not armed again
- one condition per value of `arming`, since re-arming restarts the wait, so that
callers who call for ever do keep a table unpublished - and queued handlers are run.
`HostStateFairness`: D-Bus delivers, services answer, are restarted by systemd and
follow the host. `SstFairness`, `CpuInfoFairness`, `PropertiesFairness`: handlers run,
timers expire, messages are delivered, the mapper and the service of the configuration
answer. The mailbox: the thread that is inside the
blocking call goes on (`OperationStep`). `FairFieldsSpec`: the publication timer
expires, and systemd restarts the service (`Restart=always` in
`service_files/smbios-mdrv2.service`). `FairSstConfigSpec`: a walk goes on, the retry
timer expires.

## 4. Proofs

Each safety theorem is `Spec => []P`, or `Spec => [][A]_vars` for an action property,
for all constants that satisfy the named assumptions, by an inductive invariant.

| module | theorem | invariant and argument |
|---|---|---|
| `Mdrv2Agent_proofs` | `TypeCorrect`, `PublicationNotLost`, `TableEntryIsValid` | what reading any file yields is an image (lemmas on SmbiosFile). `AgentInv` = `TypeOK`, `NoLostPublication`, and that a supported table in the storage comes with a loaded, unlocked entry unless `dir[]` was overrun (`TableEntry`). The case that matters is arming the timer: it cancels a publication only if it arms one, or a synchronisation that will |
| | `OnePacketAlwaysQueryable` | `PacketsCounted`: no packet, nothing outstanding. A version that is taken over with the first packet came with the number of entries of that packet |
| `SmbiosTransfer_proofs` | `BlobTypeCorrect`, `BufferAlwaysFits`, `OutcomeIsUnique`, `CalledAfterLastByte` | `BlobInv`: types, `BufferFits`, `OneOutcome`, what is in the file at each phase of commit, and *no outcome is set while commit is running* - without which the step that sets the outcome could add a second one |
| | `BufferAlwaysReplay` | `ReplayInv`: in addition, a blob starts with no writes; each write changes the bytes from its offset on and fills a gap with zeros, as the replay of one more write does |
| | `CommittedTableIsDurable`, `TransferTypeCorrect`, `TransferPublicationNotLost` | `TransferInv` = types, what the file holds at each phase of commit (`CommitFile`), what the agent's answer says of the storage (`CallAnswer`), that both still hold the last committed table (`LastCommit`), and the agent's `NoLostPublication` |
| | `TransferImplementsService` | the initial states map to initial states of `TableService`, and under `TransferInv` every step of either process to one of its steps or to a stutter |
| `Inventory_proofs` | `InventoryAlwaysMatches` | what each walk of `SmbiosTable` computes, said with the set `Visible` of the structures that a walk can reach: a search finds the first of them from where it is (`SearchFinds`), the pointer with an index the one with that many in front (`IndexFinds`), the counting loop the smaller of their number and the limit (`CountFinds`), and the loop of `pcieInfoUpdate` the slot with its number if the first slot is PCIe (`SlotFinds`). `Visible` is an initial part of the structures of a type, and all of them in a well-formed table. The property itself is then inductive |
| | `RecordsAlwaysMatch` | the loop of `getRecordType` lists structures by rank too (`RecordsFound`), and a structure is known by its rank; follows from `InventoryMatchesTable` |
| | `OneChassisAlways` | `OneChassis` is inductive, but only because a slot object with a number below the count always finds a slot (`SlotShown`): one that did not would keep the chassis of an earlier motherboard |
| | `PathsAlwaysUnique` | `PciesNumbered`: the path of a slot that is kept ends in its number. Memory objects: the number of modules in front tells modules apart (`BoardNamesDiffer`), the number of memory devices in front tells devices on a board apart (`PlacesDiffer`). Under the hypothesis that handles are distinct within each table |
| `CpuInfo_proofs` | `NeverJumpsBack` | (HostState) `HostStateInv` = types, that a power service which says off, or has said so last, tells the truth and says nothing but off after it (`OffIsTrue`), and that as long as no POST ended since off was seen, nobody takes POST to be done or will say so (`NoPostSeen`), or the application knows that the host is off (`OffIsKnown`) |
| | `NewestAlwaysShown` | (CpuProperties) `NewestArrives`: the last Set call on its way carries the value that was listed last. The safety part of `ModelStays`, which TLC checks under fairness |
| | `OnlyConfirmedModels` | `CpuInfoInv`: in addition, the value that the next read is compared with is the latest one that was read since the CPUInfo was made (`SpecWasSeen`) |
| | `PpinStays` | `WaitsInv`: beside the waits that were pending when the CPUInfo was made (`left`) there is at most one, and none once the PPIN was read. So a second read comes from one of the former |
| `SstDiscovery_proofs` | `RetryNotLost`, `PublishedIsComplete` | `SstInv` = types, every walk on the stack has dealt with the CPUs below its own (`CallsWalked`), `NoLostRetry`, `NothingPartial` |
| | `StaleAlwaysReplaced` | `StaleInv` = what the lists of the walks hold (`ListsExplained`), that a CPU's path is held by one walk at most (`OneObject`), and that the innermost walk holds something stale only while a retry is to come (`TopStale`). A walk that reaches the end above a stale one would need the paths the stale one holds, so that the process ends and starts anew |
| | `SstMailboxTypeCorrect`, `AnswerAlwaysOurs`, `WakeNeverLeaked`, `LevelAlwaysCurrent`, `BfLevelAlwaysExplained` | (SstMailbox) `MailboxInv` = types, which command an operation sends (`OpCommand`), where it is with it (`Waiting`), whose command is in the mailbox (`BoxIsOurs`), who holds WOP (`WakeHeld`), and how the cached level relates to the CPU's (`LevelsKnown`, `NotDrifted`) |
| `SstConfig_proofs` | `SstConfigTypeCorrect`, `LevelsAlwaysListed`, `AppliedAlwaysListed` | `ConfigInv` = types, the listed levels are in order and below the loop's (`InOrder`), the supported ones below it are listed or misjudged (`LoopAt`), and the CPU is at the level that was read or at one that can be chosen (`LevelChosen`) |
| | `CoresAlwaysExact`, `TurboAlwaysExact` | what the `push_back` loops produce (`PushedBackLists`: the kept items in order, each once), that two words joined are the mask (`Halves`, `RatiosJoined`), and that dropping the empty buckets leaves the first usable one first |
| `RecordFields_proofs` | `FieldsNeverStale`, `OlderRecordAlwaysUnknown`, `SizeAlwaysExact` | `FieldsInv`: slot objects, which are kept, are those of a fresh service for some table, so that filling them in again leaves nothing of it. The sizes follow from the arithmetic of `dimmSize` and `dimmSizeExt` |
| `NaturalLemmas` | lemmas | induction as a statement about sets (`LeastElement`, `SetInduction`), and the existence of the function that a loop defines if a measure goes down (`RecursionExists`); counting the elements in front of one (`CountNext`, `CountGrows`) |

**Loops.** The library's induction theorems and its theorems on recursive functions take
an operator as a parameter, which the provers cannot instantiate. `NaturalLemmas` states
what is needed of them with sets and functions in place of operators, from the
well-foundedness of the natural numbers. A loop of the code is a recursive function
in the model; its proof first gives the function that solves the equation
(`CountLoop`, `SlotLoop`, `RecordLoop`), then argues by induction on the positions left.

**Assumptions.** The named ASSUMEs of the modules, which every run evaluates: sizes and
bounds are numbers, `IsTable` of the tables, `SlotConforms` of the slots of RecordFields,
`CpuConforms` of the CPUs of SstConfig. `PathsAlwaysUnique` has a hypothesis of its own,
distinct handles, which SMBIOS demands and the instance of the run `inventory` has.

**Only model-checked**: the liveness properties and everything under fairness
(`EventuallyPublished`, `CommitIsPublished`, `HostStateConverges`, `DiscoveryEnds`,
`ReadingEnds`, `ConfigurationApplied`, `PpinIsRead`, `ModelStays`, `OperationEnds`,
`HarmlessShown`, `ConfigWalkEnds`), which are outside the prover. Every invariant and
every action property that a passing run checks is stated by a theorem.

## 5. Findings

Statements of the repository that the code does not keep. One is a run of
`PROJECT.json`; the others have a configuration of their own, which ends in a
counterexample of the one property it names.

| configuration | what the code does |
|---|---|
| run `locator_throws` | a locator with "CPU" and no digit behind it ends the service: the handler around `std::stoi` catches an exception of another kind. (A locator that ends in "DIMM" does so too, at a `substr` without a handler; `LocatorSurvived` leaves it out) |
| `WideVersion` | a data version above 255 is answered as changed at every announcement (`RepeatedAnnouncement`, which no run checks: for smaller versions it says only that what was assigned is compared) |
| `PacketedDirectory` | a directory sent in several packets gets the size of the last one |
| `ValidEntry` | a failed synchronisation wipes the storage and leaves the entry valid |
| `RefusedTable` | a table that was refused is published by the next signal or pending timer |
| `BrokenDeletion` | a broken table in the storage makes the agent truncate a file that is good by then |
| `HostStateRestart` | replies that precede the one about power are lost; hostState stays postInProgress |
| `SstStale`, `SstOverlap` | power cycles and retries inside `poll`: stale data is published, paths are taken |
| `SstGivenUp` | PECI errors add up over successful discoveries |
| `PiromSharedCount`, `PiromSubsequent` | the failure count is shared by all CPUs; a failed read between two matching ones |
| `HalfPpin` | a wait that a replaced CPUInfo left behind publishes half a PPIN in place of a whole one, when its read of the low half fails ("set SerialNumber if cpuPPIN is valid") |
| `SstBfLevel` | BF is asked for the cached level |
| `PciePath` | PCIe slot objects keep their path when the motherboard appears later |
| `PcieSlotOrder` | the PCIe objects are off by one if the first system slot is not PCIe |

Met while modelling, without a configuration: a CPU whose GetCPUID fails other than
by a time-out is left out of a discovery that ends well (`passedOver`); a QDF string
whose field starts with an unprintable byte is read one byte early; a customised
inventory path is not matched exactly; `pcieSmbiosType` lacks the slot type
0x1e that the tables of generation and type have; a memory device of 4 TB or more
wraps in `dimmSizeExt` (`SizeExact` excludes it), and size 0xFFFF, unknown, is shown as
32767 kilobytes; a memory device of version 3.0, which has no memory technology, is shown
with the one that the first byte of its strings or of the next structure stands for; the firmware version of a TPM 1.x is
printed as characters; the family name is searched for " Intel " with both blanks;
an error that the mailbox reports for any reason reads as a level without support
(`misjudged` in `LevelsListed` and `AppliedIsListed`).

## 6. Not modelled

The UUID of the `System` object and the fields that are copied unchanged (widths,
speeds, serial numbers beyond the choice of their string); bus and address numbers;
`setBfEnabled` and `setTfEnabled`, which nothing calls; the chassis CPU objects of a
`PLATFORM_PREFIX` build, a list beside the CPU objects that nothing modelled reads; the read-only D-Bus methods
beyond the operators that properties use; the build files and scripts. A second user
of the OS mailbox. The mapper is taken to know an object once its signal was sent, and
to be up to date when it serves a call.

## 7. Plan

Done, in this order: SmbiosFile, BlobHandler, Mdrv2Directory, Mdrv2Agent,
SmbiosTransfer with proofs; HostState, SstDiscovery with proofs, CpuProperties,
CpuInfo, SstMailbox; SmbiosTable, Inventory; TableService and the refinement;
RecordFields, SstConfig, and the proofs of both and of SstMailbox; the proofs of
BufferIsReplay, Mdrv2Directory, HostState, CpuProperties, CpuInfo, Inventory and of the
lists of SstConfig.

Next:

1. Proofs: the objects that `InventoryMatchesTable` leaves out (the TPM, the firmware
   inventory: each name once, none that another service publishes); the reachability
   part of the liveness properties (an invariant that names the step that is to come).
2. Composition: `CpuProperties` with the inventory's rebuilding of CPU objects;
   `HostState` with SST discovery.
3. A second CPU in `SstConfig`, so that the staging list has two entries.
