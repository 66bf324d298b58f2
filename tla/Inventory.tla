----------------------------- MODULE Inventory -----------------------------
(***************************************************************************)
(* The inventory objects of smbiosmdrv2app: MDRV2::systemInfoUpdate        *)
(* (src/mdrv2.cpp), which makes them from the table in the storage and     *)
(* from what the object mapper knows of other services' objects, and the   *)
(* constructors and update functions of the objects.                       *)
(*                                                                         *)
(* systemInfoUpdate is one step: it runs to its end in the one thread of   *)
(* the service, its calls are blocking.  It runs when the publication of a *)
(* table is due (see Mdrv2Agent for the timer behind that) and for each    *)
(* InterfacesAdded signal of a system or processor module object.          *)
(*                                                                         *)
(* The System object, which systemInfoUpdate makes last, is in Mdrv2Agent. *)
(*                                                                         *)
(* D-Bus paths are numbers, in their lexical order; NoPath is the empty    *)
(* string, and stands for defaultMotherboardPath where a path is made.     *)
(***************************************************************************)
EXTENDS SmbiosTable, FiniteSets, FiniteSetsExt

CONSTANTS StartTables,     \* the tables the file may hold at the start
          Tables,          \* the tables a host may send
          Anchors,         \* objects with the System interface (as paths)
          ChassisAnchors,  \* those of them that are a chassis too
          Modules,         \* processor modules: [path, instance]
          Versions,        \* names of firmware that other services publish (FirmwareName)
          InventoryPath,   \* smbiosInventoryPath, or NoPath for the default
          MaxTables,       \* bound: synchronisations
          MaxSignals,      \* bound: signals under way at a time
          MayFail          \* the mapper lookups that may fail

NoPath == 0
NoInstance == {}            \* an instance or socket number n is {n}
NoSocket == {}
NoName == "no name"
Nothing == "nothing"

ASSUME InventoryAssumption ==
    /\ Anchors \subseteq Nat \ {NoPath}
    /\ ChassisAnchors \subseteq Anchors
    /\ InventoryPath \in Anchors \cup {NoPath}
    /\ MaxTables \in Nat /\ MaxSignals \in Nat
    /\ MayFail \subseteq {"anchors", "modules", "instances", "versions"}
    /\ \A t \in Tables \cup StartTables : IsTable(t)

VARIABLES table,            \* what the storage holds
          synced,           \* number of tables received
          publication,      \* a publication is due
          signals,          \* InterfacesAdded signals under way
          mapper,           \* what other services have on the bus
          motherboardPath,  \* what the last systemInfoUpdate found
          baseboards, cpus, dimms, pcies, tpm, firmwareCollection

objects == <<baseboards, cpus, dimms, pcies, tpm, firmwareCollection>>
vars == <<table, synced, publication, signals, mapper, motherboardPath, objects>>
-----------------------------------------------------------------------------
(***************************************************************************)
(* The lookups at the start of systemInfoUpdate.  A lookup that fails is   *)
(* logged and counts as an empty answer.                                   *)
(***************************************************************************)
Answer(failed) ==
    [anchors |-> IF "anchors" \in failed THEN {} ELSE mapper.anchors,
     versions |-> IF "versions" \in failed THEN {} ELSE mapper.versions,
     modules |-> IF "modules" \in failed THEN {}
                 ELSE IF "instances" \in failed
                      THEN {[m EXCEPT !.instance = NoInstance] : m \in mapper.modules}
                 ELSE mapper.modules]

\* More than one anchor: the first that is a chassis; otherwise the first.
FindMotherboard(anchors) ==
    LET chassis == anchors \cap ChassisAnchors
    IN  CASE anchors = {} -> NoPath
          [] Cardinality(anchors) > 1 /\ chassis # {} -> Min(chassis)
          [] OTHER -> Min(anchors)
-----------------------------------------------------------------------------
(***************************************************************************)
(* Baseboards: a name, and what they contain.  They are not on D-Bus.  The *)
(* contained objects are in the order of the structure's handles, those of *)
(* which that the table does not have are left out.                        *)
(***************************************************************************)
Baseboard(t, index) ==
    LET Ptr(i) == getSMBIOSTypeIndexPtr(t, baseboardType, i)
        raw == t[Ptr(index)]
        before == {i \in 0 .. (index - 1) : t[Ptr(i)].module}
        Found(i) == smbiosHandlePtr(t, raw.contains[i])
        known == {i \in 1 .. Len(raw.contains) : Found(i) # nullptr}
    IN  [name |-> IF raw.module THEN <<"ProcessorModule", Cardinality(before)>>
                  ELSE <<"Board", index>>,
         containedObjects |->
             [i \in known |-> [handle |-> raw.contains[i], type |-> t[Found(i)].type]]]

Contains(board, handle) ==
    \E i \in DOMAIN board.containedObjects : board.containedObjects[i].handle = handle

\* Mutant: the objects in front are not counted.
findIndexOfTypeUncounted(board, handle) == 0

\* The number of objects of the same type in front of the handle.
findIndexOfType(board, handle) ==
    LET objs == board.containedObjects
        at == Min({i \in DOMAIN objs : objs[i].handle = handle})
    IN  Cardinality({i \in DOMAIN objs : i < at /\ objs[i].type = objs[at].type})

NewBaseboards(t) ==
    [i \in 1 .. getTotalNum(t, baseboardType) |-> Baseboard(t, i - 1)]
-----------------------------------------------------------------------------
(***************************************************************************)
(* An object: its path, the structure whose fields it shows, and the       *)
(* chassis that it is associated with.                                     *)
(***************************************************************************)
Object(path, shows, chassis) == [path |-> path, shows |-> shows, chassis |-> chassis]

\* The module that a processor with this socket is placed under, if any.
ModulesFor(modules, socket) ==
    IF socket = NoSocket THEN {}
    ELSE {m.path : m \in {n \in modules : \/ Cardinality(modules) = 1
                                          \/ n.instance = socket}}

\* Cpu::infoUpdate returns before the association if the socket is empty.
NewCpu(t, index, board, modules) ==
    LET cpuInfo == t[getSMBIOSTypeIndexPtr(t, processorsType, index)]
        under == ModulesFor(modules, cpuInfo.socket)
        container == IF under = {} THEN board ELSE Min(under)
    IN  Object(<<"CPU", IF under = {} THEN NoPath ELSE Min(under), index>>, cpuInfo,
               IF cpuInfo.populated THEN container ELSE NoPath)

NewCpus(t, board, modules) ==
    [i \in 1 .. getTotalCpuSlot(t) |-> NewCpu(t, i - 1, board, modules)]

\* The name comes from the first board that contains the memory device.
NewDimm(t, index, boards, board) ==
    LET memoryInfo == t[getSMBIOSTypeIndexPtr(t, memoryDeviceType, index)]
        holders == {i \in 1 .. Len(boards) : Contains(boards[i], memoryInfo.handle)}
        holder == boards[Min(holders)]
        objName == IF holders = {} THEN <<"Memory", index>>
                   ELSE holder.name \o <<findIndexOfType(holder, memoryInfo.handle)>>
    IN  Object(<<"DIMM", objName>>, memoryInfo, board)

NewDimms(t, boards, board) ==
    [i \in 1 .. getTotalDimmSlot(t) |-> NewDimm(t, i - 1, boards, board)]

(***************************************************************************)
(* PCIe slots: objects that exist are kept, with their path.  Without a    *)
(* motherboard the association stays as it is.                             *)
(***************************************************************************)
PciePath(board, index) ==
    <<"PCIe", IF InventoryPath = NoPath THEN board ELSE InventoryPath, index>>

\* Mutant: a slot that has a chassis keeps it.
pcieInfoUpdateOldChassis(object, t, index, board) ==
    LET p == PcieSlotPtr(t, index)
    IN  IF p = nullptr THEN object
        ELSE Object(object.path, t[p], IF object.chassis = NoPath THEN board ELSE object.chassis)

pcieInfoUpdate(object, t, index, board) ==
    LET p == PcieSlotPtr(t, index)
    IN  IF p = nullptr THEN object
        ELSE Object(object.path, t[p], IF board = NoPath THEN object.chassis ELSE board)

NewPcies(t, board) ==
    [i \in 1 .. getTotalPcieSlot(t) |->
        pcieInfoUpdate(IF i > Len(pcies)
                       THEN Object(PciePath(board, i - 1), Nothing, NoPath)
                       ELSE pcies[i],
                       t, i - 1, board)]

NewTpm(t, board) ==
    IF getTotalNum(t, tpmDeviceType) = 1
    THEN Object(<<"TPM", board>>, t[getSMBIOSTypePtr(t, 1, tpmDeviceType, 0)], NoPath)
    ELSE Nothing

(***************************************************************************)
(* Firmware: skipped are components the BMC knows by itself and those with *)
(* "psu" in the name (both own), names that another service publishes, and *)
(* names that this service already has, for which the constructor throws.  *)
(* A component without a name is given one first, by its number.           *)
(***************************************************************************)
FirmwareName(s, index) == IF s.name = NoName THEN <<"firmware", index>> ELSE <<s.name>>

NewFirmware(t, versions) ==
    LET num == getTotalNum(t, firmwareInventoryInformationType)
        S(i) == t[getSMBIOSTypeIndexPtr(t, firmwareInventoryInformationType, i)]
        Made(i) == /\ ~ S(i).own
                   /\ FirmwareName(S(i), i) \notin versions
                   /\ \A j \in 0 .. (i - 1) :
                          FirmwareName(S(j), j) = FirmwareName(S(i), i) => S(j).own
    IN  {Object(<<"Firmware", FirmwareName(S(i), i)>>, S(i), NoPath) :
            i \in {j \in 0 .. (num - 1) : Made(j)}}
-----------------------------------------------------------------------------
systemInfoUpdate(failed) ==
    LET known == Answer(failed)
        board == FindMotherboard(known.anchors)
        boards == NewBaseboards(table)
    IN  /\ motherboardPath' = board
        /\ baseboards' = boards
        /\ cpus' = NewCpus(table, board, known.modules)
        /\ dimms' = NewDimms(table, boards, board)
        /\ pcies' = NewPcies(table, board)
        /\ tpm' = NewTpm(table, board)
        /\ firmwareCollection' = NewFirmware(table, known.versions)

Failures == {{}} \cup {{f} : f \in MayFail}

\* A table is accepted into the storage; its publication is deferred.
agentSynchronizeData ==
    /\ synced < MaxTables
    /\ synced' = synced + 1
    /\ \E t \in Tables : table' = t
    /\ publication' = TRUE
    /\ UNCHANGED <<signals, mapper, motherboardPath, objects>>

Publish ==
    /\ publication
    /\ publication' = FALSE
    /\ \E failed \in Failures : systemInfoUpdate(failed)
    /\ UNCHANGED <<table, synced, signals, mapper>>

InterfacesAdded ==
    /\ signals > 0
    /\ signals' = signals - 1
    /\ \E failed \in Failures : systemInfoUpdate(failed)
    /\ UNCHANGED <<table, synced, publication, mapper>>
-----------------------------------------------------------------------------
(***************************************************************************)
(* The other services' objects.  Only the appearance of a system or a      *)
(* module is something that the service listens to.                        *)
(***************************************************************************)
Appear ==
    /\ signals < MaxSignals
    /\ \/ \E a \in Anchors \ mapper.anchors :
              mapper' = [mapper EXCEPT !.anchors = @ \cup {a}]
       \/ \E m \in Modules \ mapper.modules :
              mapper' = [mapper EXCEPT !.modules = @ \cup {m}]
    /\ signals' = signals + 1
    /\ UNCHANGED <<table, synced, publication, motherboardPath, objects>>

Disappear ==
    /\ \/ \E a \in mapper.anchors : mapper' = [mapper EXCEPT !.anchors = @ \ {a}]
       \/ \E m \in mapper.modules : mapper' = [mapper EXCEPT !.modules = @ \ {m}]
    /\ UNCHANGED <<table, synced, publication, signals, motherboardPath, objects>>

VersionsChange ==
    /\ \E v \in SUBSET Versions : v # mapper.versions /\ mapper' = [mapper EXCEPT !.versions = v]
    /\ UNCHANGED <<table, synced, publication, signals, motherboardPath, objects>>

\* The constructor synchronises with the file, if that holds a table.
Init ==
    /\ table \in StartTables \cup {<<>>} /\ synced = 0
    /\ publication = (table # <<>>) /\ signals = 0
    /\ mapper = [anchors |-> {}, modules |-> {}, versions |-> {}]
    /\ motherboardPath = NoPath
    /\ baseboards = <<>> /\ cpus = <<>> /\ dimms = <<>> /\ pcies = <<>>
    /\ tpm = Nothing /\ firmwareCollection = {}

Next == \/ agentSynchronizeData \/ Publish \/ InterfacesAdded
        \/ Appear \/ Disappear \/ VersionsChange

Spec == Init /\ [][Next]_vars
-----------------------------------------------------------------------------
(***************************************************************************)
(* Properties.  The reference: the structures of a type in table order, as *)
(* many as the code is willing to count.                                   *)
(***************************************************************************)
\* Every structure ends where the walk still looks for its end.
WellFormed(t) == \A i \in 1 .. Len(t) : t[i].length + t[i].strings < mdrSMBIOSSize

\* The k-th object shows the k-th of these structures, the one with k - 1 in front of it.
ShowsTheFirst(objs, structures) ==
    /\ \A k \in 1 .. Len(objs) :
           \E p \in structures : /\ objs[k].shows = table[p]
                                 /\ Cardinality({q \in structures : q < p}) = k - 1
    /\ WellFormed(table) => Len(objs) = Min({limitEntryLen, Cardinality(structures)})

\* Once a table is published, the processor and memory objects are those of
\* the table, one for each structure and in its order, whatever objects an
\* earlier table had left (systemInfoUpdate counts with one walk and each
\* object finds its structure with another).  So are the PCIe slots, which are
\* updated in place, of a table whose first system slot is a PCIe slot.
InventoryMatchesTable ==
    LET slots == OfType(table, systemSlots)
    IN  ~ publication =>
            /\ ShowsTheFirst(cpus, OfType(table, processorsType))
            /\ ShowsTheFirst(dimms, OfType(table, memoryDeviceType))
            /\ (slots # {} => Min(slots) \in PcieSlots(table))
                   => ShowsTheFirst(pcies, PcieSlots(table))

\* No two objects of the service have one path: the second constructor would
\* throw, and only for firmware does systemInfoUpdate catch that.  (A table
\* whose handles are distinct, as SMBIOS demands.)
PathsUnique ==
    \A objs \in {cpus, dimms, pcies} :
        \A i, j \in 1 .. Len(objs) : i # j => objs[i].path # objs[j].path

\* GetRecordType answers from the storage: once the table is published its
\* records are those that the memory objects show, one by one.
RecordsMatchDimms ==
    LET records == getRecordType(table)
    IN  ~ publication => \A i \in (1 .. Len(records)) \cap (1 .. Len(dimms)) :
                             records[i] = dimms[i].shows

\* The slots and memory devices that name a chassis name the same one, also
\* when slots are kept over changes of the motherboard.
OneChassis ==
    LET Chassis(objs) == {objs[i].chassis : i \in 1 .. Len(objs)} \ {NoPath}
    IN  \A a, b \in Chassis(dimms) \cup Chassis(pcies) : a = b
-----------------------------------------------------------------------------
(***************************************************************************)
(* Statements of comments in the code that do not hold.                    *)
(***************************************************************************)

\* "PCIeSlots need to start with same inventory path as the system path":
\* a slot has the path that the motherboard found last gives it.
PcieUnderMotherboard ==
    motherboardPath # NoPath =>
        \A i \in 1 .. Len(pcies) : pcies[i].path = PciePath(motherboardPath, i - 1)

\* One object for each slot that is counted as a PCIe slot: no two show the
\* same slot.
EachSlotOnce ==
    \A i, j \in 1 .. Len(pcies) : i # j => pcies[i].shows # pcies[j].shows
=============================================================================
