---------------------------- MODULE RecordFields ----------------------------
(***************************************************************************)
(* What the inventory objects show of their SMBIOS structures: the         *)
(* conversions in src/dimm.cpp, src/cpu.cpp, src/pcieslot.cpp and          *)
(* src/tpm.cpp, and what becomes of the service when one of them throws.   *)
(*                                                                         *)
(* The walk over the table is in SmbiosTable, and which objects there are  *)
(* in Inventory; here a table is the sequence of its structures of each    *)
(* kind, of its system slots those that are PCIe slots.  A structure is a  *)
(* record of the fields of the struct that the code lays over it: a field  *)
(* holds whatever the bytes at its place are, also where the structure is  *)
(* shorter than that.  A field of bits is the set of bits that are 1.  Of  *)
(* a text the model keeps its name and what the code looks for in it.      *)
(***************************************************************************)
EXTENDS Naturals, Sequences

CONSTANTS
    Tables,                  \* the tables a host may send
    MaxTables,               \* bound: how many it sends
    baseNewVersionDimmSize,  \* 2^15: the bit of size that says kilobytes
    dimmSizeUnit,            \* 1024
    Word,                    \* 2^32: dimmSizeExt computes in a uint32_t
    mdrSMBIOSSize,           \* how far positionToString looks
    onlyDimmLocationCode     \* the build's DIMM_ONLY_LOCATOR

ASSUME FieldsAssumption ==
    /\ MaxTables \in Nat
    /\ baseNewVersionDimmSize \in Nat \ {0}
    /\ dimmSizeUnit \in Nat \ {0}
    /\ Word \in Nat /\ Word >= baseNewVersionDimmSize * dimmSizeUnit
    /\ mdrSMBIOSSize \in Nat \ {0}
    /\ onlyDimmLocationCode \in BOOLEAN

-----------------------------------------------------------------------------
(***************************************************************************)
(* The structures.  Of a text: cpu, what follows "CPU" in it ("absent" if  *)
(* it is not there, "other" if no digit follows); dimm, what follows       *)
(* "DIMM" and one more character ("end" if there is not even that          *)
(* character); chip, the chip number of a socket designation               *)
(* "name:socket.chip"; blanks, whether it ends in spaces.                  *)
(***************************************************************************)
Text == [name : STRING, blanks : BOOLEAN, cpu : {"absent", "digit", "other"}, digit : 0 .. 9,
         dimm : {"absent", "end", "letter", "other"}, letter : Nat, chip : SUBSET Nat]
Strings == Seq([size : Nat \ {0}, text : Text])

MemoryInfo == [phyArrayHandle : Nat, size : 0 .. (2 * baseNewVersionDimmSize - 1),
               extendedSize : Nat, deviceLocator : Nat, bankLocator : Nat, memoryType : Nat,
               typeDetail : SUBSET (0 .. 15), manufacturer : Nat, serialNum : Nat,
               partNum : Nat, memoryTechnology : 0 .. 255, strings : Strings]
PhysicalMemoryArrayInfo == [handle : Nat, memoryErrorCorrection : 0 .. 255]
ProcessorInfo == [socketDesignation : Nat, family : 0 .. 255,
                  id : [step : 0 .. 15, model : 0 .. 15, family : 0 .. 15, xmodel : 0 .. 15,
                        xfamily : 0 .. 255],
                  version : Nat, status : SUBSET (0 .. 7), coreCount : 0 .. 255,
                  threadCount : 0 .. 255, characteristics : SUBSET (0 .. 15), family2 : Nat,
                  coreCount2 : Nat, threadCount2 : Nat, strings : Strings]
pcieSmbiosType == {9} \cup (20 .. 29) \cup (31 .. 41) \cup (165 .. 198)
SystemSlotInfo == [length : 0 .. 255, slotDesignation : Nat, slotType : pcieSmbiosType,
                   slotDataBusWidth : 0 .. 255, slotLength : 0 .. 255,
                   characteristics2 : SUBSET (0 .. 7), peerGroupingCount : 0 .. 255,
                   slotHeight : 0 .. 255, strings : Strings]
TPMInfo == [vendor : [1 .. 4 -> 0 .. 255], specMajor : 0 .. 255, firmwareVersion : Seq(Nat),
            description : Nat, strings : Strings]

\* The versions that checkSMBIOSVersion lets pass.
supportedSMBIOSVersions == {30, 32, 33, 35, 36}

Table == [version : supportedSMBIOSVersions, dimms : Seq(MemoryInfo),
          arrays : Seq(PhysicalMemoryArrayInfo), cpus : Seq(ProcessorInfo),
          slots : Seq(SystemSlotInfo), tpms : Seq(TPMInfo)]

(***************************************************************************)
(* How long slots are: one of version 3.0 ends in front of the number of   *)
(* peer groups, and before version 3.5 at the peer groups.  No other       *)
(* conversion looks at a length: the memoryTechnology of a memory device   *)
(* of version 3.0, which ends in front of it, is any byte.                 *)
(***************************************************************************)
SlotConforms(v, r) ==
    r.length = CASE v < 32 -> 17
                 [] v \in 32 .. 34 -> 19 + 5 * r.peerGroupingCount
                 [] OTHER -> 24 + 5 * r.peerGroupingCount

ASSUME TablesConform ==
    /\ Tables \subseteq Table
    /\ \A t \in Tables : \A i \in DOMAIN t.slots : SlotConforms(t.version, t.slots[i])

VARIABLES
    file,       \* the table in the file
    sent,       \* how many tables were sent
    alive,      \* smbiosmdrv2app is running
    storage,    \* the table it has read
    due,        \* its publication is due
    cpus, dimms, pcies, tpms

objects == <<cpus, dimms, pcies, tpms>>
vars == <<file, sent, alive, storage, due, objects>>
-----------------------------------------------------------------------------
(***************************************************************************)
(* Strings of a structure.                                                 *)
(***************************************************************************)
NoText == [name |-> "", blanks |-> FALSE, cpu |-> "absent", digit |-> 0,
           dimm |-> "absent", letter |-> 0, chip |-> {}]

\* The string with this position: the walk over the ones in front of it is given up
\* after mdrSMBIOSSize characters.
positionToString(strings, position) ==
    LET walked[n \in Nat] == IF n = 0 THEN 0 ELSE strings[n].size + walked[n - 1]
    IN  IF position \in 1 .. Len(strings) /\ walked[position - 1] < mdrSMBIOSSize
        THEN strings[position].text ELSE NoText
-----------------------------------------------------------------------------
(***************************************************************************)
(* Memory devices.                                                         *)
(***************************************************************************)
maxOldDimmSize == baseNewVersionDimmSize - 1

dimmSize(size) ==
    (size % baseNewVersionDimmSize) * (IF size < baseNewVersionDimmSize THEN dimmSizeUnit ELSE 1)

dimmSizeExt(size) == (size * dimmSizeUnit) % Word

\* Mutant: the extended size is not looked at.
memorySizeOld(r) == dimmSize(r.size)

memorySizeInKB(r) ==
    IF r.size = maxOldDimmSize THEN dimmSizeExt(r.extendedSize) ELSE dimmSize(r.size)

dimmTypeTable == (1 .. 20) \cup (24 .. 35)
dimmMemoryTechTypeMap == 1 .. 7

\* Codes that are not in the tables are shown as Unknown, code 2.
dimmType(code) == IF code \in dimmTypeTable THEN code ELSE 2

dimmMedia(code) == IF code \in dimmMemoryTechTypeMap THEN code ELSE 2

dimmEccTypeMap(code) ==
    CASE code = 4 -> "AddressParity"
      [] code = 5 -> "SingleBitECC"
      [] code = 6 -> "MultiBitECC"
      [] OTHER -> "NoECC"

\* The walk over the memory arrays to the one with the device's handle.  Without one
\* the property stays what it was.
updateEccType(old, arrays, handle) ==
    LET walk[n \in Nat] ==
            IF n > Len(arrays) THEN old
            ELSE IF arrays[n].handle = handle
                 THEN dimmEccTypeMap(arrays[n].memoryErrorCorrection)
            ELSE walk[n + 1]
    IN  walk[1]

\* std::stoi throws if no digit follows "CPU", and substr if nothing follows "DIMM".
\* Neither is an sdbusplus::exception_t, which is all that is caught.
LocatorThrows(text) == text.cpu = "other" \/ text.dimm = "end"

DeviceLocator(r) == positionToString(r.strings, r.deviceLocator)

dimmDeviceLocator(r) ==
    LET bank == positionToString(r.strings, r.bankLocator)
    IN  IF bank.name = "" \/ onlyDimmLocationCode THEN <<DeviceLocator(r).name>>
        ELSE <<bank.name, DeviceLocator(r).name>>

dimmManufacturer(r) ==
    LET text == positionToString(r.strings, r.manufacturer)
    IN  IF text.name = "NO DIMM" THEN NoText ELSE text

dimmPartNum(r) == [positionToString(r.strings, r.partNum) EXCEPT !.blanks = FALSE]

\* A new object, before its structure is looked at.
NewDimm == [memorySizeInKB |-> 0, present |-> FALSE, functional |-> FALSE,
            locator |-> <<"">>, socket |-> 0, slot |-> 0, memoryType |-> 2,
            typeDetail |-> {}, manufacturer |-> NoText, serialNumber |-> NoText,
            partNumber |-> NoText, memoryMedia |-> 2, ecc |-> "NoECC"]

memoryInfoUpdate(dimm, r, arrays) ==
    LET text == DeviceLocator(r)
    IN  [dimm EXCEPT
            !.memorySizeInKB = memorySizeInKB(r),
            !.present = r.size > 0,
            !.functional = r.size > 0,
            !.locator = dimmDeviceLocator(r),
            !.socket = IF text.cpu = "digit" THEN text.digit + 1 ELSE @,
            !.slot = IF text.dimm = "letter" THEN text.letter ELSE @,
            !.memoryType = dimmType(r.memoryType),
            !.typeDetail = r.typeDetail,
            !.manufacturer = dimmManufacturer(r),
            !.serialNumber = positionToString(r.strings, r.serialNum),
            !.partNumber = dimmPartNum(r),
            !.memoryMedia = dimmMedia(r.memoryTechnology),
            !.ecc = updateEccType(@, arrays, r.phyArrayHandle)]
-----------------------------------------------------------------------------
(***************************************************************************)
(* Processors.  id is the processor id, split into its fields.             *)
(***************************************************************************)
familyTable == (1 .. 22) \cup (24 .. 88) \cup (96 .. 107) \cup {112} \cup (120 .. 122)
               \cup {128} \cup (130 .. 150) \cup (160 .. 189) \cup (191 .. 207)
               \cup (210 .. 219) \cup (221 .. 224) \cup (228 .. 239) \cup {250, 251, 254}

family2Table == (256 .. 258) \cup {260, 261, 280, 281} \cup (300 .. 302)
                \cup {320, 350, 500} \cup (512 .. 514) \cup (600 .. 610) \cup (620 .. 625)

\* The families whose name contains " Xeon ", " Intel " or " Zen ".
CpuidFamilies == {16, 107} \cup (161 .. 177) \cup {179, 181, 199} \cup (214 .. 216)
                 \cup {218, 219} \cup (221 .. 224)

processorFamily2Indicator == 254
UnknownFamily == 0

\* Family and EffectiveFamily.
family(cpu, r) ==
    LET code == IF r.family = processorFamily2Indicator THEN r.family2 ELSE r.family
        known == IF r.family = processorFamily2Indicator
                 THEN r.family2 \in family2Table ELSE r.family \in familyTable
    IN  IF known THEN [cpu EXCEPT !.family = code, !.effectiveFamily = code]
        ELSE [cpu EXCEPT !.family = UnknownFamily]

\* Step, EffectiveFamily and EffectiveModel out of the processor id.
Identify(cpu, r) ==
    IF r.family \notin CpuidFamilies THEN cpu
    ELSE [cpu EXCEPT
            !.step = r.id.step,
            !.effectiveFamily = r.id.family + (IF r.id.family = 15 THEN r.id.xfamily ELSE 0),
            !.effectiveModel = r.id.model
                               + (IF r.id.family \in {6, 15} THEN 16 * r.id.xmodel ELSE 0)]

maxOldVersionCount == 255
Count(old, new) == IF old < maxOldVersionCount THEN old ELSE new

characteristicsTable == 2 .. 7

socket(cpu, r, cpuNum) ==
    LET text == positionToString(r.strings, r.socketDesignation)
    IN  [cpu EXCEPT !.socket = text,
                    !.instanceNumber = IF text.chip = {} THEN {cpuNum} ELSE text.chip]

NewCpu == [socket |-> NoText, instanceNumber |-> {}, present |-> FALSE,
           functional |-> FALSE, family |-> UnknownFamily, step |-> 0,
           effectiveFamily |-> 0, effectiveModel |-> 0, version |-> NoText,
           coreCount |-> 0, threadCount |-> 0, characteristics |-> {}]

\* Status bit 6: the socket is populated; the low three bits are 1: it is enabled.
infoUpdate(cpu, r, cpuNum) ==
    LET placed == socket(cpu, r, cpuNum)
    IN  IF 6 \notin r.status THEN [placed EXCEPT !.present = FALSE, !.functional = FALSE]
        ELSE [Identify(family(placed, r), r) EXCEPT
                !.present = TRUE,
                !.functional = r.status \cap (0 .. 2) = {0},
                !.version = positionToString(r.strings, r.version),
                !.coreCount = Count(r.coreCount, r.coreCount2),
                !.threadCount = Count(r.threadCount, r.threadCount2),
                !.characteristics = r.characteristics \cap characteristicsTable]
-----------------------------------------------------------------------------
(***************************************************************************)
(* PCIe slots.                                                             *)
(***************************************************************************)
pcieGeneration(code) ==
    CASE code \in (24 .. 28) \cup (33 .. 35) \cup (165 .. 170) -> 1
      [] code \in {31} \cup (171 .. 176) -> 2
      [] code \in (20 .. 23) \cup {29, 30, 32} \cup (177 .. 182) -> 3
      [] code \in {36} \cup (184 .. 189) -> 4
      [] code \in {37} \cup (190 .. 195) -> 5
      [] OTHER -> 0

pcieTypeTable(code) ==
    CASE code = 9 -> "OEM"
      [] code \in 20 .. 23 -> "M_2"
      [] code \in {31, 32, 36, 37} -> "U_2"
      [] code \in 33 .. 35 -> "Mini"
      [] code = 38 -> "OCP3Small"
      [] code = 39 -> "OCP3Large"
      [] OTHER -> "Unknown"

slotLengthShort == 3
slotLengthLong == 4
slotHeightNotApplicable == 0
slotHeightLowProfile == 4

\* Mutant: only the number of peer groups is checked to be there.
slotHeightUnchecked(r) ==
    IF 18 < r.length THEN r.slotHeight ELSE slotHeightNotApplicable

\* The number of peer groups is at offset 18; behind them, five bytes each, the height
\* is the fifth byte.
slotHeight(r) ==
    IF 18 < r.length /\ 19 + 5 * r.peerGroupingCount + 4 < r.length THEN r.slotHeight
    ELSE slotHeightNotApplicable

pcieType(r) ==
    CASE pcieTypeTable(r.slotType) # "Unknown" -> pcieTypeTable(r.slotType)
      [] slotHeight(r) = slotHeightLowProfile -> "LowProfile"
      [] r.slotLength = slotLengthLong -> "FullLength"
      [] r.slotLength = slotLengthShort -> "HalfLength"
      [] OTHER -> "Unknown"

pcieLaneSize(width) ==
    CASE width = 8 -> 1 [] width = 9 -> 2 [] width = 10 -> 4 [] width = 11 -> 8
      [] width = 12 -> 12 [] width = 13 -> 16 [] width = 14 -> 32 [] OTHER -> 0

NewPcie == [generation |-> 0, slotType |-> "Unknown", lanes |-> 0,
            hotPluggable |-> FALSE, locationCode |-> NoText, present |-> FALSE]

pcieInfoUpdate(pcie, r) ==
    [pcie EXCEPT !.generation = pcieGeneration(r.slotType),
                 !.slotType = pcieType(r),
                 !.lanes = pcieLaneSize(r.slotDataBusWidth),
                 !.hotPluggable = 1 \in r.characteristics2,
                 !.locationCode = positionToString(r.strings, r.slotDesignation),
                 !.present = TRUE]
-----------------------------------------------------------------------------
(***************************************************************************)
(* The TPM, if there is exactly one.  Characters are their codes.          *)
(***************************************************************************)
tpmVendor(r) ==
    LET length == CHOOSE n \in 0 .. 4 : /\ \A i \in 1 .. n : r.vendor[i] # 0
                                        /\ n < 4 => r.vendor[n + 1] = 0
        Shown(c) == IF c \in 32 .. 126 THEN c ELSE 46
    IN  [i \in 1 .. length |-> Shown(r.vendor[i])]

\* For TPM 1 the parts of the version are put out as characters, for TPM 2 as numbers.
tpmFirmwareVersion(r) ==
    CASE r.specMajor = 1 -> <<"characters", r.firmwareVersion>>
      [] r.specMajor = 2 -> <<"numbers", r.firmwareVersion>>
      [] OTHER -> <<>>

tpmInfoUpdate(r) ==
    [manufacturer |-> tpmVendor(r), version |-> tpmFirmwareVersion(r),
     prettyName |-> positionToString(r.strings, r.description)]
-----------------------------------------------------------------------------
(***************************************************************************)
(* The service.  systemInfoUpdate runs to its end, or throws out of main.  *)
(***************************************************************************)
\* Mutant: the objects of the table before are used again.
ClearedNot(list) == list

\* cpus.clear(), dimms.clear()
Cleared(list) == <<>>

Reused(list, i, new) == IF i <= Len(list) THEN list[i] ELSE new

\* The objects for table t of a service that has these slot and processor objects.
Cpus(t, old) == [i \in 1 .. Len(t.cpus) |->
                    infoUpdate(Reused(Cleared(old), i, NewCpu), t.cpus[i], i - 1)]
Dimms(t, old) == [i \in 1 .. Len(t.dimms) |->
                    memoryInfoUpdate(Reused(Cleared(old), i, NewDimm), t.dimms[i], t.arrays)]
Pcies(t, old) == [i \in 1 .. Len(t.slots) |->
                    pcieInfoUpdate(Reused(old, i, NewPcie), t.slots[i])]
Tpms(t) == IF Len(t.tpms) = 1 THEN <<tpmInfoUpdate(t.tpms[1])>> ELSE <<>>

Fatal(t) == \E i \in 1 .. Len(t.dimms) : LocatorThrows(DeviceLocator(t.dimms[i]))

\* The host sends a table: it is in the file, and in the storage if the service runs.
HostSends(t) ==
    /\ sent < MaxTables
    /\ sent' = sent + 1
    /\ file' = t
    /\ IF alive THEN storage' = t /\ due' = TRUE ELSE UNCHANGED <<storage, due>>
    /\ UNCHANGED <<alive, objects>>

Publish ==
    /\ alive /\ due /\ ~ Fatal(storage)
    /\ due' = FALSE
    /\ cpus' = Cpus(storage, cpus)
    /\ dimms' = Dimms(storage, dimms)
    /\ pcies' = Pcies(storage, pcies)
    /\ tpms' = Tpms(storage)
    /\ UNCHANGED <<file, sent, alive, storage>>

\* An exception leaves main: the process ends, and its objects are gone.
PublishThrows ==
    /\ alive /\ due /\ Fatal(storage)
    /\ alive' = FALSE
    /\ due' = FALSE
    /\ cpus' = <<>> /\ dimms' = <<>> /\ pcies' = <<>> /\ tpms' = <<>>
    /\ UNCHANGED <<file, sent, storage>>

\* Mutant: the constructor does not read the file.
RestartIdle ==
    /\ ~ alive
    /\ alive' = TRUE
    /\ UNCHANGED <<file, sent, storage, due, objects>>

\* Restart=always.  The constructor reads the file.
Restart ==
    /\ ~ alive
    /\ alive' = TRUE
    /\ storage' = file
    /\ due' = TRUE
    /\ UNCHANGED <<file, sent, objects>>

FieldsInit ==
    /\ file \in Tables
    /\ sent = 0
    /\ alive = TRUE
    /\ storage = file
    /\ due = TRUE
    /\ cpus = <<>> /\ dimms = <<>> /\ pcies = <<>> /\ tpms = <<>>

FieldsNext ==
    \/ \E t \in Tables : HostSends(t)
    \/ Publish
    \/ PublishThrows
    \/ Restart

FieldsSpec == FieldsInit /\ [][FieldsNext]_vars

\* The publication is a timer of the service, the restart one of systemd.
FairFieldsSpec == FieldsSpec /\ WF_vars(Publish) /\ WF_vars(PublishThrows) /\ WF_vars(Restart)
-----------------------------------------------------------------------------
(***************************************************************************)
(* Properties.                                                             *)
(***************************************************************************)
Published == alive /\ ~ due

\* Once a table is published, no property of an object is left over from an earlier
\* table, although slot objects are updated in place, infoUpdate returns early for an
\* empty socket, and socket, slot and ECC of a memory device are set only when found.
FieldsOfThisTable ==
    Published => /\ cpus = Cpus(storage, <<>>)
                 /\ dimms = Dimms(storage, <<>>)
                 /\ pcies = Pcies(storage, <<>>)
                 /\ tpms = Tpms(storage)

\* A slot of an older SMBIOS version ends in front of its peer groups, or behind them and
\* in front of the slot height: whatever bytes lie there, and whatever number of peer
\* groups they pass for, pcieInfoUpdate does not take them for the height.
OlderRecordUnknown ==
    Published /\ storage.version < 35 =>
        \A i \in 1 .. Len(pcies) : pcies[i].slotType # "LowProfile"

\* A device of fewer than Word kilobytes is shown with its size, in whichever of the
\* three forms of size and extendedSize the structure gives it, up to the largest
\* (dimmSize and dimmSizeExt).  A size with all bits set stands for none, and is left out.
SizeExact ==
    Published =>
        \A i \in 1 .. Len(dimms) :
            LET r == storage.dimms[i]
                megabytes == IF r.size = maxOldDimmSize THEN r.extendedSize ELSE r.size
            IN  /\ (r.size < baseNewVersionDimmSize /\ megabytes * dimmSizeUnit < Word)
                       => dimms[i].memorySizeInKB = megabytes * dimmSizeUnit
                /\ r.size \in baseNewVersionDimmSize .. (2 * baseNewVersionDimmSize - 2)
                       => dimms[i].memorySizeInKB = r.size - baseNewVersionDimmSize

\* A table that kills the service does so only until the host replaces it: a table
\* that can be published is published, whatever the service died of before.
HarmlessShown == ~ Fatal(file) ~> (Published /\ storage = file) \/ Fatal(file)

\* The handler around std::stoi logs "std::stoi operation failed" and goes on: what follows
\* CPU in a locator does not end the service.  A locator that ends in DIMM, for which
\* there is no handler, may.
LocatorSurvived ==
    alive \/ \E i \in DOMAIN storage.dimms : DeviceLocator(storage.dimms[i]).dimm = "end"
=============================================================================
