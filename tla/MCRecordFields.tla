--------------------------- MODULE MCRecordFields ---------------------------
(***************************************************************************)
(* Tables that differ from a plain one in one kind of structure.  Sizes    *)
(* are scaled down: size has 4 bits, the highest of which says kilobytes,  *)
(* a megabyte has 4 kilobytes and dimmSizeExt computes modulo 64.          *)
(***************************************************************************)
EXTENDS RecordFields

Named(name) == [NoText EXCEPT !.name = name]
Locator(cpu, dimm) == [Named("locator") EXCEPT !.cpu = cpu, !.digit = 1,
                                              !.dimm = dimm, !.letter = 65]
String(text) == [size |-> 2, text |-> text]
PlainStrings == <<String(Locator("digit", "letter")), String(Named("NO DIMM")),
             String([Named("part") EXCEPT !.blanks = TRUE]), String(Named("beyond"))>>

PlainMemory ==
    [size |-> 2, extendedSize |-> 0, phyArrayHandle |-> 1, deviceLocator |-> 1,
     bankLocator |-> 0, memoryType |-> 26, typeDetail |-> {7, 13}, manufacturer |-> 2,
     serialNum |-> 4, partNum |-> 3, memoryTechnology |-> 3, strings |-> PlainStrings]
PlainCpu ==
    [socketDesignation |-> 1, status |-> {0, 6}, family |-> 179, family2 |-> 0,
     id |-> [step |-> 1, model |-> 5, family |-> 6, xmodel |-> 5, xfamily |-> 1],
     version |-> 2, coreCount |-> 8, coreCount2 |-> 8, threadCount |-> 255,
     threadCount2 |-> 300, characteristics |-> {0, 2, 7, 8},
     strings |-> <<String([Named("G1:0.1") EXCEPT !.chip = {1}]), String(Named("v1"))>>]
PlainSlot ==
    [length |-> 24, slotType |-> 184, slotDataBusWidth |-> 11, slotLength |-> 4,
     characteristics2 |-> {1}, peerGroupingCount |-> 0, slotHeight |-> 4,
     slotDesignation |-> 1, strings |-> <<String(Named("slot"))>>]
PlainTpm ==
    [vendor |-> <<65, 7, 0, 66>>, specMajor |-> 2, firmwareVersion |-> <<7, 2>>,
     description |-> 1, strings |-> <<>>]
Plain == [version |-> 35, dimms |-> <<PlainMemory>>, cpus |-> <<PlainCpu>>,
          slots |-> <<PlainSlot>>, tpms |-> <<PlainTpm>>,
          arrays |-> <<[handle |-> 2, memoryErrorCorrection |-> 6],
                       [handle |-> 1, memoryErrorCorrection |-> 5]>>]

\* Every size, and every extended size up to and past the largest that fits.
SizeTables ==
    {[Plain EXCEPT !.dimms[1].size = s] : s \in 0 .. 15}
    \cup {[Plain EXCEPT !.dimms[1].size = 7, !.dimms[1].extendedSize = e] : e \in 7 .. 17}

\* Locators with and without what is looked for, and a device of no array.
LocatorTables ==
    {[Plain EXCEPT !.dimms[1].strings[1].text = Locator(c, d),
                   !.dimms[1].phyArrayHandle = IF d = "absent" THEN 3 ELSE 2] :
        c \in {"absent", "digit", "other"}, d \in {"absent", "end", "letter", "other"}}

\* A memory device and the byte behind it, be it of its strings or of the next structure.
OldMemory(byte) == [PlainMemory EXCEPT !.memoryTechnology = byte]
OldSlot(v, peers, byte) ==
    [PlainSlot EXCEPT !.length = IF v < 32 THEN 17 ELSE 19 + 5 * peers,
                      !.peerGroupingCount = peers, !.slotHeight = byte]
OlderTables ==
    {[Plain EXCEPT !.version = v, !.dimms[1] = OldMemory(byte),
                   !.slots[1] = OldSlot(v, peers, height)] :
        v \in {30, 33}, byte \in {0, 3, 68}, peers \in {0, 1, 4}, height \in {0, 4}}

\* Slots of all forms, and tables with fewer and more of them.
SlotTables ==
    {[Plain EXCEPT !.slots[1].slotType = type, !.slots[1].slotHeight = height,
                   !.slots[1].slotLength = length, !.slots[1].slotDataBusWidth = type - 5] :
        type \in {9, 20, 39, 184}, height \in {0, 4}, length \in {3, 4, 5}}
    \cup {[Plain EXCEPT !.slots = <<>>, !.tpms = <<>>],
          [Plain EXCEPT !.slots = <<PlainSlot, [PlainSlot EXCEPT !.slotType = 37],
                                    [PlainSlot EXCEPT !.characteristics2 = {}]>>]}

\* Processors that are there, empty sockets, and the ways to say what they are.
CpuTables ==
    {[Plain EXCEPT !.cpus[1].status = status, !.cpus[1].family = f, !.cpus[1].id.family = c,
                   !.cpus[1].family2 = 257] :
        status \in {{0, 6}, {1, 6}, {0}}, f \in {179, 198, 254, 255}, c \in {5, 6, 15}}
    \cup {[Plain EXCEPT !.cpus = <<PlainCpu, [PlainCpu EXCEPT !.status = {}]>>,
                        !.tpms[1].specMajor = 1]}

MCTables == SizeTables \cup LocatorTables \cup OlderTables \cup SlotTables \cup CpuTables
=============================================================================
