---------------------------- MODULE SmbiosTable ----------------------------
(***************************************************************************)
(* The walk over an SMBIOS table (include/smbios_mdrv2.hpp and the         *)
(* counting methods of src/mdrv2.cpp).                                     *)
(*                                                                         *)
(* A table is a sequence of structures, a pointer the position of a        *)
(* structure: Len(t) + 1 is the pair of zero bytes behind the last one,    *)
(* and 1 is also what smbiosSkipEntryPoint makes of the start of the       *)
(* storage.  Of a structure's bytes the model keeps the fields that the    *)
(* code decides by:                                                        *)
(*   type, handle, length   the header;                                    *)
(*   strings                the number of bytes between the formatted area *)
(*                          and the two zeros that end the structure;      *)
(*   and, by type: pcie (a slot), socket and populated (a processor),      *)
(*   module and contains (a board), name and own (firmware).               *)
(* The operators are functions of their arguments, loops are recursive     *)
(* functions of the state of the loop.                                     *)
(***************************************************************************)
EXTENDS Naturals, Sequences

CONSTANTS mdrSMBIOSSize,   \* how far a walk looks for the end of a structure
          limitEntryLen,   \* the most structures of a type that are counted
          MemoryInfoSize   \* sizeof(MemoryInfo)

ASSUME TableAssumption ==
    /\ mdrSMBIOSSize \in Nat \ {0}
    /\ limitEntryLen \in Nat \ {0}
    /\ MemoryInfoSize \in Nat

nullptr == 0

\* What the model takes for granted of a table.
IsTable(t) ==
    /\ Len(t) \in Nat /\ t = [p \in 1 .. Len(t) |-> t[p]]
    /\ \A p \in 1 .. Len(t) : /\ t[p].length \in Nat /\ t[p].strings \in Nat
                              /\ t[p].type = "baseboard" => Len(t[p].contains) \in Nat

processorsType == "processor"
systemSlots == "slot"
memoryDeviceType == "memory"
baseboardType == "baseboard"
tpmDeviceType == "tpm"
firmwareInventoryInformationType == "firmware"
-----------------------------------------------------------------------------
smbiosNextPtr(t, p) ==
    IF p = nullptr \/ t[p].strings >= mdrSMBIOSSize THEN nullptr ELSE p + 1

\* Skipping a structure of another type counts from the header's length, so
\* that it gives up a little earlier than smbiosNextPtr does.
CanSkip(s) == s.strings = 0 \/ s.length + s.strings < mdrSMBIOSSize

getSMBIOSTypePtr(t, p, typeId, size) ==
    LET Found(q) == /\ t[q].type = typeId
                    /\ \A r \in p .. (q - 1) : t[r].type # typeId /\ CanSkip(t[r])
        found == {q \in p .. Len(t) : Found(q)}
    IN  IF p = nullptr \/ found = {} THEN nullptr
        ELSE LET q == CHOOSE q \in found : TRUE
             IN  IF t[q].length < size THEN nullptr ELSE q

\* Mutant: the search for the next structure starts at the one found.
getSMBIOSTypeIndexPtrSame(t, typeId, targetIndex) ==
    LET at[i \in Nat] ==
            IF i = 0 THEN getSMBIOSTypePtr(t, 1, typeId, 0)
            ELSE getSMBIOSTypePtr(t, at[i - 1], typeId, 0)
    IN  at[targetIndex]

getSMBIOSTypeIndexPtr(t, typeId, targetIndex) ==
    LET at[i \in Nat] ==
            IF i = 0 THEN getSMBIOSTypePtr(t, 1, typeId, 0)
            ELSE getSMBIOSTypePtr(t, smbiosNextPtr(t, at[i - 1]), typeId, 0)
    IN  at[targetIndex]

smbiosHandlePtr(t, handle) ==
    LET found == {q \in 1 .. Len(t) :
                     /\ t[q].handle = handle
                     /\ \A r \in 1 .. (q - 1) : /\ t[r].handle # handle
                                                /\ smbiosNextPtr(t, r) # nullptr}
    IN  IF found = {} THEN nullptr ELSE CHOOSE q \in found : TRUE
-----------------------------------------------------------------------------
(***************************************************************************)
(* The loop that the four counting methods share: counted are the          *)
(* structures that count.  Its state are the pointer and the count.        *)
(***************************************************************************)
CountAll(t, typeId, counted) ==
    LET walk[s \in Nat \X Nat] ==
            LET q == getSMBIOSTypePtr(t, s[1], typeId, 0)
                n == s[2] + (IF q \in counted THEN 1 ELSE 0)
                next == smbiosNextPtr(t, q)
            IN  IF q = nullptr THEN s[2]
                ELSE IF next = nullptr \/ n >= limitEntryLen THEN n
                ELSE walk[<<next, n>>]
    IN  walk[<<1, 0>>]

OfType(t, typeId) == {p \in 1 .. Len(t) : t[p].type = typeId}

IsPcie(s) == s.pcie

PcieSlots(t) == {p \in OfType(t, systemSlots) : IsPcie(t[p])}

getTotalNum(t, typeId) == CountAll(t, typeId, OfType(t, typeId))

getTotalCpuSlot(t) == getTotalNum(t, processorsType)

getTotalDimmSlot(t) == getTotalNum(t, memoryDeviceType)

getTotalPcieSlot(t) == CountAll(t, systemSlots, PcieSlots(t))

\* Mutant: a record that is too short is passed over.
getRecordTypeSkipping(t) ==
    SelectSeq(t, LAMBDA s : s.type = memoryDeviceType /\ s.length >= MemoryInfoSize)

(***************************************************************************)
(* What GetRecordType answers for memory devices: the structures, up to    *)
(* the first that is shorter than the fields it would be read by.          *)
(***************************************************************************)
getRecordType(t) ==
    LET walk[p \in Nat] ==
            LET q == getSMBIOSTypePtr(t, p, memoryDeviceType, MemoryInfoSize)
            IN  IF q = nullptr THEN <<>>
                ELSE <<t[q]>> \o walk[smbiosNextPtr(t, q)]
    IN  walk[1]

\* The slot that a Pcie object with this number reads: the state of the loop are the
\* pointer and the index.
PcieSlotPtr(t, pcieNum) ==
    LET pcie == PcieSlots(t)
        walk[s \in Nat \X Nat] ==
            LET q == getSMBIOSTypePtr(t, smbiosNextPtr(t, s[1]), systemSlots, 0)
            IN  IF s[2] >= pcieNum /\ s[1] \in pcie THEN s[1]
                ELSE IF q = nullptr THEN nullptr
                ELSE walk[<<q, s[2] + (IF q \in pcie THEN 1 ELSE 0)>>]
        first == getSMBIOSTypePtr(t, 1, systemSlots, 0)
    IN  IF first = nullptr THEN nullptr ELSE walk[<<first, 0>>]
=============================================================================
