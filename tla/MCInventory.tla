---------------------------- MODULE MCInventory ----------------------------
(***************************************************************************)
(* Instances of Inventory.  The handle of a structure is its position in   *)
(* the table.  Sizes are small: a walk gives up after 8 bytes, a memory    *)
(* device structure that GetRecordType can read has 6.                     *)
(***************************************************************************)
EXTENDS Inventory, TLC

Structure(type, length, strings) == [type |-> type, length |-> length, strings |-> strings]
Short == 4
Full == 6

Processor(socket, populated) ==
    [socket |-> socket, populated |-> populated] @@ Structure(processorsType, Full, 1)
Memory(length) == Structure(memoryDeviceType, length, 1)
Slot(pcie) == [pcie |-> pcie] @@ Structure(systemSlots, Full, 1)
Board(module, contains) ==
    [module |-> module, contains |-> contains] @@ Structure(baseboardType, Short, 1)
FirmwareInfo(name, own) ==
    [name |-> name, own |-> own] @@ Structure(firmwareInventoryInformationType, Short, 1)
Tpm == Structure(tpmDeviceType, Short, 1)
Other(strings) == Structure("other", Short, strings)

WithHandles(t) == [i \in 1 .. Len(t) |-> [handle |-> i] @@ t[i]]

\* Tables that exercise every kind of object, for histories of tables and
\* of other services' objects.
MCTables ==
    {WithHandles(t) : t \in
        {<<Processor({1}, TRUE), Slot(TRUE), Memory(Full)>>,
         <<Slot(TRUE), Slot(FALSE), Slot(TRUE), Slot(TRUE)>>,
         <<Processor(NoSocket, TRUE), Processor({2}, FALSE), Board(TRUE, <<6, 9, 1, 5>>),
           Board(FALSE, <<6, 7>>), Memory(Short), Memory(Full), Memory(Full)>>,
         <<FirmwareInfo("b", TRUE), FirmwareInfo(NoName, FALSE), Tpm, Slot(TRUE)>>}}

\* The names of a firmware and of the second one that has none.
MCVersions == {<<"a">>, <<"firmware", 1>>}

MCModules == {[path |-> 11, instance |-> {1}], [path |-> 12, instance |-> {2}]}

\* Every table of up to four structures, alone and behind a board that holds
\* the first three of them, for the walks.
Kinds == {Processor(NoSocket, TRUE), Memory(Short), Memory(Full), Slot(TRUE), Slot(FALSE),
          Board(TRUE, <<3, 2, 4>>), Tpm, FirmwareInfo("a", FALSE),
          Other(0), Other(4), Other(8)}
Prefixes == {<<>>, <<Board(FALSE, <<4, 1, 2, 3>>)>>}
AllTables ==
    {WithHandles(pre \o t) : pre \in Prefixes,
                             t \in UNION {[1 .. n -> Kinds] : n \in 0 .. 4}}

\* A service that starts with one of these tables only publishes it; after
\* that nothing but firmware of other services comes and goes.
MCNext ==
    IF table \in Tables \cup {<<>>} THEN Next
    ELSE Publish \/ (~ publication /\ VersionsChange)

MCSpec == Init /\ [][MCNext]_vars

\* A slot that is not PCIe in front of one that is.
MixedSlots == {WithHandles(<<Slot(FALSE), Slot(TRUE), Slot(TRUE)>>)}
=============================================================================
