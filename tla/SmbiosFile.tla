------------------------------ MODULE SmbiosFile ------------------------------
(***************************************************************************)
(* The file /var/lib/smbios/smbios2 (mdrDefaultFile): the persistent cache *)
(* of the SMBIOS table.  ipmid's blob handler writes it, smbiosmdrv2app    *)
(* reads it and may truncate it.  A file is an MDRSMBIOSHeader followed by *)
(* table bytes; the two may disagree about the length of the table.        *)
(***************************************************************************)
EXTENDS Naturals, Sequences

CONSTANTS
    Byte,          \* the values of a table byte, 0 among them
    StorageSize,   \* smbiosTableStorageSize, and maxBufferSize of the blob
    Times,         \* the values of the header's timestamp, 0 among them
    DirVers        \* the values of the header's dirVer, 0 and 1 among them

ASSUME SmbiosFileAssumption ==
    /\ 0 \in Byte
    /\ StorageSize \in Nat \ {0}
    /\ 0 \in Times
    /\ {0, 1} \subseteq DirVers

VARIABLE file      \* what is stored under mdrDefaultFile

\* The table storage of the agent: always StorageSize bytes.
Image == [1..StorageSize -> Byte]

ZeroImage == [i \in 1..StorageSize |-> 0]

\* "absent": the file cannot be opened; "short": it is shorter than the header
\* (empty after a truncation); "table": a header, then the bytes of data.
FileKind == {"absent", "short", "table"}

File == [kind : FileKind, dirVer : DirVers, timestamp : Times,
         dataSize : Nat, data : Seq(Byte)]

NoFile == [kind |-> "absent", dirVer |-> 0, timestamp |-> 0,
           dataSize |-> 0, data |-> << >>]

ShortFile == [NoFile EXCEPT !.kind = "short"]

TableFile(ver, time, size, data) ==
    [kind |-> "table", dirVer |-> ver, timestamp |-> time,
     dataSize |-> size, data |-> data]

\* A file that was truncated while a writer held it open, and then written on at
\* the writer's old offset: the header has become a hole, which reads as zeros.
HoledFile == TableFile(0, 0, 0, << >>)

-----------------------------------------------------------------------------
\* readDataFromFlash: the file opens, is not shorter than its header, and the
\* header does not announce more data than the storage can take.
ReadSucceeds(f) == f.kind = "table" /\ f.dataSize <= StorageSize

\* What readDataFromFlash leaves in a storage that was filled with zeros: as much
\* of the announced data as the file has.  A file with less data than its header
\* announces is not an error.
ReadImage(f) ==
    [i \in 1..StorageSize |->
        IF ReadSucceeds(f) /\ i <= f.dataSize /\ i <= Len(f.data)
        THEN f.data[i] ELSE 0]
=============================================================================
