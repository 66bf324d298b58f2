-------------------------- MODULE MCMdrv2Directory --------------------------
(***************************************************************************)
(* The directory on its own, under a host that sends its directory in one  *)
(* or more packets, each starting where the one before it ended.           *)
(***************************************************************************)
EXTENDS Mdrv2Directory

VARIABLES
    sent,          \* the ids of the packets of the transfer so far, in order
    packets,       \* the number of these packets
    left,          \* the number of entries still to come
    transferred    \* the version of the directory that is transferred

hostVars == <<sent, packets, left, transferred>>
directoryVars == <<file, dirVars, hostVars>>

BlankEntry == [id |-> "other", size |-> 0, dataSetSize |-> 0, dataVersion |-> 0,
               timestamp |-> 0, stage |-> "init", lock |-> "unlocked"]
MCGarbage == {BlankEntry, [BlankEntry EXCEPT !.stage = "other", !.lock = "locked"]}
MCPackets == {<<"smbios">>, <<"acpi">>, <<"smbios", "acpi">>}

HostInit ==
    /\ file = TableFile(1, 0, 1, <<1>>)
    /\ DirInit
    /\ sent = << >>
    /\ packets = 0
    /\ left = 0
    /\ transferred = 1

\* The first packet of a transfer; one that was under way is given up.
FirstPacket(v, ids, remaining) ==
    /\ Len(ids) + remaining <= MaxDirEntries
    /\ SendDirectoryInformation(v, 0, ids, remaining)
    /\ sent' = ids
    /\ packets' = 1
    /\ left' = remaining
    /\ transferred' = v
    /\ UNCHANGED file

NextPacket(ids) ==
    /\ Len(ids) <= left
    /\ SendDirectoryInformation(transferred, Len(sent), ids, left - Len(ids))
    /\ sent' = sent \o ids
    /\ packets' = packets + 1
    /\ left' = left - Len(ids)
    /\ UNCHANGED <<file, transferred>>

HostNext ==
    \/ \E v \in DirVersions, ids \in Packets, remaining \in 0..1 :
           FirstPacket(v, ids, remaining)
    \/ \E ids \in Packets : NextPacket(ids)
    \/ Announce /\ UNCHANGED <<file, hostVars>>
    \/ LoadTable /\ UNCHANGED <<file, hostVars>>
    \/ \E i \in DirIndex, size \in Sizes :
           SetSize(i, size) /\ UNCHANGED <<file, hostVars>>

HostSpec == HostInit /\ [][HostNext]_directoryVars

-----------------------------------------------------------------------------
\* findIdIndex finds every id that was sent.
SentIdsAreFound == \A k \in 1..Len(sent) : IdIndexes(sent[k]) # {}

\* A directory can be queried for each of its ids once its last packet was accepted,
\* which is when its version becomes the current one.
DirectoryQueryable == [][dirVersion' # dirVersion => SentIdsAreFound']_directoryVars

\* A directory that comes in one packet can be queried for each of its ids.
OnePacketQueryable ==
    [][dirVersion' # dirVersion /\ packets' = 1 => SentIdsAreFound']_directoryVars
=============================================================================
