---------------------------- MODULE MCMdrv2Agent ----------------------------
(***************************************************************************)
(* A table of two bytes: the first stands for the entry point (0: no       *)
(* anchor, 1: a supported version, 2: an unsupported one), the second for  *)
(* the structures (2: the BIOS version is unprintable).                    *)
(***************************************************************************)
EXTENDS Mdrv2Agent

MCByte == 0..2
MCSupported == {image \in Image : image[1] = 1}
MCBroken == {image \in Image : image[2] = 2}

\* dir[] on a heap page that was never used, and on one that was.
ZeroEntry == [id |-> "other", size |-> 0, dataSetSize |-> 0, dataVersion |-> 0,
              timestamp |-> 0, stage |-> "init", lock |-> "unlocked"]
UsedEntry == [ZeroEntry EXCEPT !.stage = "updating", !.lock = "locked"]
MCGarbage == {ZeroEntry, UsedEntry}
MCZeroPage == {ZeroEntry}

MCPackets == {<<"smbios">>, <<"other", "smbios">>}

Whole(data) == TableFile(1, 0, Len(data), data)

\* A good table, a broken one, an unsupported one and one whose header announces too
\* much.  A file that is missing is the initial one, an empty one is left by the agent.
MCHostFiles == {Whole(<<1, 1>>), Whole(<<1, 2>>), Whole(<<2>>),
                TableFile(1, 0, 3, <<1, 1, 1>>)}
=============================================================================
