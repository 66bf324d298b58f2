-------------------------- MODULE MCSmbiosTransfer --------------------------
(***************************************************************************)
(* Tables of two bytes, read as in MCMdrv2Agent: a good, a broken and an   *)
(* unsupported one.                                                        *)
(***************************************************************************)
EXTENDS SmbiosTransfer

MCByte == 0..2
MCSupported == {image \in Image : image[1] = 1}
MCBroken == {image \in Image : image[2] = 2}
MCChunks == {<<1, 1>>, <<1, 2>>, <<2, 1>>}
MCGarbage == {[id |-> "smbios", size |-> 0, dataSetSize |-> 0, dataVersion |-> 0,
               timestamp |-> 0, stage |-> "init", lock |-> "unlocked"]}
=============================================================================
