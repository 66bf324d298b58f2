---------------------------- MODULE MCBlobHandler ----------------------------
(***************************************************************************)
(* The blob handler on its own, with a history of the accepted writes that *)
(* the staging buffer is compared with.                                    *)
(***************************************************************************)
EXTENDS BlobHandler

CONSTANTS
    Files,         \* what the file may be when ipmid starts
    MaxWrites      \* bound: accepted writes while one blob is open

ASSUME HistoryAssumption == Files \subseteq File /\ MaxWrites \in Nat

VARIABLE writes        \* the accepted writes since the blob was opened

MCByte == 0..2
MCChunks == {<< >>, <<1>>, <<2>>, <<1, 2>>}
MCFiles == {NoFile, ShortFile, TableFile(1, 0, 2, <<1>>)}

mcVars == <<blobHandlerVars, writes>>

MCInit == file \in Files /\ BlobInit /\ writes = << >>

MCWrite(s, offset, data) ==
    /\ Len(writes) < MaxWrites
    /\ Write(s, offset, data)
    /\ writes' = Append(writes, [offset |-> offset, data |-> data])

MCNext ==
    \/ \E s \in Sessions :
        \/ \E canWrite \in BOOLEAN : Open(s, canWrite) /\ UNCHANGED writes
        \/ \E offset \in 0..StorageSize, data \in Chunks : MCWrite(s, offset, data)
        \/ Close(s) /\ writes' = << >>
        \/ CommitOpenFails(s) /\ UNCHANGED writes
        \/ \E time \in Times : CommitOpen(s, time) /\ UNCHANGED writes
    \/ CommitProgress /\ UNCHANGED writes
    \/ \E ok \in BOOLEAN : SyncReturns(ok) /\ UNCHANGED writes
    \/ IpmidRestart /\ writes' = << >>

MCSpec == MCInit /\ [][MCNext]_mcVars

-----------------------------------------------------------------------------
\* The accepted writes that cover byte i of the buffer.
Covering(i) ==
    {k \in 1..Len(writes) :
        i > writes[k].offset /\ i <= writes[k].offset + Len(writes[k].data)}

\* The buffer is what the accepted writes say and nothing else, in whatever order,
\* with whatever gaps and overlaps they came: it ends where the farthest of them
\* ends, byte i is the one the last write covering i put there, and a byte no write
\* covers is 0.
BufferIsReplay ==
    /\ \A k \in 1..Len(writes) :
           writes[k].offset + Len(writes[k].data) <= Len(buffer)
    /\ Len(buffer) > 0 =>
           \E k \in 1..Len(writes) :
               writes[k].offset + Len(writes[k].data) = Len(buffer)
    /\ \A i \in 1..Len(buffer) :
           \/ Covering(i) = {} /\ buffer[i] = 0
           \/ \E k \in Covering(i) :
                  /\ \A l \in Covering(i) : l <= k
                  /\ buffer[i] = writes[k].data[i - writes[k].offset]
=============================================================================
