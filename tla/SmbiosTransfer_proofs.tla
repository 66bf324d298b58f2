------------------------ MODULE SmbiosTransfer_proofs ------------------------
(***************************************************************************)
(* The blob handler on its own: its outcomes, its buffer and its commit.   *)
(* Then the handler and the agent on one file: a committed table is        *)
(* durable, for all tables, sessions and sizes, and for every interleaving *)
(* of the two processes, their deaths included.                            *)
(***************************************************************************)
EXTENDS SmbiosTransfer, MCBlobHandler, Mdrv2Agent_proofs

\* A function on 1..n is a sequence.
LEMMA FunctionIsSeq ==
    ASSUME NEW S, NEW n \in Nat, NEW f \in [1..n -> S]
    PROVE  f \in Seq(S) /\ Len(f) = n
  OBVIOUS

\* What a sequence holds.
LEMMA ElementOfSeq ==
    ASSUME NEW S, NEW q \in Seq(S), NEW k \in 1..Len(q)
    PROVE  q[k] \in S
  OBVIOUS

\* Overwrite yields bytes, and ends at the farther of the buffer's end and the write's.
LEMMA OverwriteType ==
    ASSUME NEW buf \in Seq(Byte), NEW offset \in Nat, NEW data \in Seq(Byte)
    PROVE  /\ Overwrite(buf, offset, data) \in Seq(Byte)
           /\ Len(Overwrite(buf, offset, data))
                = IF offset + Len(data) > Len(buf) THEN offset + Len(data) ELSE Len(buf)
<1>. DEFINE end == offset + Len(data)
            n == IF end > Len(buf) THEN end ELSE Len(buf)
<1>1. n \in Nat /\ end \in Nat
  OBVIOUS
<1>2. ASSUME NEW i \in 1..n
      PROVE  (CASE i > offset /\ i <= end -> data[i - offset]
                [] i <= offset /\ i > Len(buf) -> 0
                [] OTHER -> buf[i]) \in Byte
  <2>1. CASE i > offset /\ i <= end
    <3>1. i - offset \in 1..Len(data)
      BY <2>1
    <3>2. data[i - offset] \in Byte
      BY <3>1
    <3>. QED
      BY <2>1, <3>2
  <2>2. CASE i <= offset /\ i > Len(buf)
    BY <2>2, SmbiosFileAssumption
  <2>3. CASE ~(i > offset /\ i <= end) /\ ~(i <= offset /\ i > Len(buf))
    <3>1. i \in 1..Len(buf)
      BY <2>3
    <3>2. buf[i] \in Byte
      BY <3>1
    <3>. QED
      BY <2>3, <3>2
  <2>. QED
    BY <2>1, <2>2, <2>3
<1>3. Overwrite(buf, offset, data) \in [1..n -> Byte]
  BY <1>2 DEF Overwrite
<1>. HIDE DEF n
<1>4. Overwrite(buf, offset, data) \in Seq(Byte) /\ Len(Overwrite(buf, offset, data)) = n
  BY <1>1, <1>3, FunctionIsSeq
<1>. QED
  BY <1>4 DEF n

\* Every state of the file during the two writes of commit is a file.
LEMMA WrittenFileType ==
    ASSUME BlobTypeOK, NEW w \in Nat, w <= Len(buffer) + 1
    PROVE  WrittenFile(w) \in File
<1>1. ShortFile \in File
  BY FileConstants
<1>2. CASE w # 0
  <2>1. SubSeq(buffer, 1, w - 1) \in Seq(Byte)
    BY <1>2 DEF BlobTypeOK
  <2>2. 1 \in DirVers
    BY SmbiosFileAssumption
  <2>3. Len(buffer) \in Nat /\ stamp \in Times
    BY DEF BlobTypeOK
  <2>4. WrittenFile(w) = TableFile(1, stamp, Len(buffer), SubSeq(buffer, 1, w - 1))
    BY <1>2 DEF WrittenFile
  <2>. QED
    BY <2>1, <2>2, <2>3, <2>4 DEF TableFile, File, FileKind
<1>. QED
  BY <1>1, <1>2 DEF WrittenFile

-----------------------------------------------------------------------------
\* Every step of the handler, and of a commit under way, keeps the types.
LEMMA BlobTypeStep ==
    ASSUME BlobTypeOK, BlobNext
    PROVE  BlobTypeOK'
<1>. USE DEF BlobTypeOK
<1>1. ASSUME NEW s \in Sessions, NEW canWrite \in BOOLEAN, Open(s, canWrite)
      PROVE  BlobTypeOK'
  BY <1>1 DEF Open, OpenState, StateFlags
<1>2. ASSUME NEW s \in Sessions, NEW offset \in 0..StorageSize, NEW data \in Chunks,
             Write(s, offset, data)
      PROVE  BlobTypeOK'
  <2>1. buffer' \in Seq(Byte)
    BY <1>2, OverwriteType, SmbiosFileAssumption, BlobAssumption DEF Write
  <2>. QED
    BY <1>2, <2>1 DEF Write
<1>3. ASSUME NEW s \in Sessions, Close(s)
      PROVE  BlobTypeOK'
  BY <1>3 DEF Close
<1>4. ASSUME NEW s \in Sessions, CommitOpenFails(s)
      PROVE  BlobTypeOK'
  BY <1>4 DEF CommitOpenFails, ClearCommitError, StateFlags
<1>5. ASSUME NEW s \in Sessions, NEW time \in Times, CommitOpen(s, time)
      PROVE  BlobTypeOK'
  BY <1>5, FileConstants DEF CommitOpen, ClearCommitError
<1>6. ASSUME NEW w \in 1..(StorageSize + 1), CommitFlush(w)
      PROVE  BlobTypeOK'
  <2>1. w \in Nat /\ w <= Len(buffer) + 1
    BY <1>6 DEF CommitFlush
  <2>2. file' \in File
    BY <1>6, <2>1, WrittenFileType, FileConstants DEF CommitFlush
  <2>. QED
    BY <1>6, <2>1, <2>2 DEF CommitFlush
<1>7. CASE CommitWriteFails
  BY <1>7, SmbiosFileAssumption DEF CommitWriteFails, LeaveCommit, StateFlags
<1>8. CASE CommitCall
  BY <1>8 DEF CommitCall, StateFlags
<1>9. ASSUME NEW ok \in BOOLEAN, SyncReturns(ok)
      PROVE  BlobTypeOK'
  BY <1>9, SmbiosFileAssumption DEF SyncReturns, LeaveCommit, StateFlags
<1>10. CASE IpmidRestart
  BY <1>10, SmbiosFileAssumption DEF IpmidRestart, LeaveCommit
<1>. QED
  BY <1>1, <1>2, <1>3, <1>4, <1>5, <1>6, <1>7, <1>8, <1>9, <1>10
     DEF BlobNext, BlobRequest, CommitProgress

\* OneOutcome is not inductive: it needs that no outcome is left while commit writes.
NoOutcomeYet == phase = "writing" => state \cap Outcome = {}

BlobInv == BlobTypeOK /\ BufferFits /\ OneOutcome /\ NoOutcomeYet

\* A handler that was just loaded satisfies the invariant, whatever the file holds.
LEMMA BlobInvInit == file \in File /\ BlobInit => BlobInv
  BY SmbiosFileAssumption
     DEF BlobInit, BlobInv, BlobTypeOK, BufferFits, OneOutcome, NoOutcomeYet, Outcome

\* Every action of the handler preserves the invariant, one case per action.
LEMMA BlobInvStep ==
    ASSUME BlobInv, BlobNext
    PROVE  BlobInv'
<1>. SUFFICES BufferFits' /\ OneOutcome' /\ NoOutcomeYet'
  BY BlobTypeStep DEF BlobInv
<1>. USE DEF BlobInv, BufferFits, OneOutcome, NoOutcomeYet, Outcome
<1>1. ASSUME NEW s \in Sessions, NEW canWrite \in BOOLEAN, Open(s, canWrite)
      PROVE  BufferFits' /\ OneOutcome' /\ NoOutcomeYet'
  BY <1>1, SmbiosFileAssumption DEF Open, OpenState
<1>2. ASSUME NEW s \in Sessions, NEW offset \in 0..StorageSize, NEW data \in Chunks,
             Write(s, offset, data)
      PROVE  BufferFits' /\ OneOutcome' /\ NoOutcomeYet'
  <2>1. Len(buffer') = IF offset + Len(data) > Len(buffer)
                       THEN offset + Len(data) ELSE Len(buffer)
    BY <1>2, OverwriteType, SmbiosFileAssumption, BlobAssumption DEF Write, BlobTypeOK
  <2>2. offset + Len(data) <= StorageSize
    <3>1. Len(data) \in Nat
      BY BlobAssumption
    <3>. QED
      BY <1>2, <3>1, SmbiosFileAssumption DEF Write, Fits
  <2>. QED
    BY <1>2, <2>1, <2>2 DEF Write
<1>3. ASSUME NEW s \in Sessions, Close(s)
      PROVE  BufferFits' /\ OneOutcome' /\ NoOutcomeYet'
  BY <1>3, SmbiosFileAssumption DEF Close
<1>4. ASSUME NEW s \in Sessions, CommitOpenFails(s)
      PROVE  BufferFits' /\ OneOutcome' /\ NoOutcomeYet'
  BY <1>4 DEF CommitOpenFails, CommitGuard, ClearCommitError
<1>5. ASSUME NEW s \in Sessions, NEW time \in Times, CommitOpen(s, time)
      PROVE  BufferFits' /\ OneOutcome' /\ NoOutcomeYet'
  BY <1>5 DEF CommitOpen, CommitGuard, ClearCommitError
<1>6. ASSUME NEW w \in 1..(StorageSize + 1), CommitFlush(w)
      PROVE  BufferFits' /\ OneOutcome' /\ NoOutcomeYet'
  BY <1>6 DEF CommitFlush
<1>7. CASE CommitWriteFails
  BY <1>7 DEF CommitWriteFails, LeaveCommit
<1>8. CASE CommitCall
  BY <1>8 DEF CommitCall
<1>9. ASSUME NEW ok \in BOOLEAN, SyncReturns(ok)
      PROVE  BufferFits' /\ OneOutcome' /\ NoOutcomeYet'
  BY <1>9 DEF SyncReturns, LeaveCommit
<1>10. CASE IpmidRestart
  BY <1>10, SmbiosFileAssumption DEF IpmidRestart, LeaveCommit
<1>. QED
  BY <1>1, <1>2, <1>3, <1>4, <1>5, <1>6, <1>7, <1>8, <1>9, <1>10
     DEF BlobNext, BlobRequest, CommitProgress

\* The same of every step of BlobSpec, stuttering included.
LEMMA BlobInvNext == BlobInv /\ [BlobNext]_blobHandlerVars => BlobInv'
<1>1. BlobInv /\ UNCHANGED blobHandlerVars => BlobInv'
  BY DEF BlobInv, BlobTypeOK, BufferFits, OneOutcome, NoOutcomeYet,
         blobHandlerVars, blobVars
<1>. QED
  BY <1>1, BlobInvStep

\* The staging buffer never outgrows the agent's storage.
THEOREM BufferAlwaysFits == BlobSpec => []BufferFits
<1>1. BlobInv => BufferFits
  BY DEF BlobInv
<1>. QED
  BY <1>1, BlobInvInit, BlobInvNext, PTL DEF BlobSpec

\* No sequence of failed commits, retries, writes and restarts leaves a blob with two
\* outcomes, and committing is reported exactly during the D-Bus call.
THEOREM OutcomeIsUnique == BlobSpec => []OneOutcome
<1>1. BlobInv => OneOutcome
  BY DEF BlobInv
<1>. QED
  BY <1>1, BlobInvInit, BlobInvNext, PTL DEF BlobSpec

-----------------------------------------------------------------------------
\* What the file holds while commit runs, when nobody else touches it: what was written
\* so far.  CalledWithWholeFile is the last of it.
FileFollows ==
    /\ phase = "writing" => file = WrittenFile(written)
    /\ CalledWithWholeFile

\* Every step of the handler keeps the file and its count of bytes together.
LEMMA FileFollowsStep ==
    ASSUME BlobTypeOK, FileFollows, [BlobNext]_blobHandlerVars
    PROVE  FileFollows'
<1>. USE DEF FileFollows, CalledWithWholeFile
<1>1. ASSUME phase = "idle", phase' = "idle" PROVE FileFollows'
  BY <1>1
<1>2. ASSUME NEW s \in Sessions, NEW time \in Times, CommitOpen(s, time)
      PROVE  FileFollows'
  BY <1>2 DEF CommitOpen, WrittenFile
<1>3. ASSUME NEW w \in 1..(StorageSize + 1), CommitFlush(w)
      PROVE  FileFollows'
  BY <1>3 DEF CommitFlush, WrittenFile
<1>4. CASE CommitCall
  BY <1>4 DEF CommitCall, AllWritten, WrittenFile
<1>5. CASE CommitWriteFails \/ IpmidRestart \/ \E ok \in BOOLEAN : SyncReturns(ok)
  BY <1>5 DEF CommitWriteFails, IpmidRestart, SyncReturns, LeaveCommit
<1>6. CASE UNCHANGED blobHandlerVars
  BY <1>6 DEF blobHandlerVars, blobVars, WrittenFile
<1>7. CASE BlobRequest
  BY <1>1, <1>2, <1>7
     DEF BlobRequest, Open, Write, Close, CommitOpenFails, CommitGuard
<1>. QED
  BY <1>3, <1>4, <1>5, <1>6, <1>7 DEF BlobNext, CommitProgress

\* The state of the handler stays in its types.
THEOREM BlobTypeCorrect == BlobSpec => []BlobTypeOK
<1>1. BlobInv => BlobTypeOK
  BY DEF BlobInv
<1>. QED
  BY <1>1, BlobInvInit, BlobInvNext, PTL DEF BlobSpec

\* However the flash takes the bytes, the agent is called with the whole table in it.
THEOREM CalledAfterLastByte == BlobSpec => []CalledWithWholeFile
<1>1. BlobInit => FileFollows
  BY DEF BlobInit, FileFollows, CalledWithWholeFile
<1>2. BlobInv => BlobTypeOK
  BY DEF BlobInv
<1>3. FileFollows => CalledWithWholeFile
  BY DEF FileFollows
<1>. QED
  BY <1>1, <1>2, <1>3, FileFollowsStep, BlobInvInit, BlobInvNext, PTL DEF BlobSpec

-----------------------------------------------------------------------------
\* The accepted writes, and that a blob starts out without any: BufferIsReplay is not
\* inductive without, as Open empties the buffer and leaves the history alone.
WritesOfThisBlob ==
    /\ writes \in Seq([offset : Nat, data : Seq(Byte)])
    /\ sessionId = NoSession => writes = << >>

ReplayInv == BlobInv /\ WritesOfThisBlob /\ BufferIsReplay

\* The history adds nothing to what the handler does.
LEMMA HistoryFollows == MCNext => BlobNext
  BY DEF MCNext, MCWrite, BlobNext, BlobRequest

\* An empty buffer is the replay of no writes.
LEMMA NothingWritten ==
    ASSUME buffer = << >>, writes = << >>
    PROVE  BufferIsReplay /\ writes \in Seq([offset : Nat, data : Seq(Byte)])
  BY DEF BufferIsReplay

\* A write covers its own bytes, and leaves to the earlier ones what they covered.
LEMMA CoveringAfterWrite ==
    ASSUME NEW offset \in Nat, NEW data \in Seq(Byte), WritesOfThisBlob,
           writes' = Append(writes, [offset |-> offset, data |-> data]),
           NEW i \in Nat
    PROVE  Covering(i)' = Covering(i) \cup
               (IF i > offset /\ i <= offset + Len(data) THEN {Len(writes) + 1} ELSE {})
<1>1. /\ Len(writes') = Len(writes) + 1
      /\ \A k \in 1..Len(writes) : writes'[k] = writes[k]
      /\ writes'[Len(writes) + 1] = [offset |-> offset, data |-> data]
      /\ Len(writes) \in Nat
  BY DEF WritesOfThisBlob
<1>2. 1..Len(writes') = 1..Len(writes) \cup {Len(writes) + 1}
  BY <1>1
<1>3. \A k \in 1..Len(writes) : k \in Covering(i)' <=> k \in Covering(i)
  BY <1>1, <1>2 DEF Covering
<1>4. Len(writes) + 1 \in Covering(i)' <=> i > offset /\ i <= offset + Len(data)
  BY <1>1, <1>2 DEF Covering
<1>5. Covering(i)' \subseteq 1..Len(writes') /\ Covering(i) \subseteq 1..Len(writes)
  BY DEF Covering
<1>. QED
  BY <1>1, <1>2, <1>3, <1>4, <1>5

\* resize and memcpy: the bytes of an accepted write, the old ones and zeros between.
LEMMA OverwriteBytes ==
    ASSUME NEW buf \in Seq(Byte), NEW offset \in Nat, NEW data \in Seq(Byte),
           NEW i \in 1..Len(Overwrite(buf, offset, data))
    PROVE  /\ i > offset /\ i <= offset + Len(data)
                  => Overwrite(buf, offset, data)[i] = data[i - offset]
           /\ ~(i > offset /\ i <= offset + Len(data)) /\ i <= Len(buf)
                  => Overwrite(buf, offset, data)[i] = buf[i]
           /\ ~(i > offset /\ i <= offset + Len(data)) /\ i > Len(buf)
                  => Overwrite(buf, offset, data)[i] = 0
<1>1. i \in 1..(IF offset + Len(data) > Len(buf) THEN offset + Len(data) ELSE Len(buf))
  BY OverwriteType
<1>. QED
  BY <1>1 DEF Overwrite

\* An accepted write keeps the buffer the replay of the writes.
LEMMA WriteReplayed ==
    ASSUME ReplayInv, NEW s \in Sessions, NEW offset \in 0..StorageSize,
           NEW data \in Chunks, MCWrite(s, offset, data)
    PROVE  BufferIsReplay'
<1>. DEFINE end == offset + Len(data)
            last == Len(writes) + 1
<1>0. /\ offset \in Nat /\ data \in Seq(Byte) /\ buffer \in Seq(Byte)
      /\ Len(data) \in Nat /\ Len(buffer) \in Nat
      /\ writes \in Seq([offset : Nat, data : Seq(Byte)])
  BY SmbiosFileAssumption, BlobAssumption DEF ReplayInv, BlobInv, BlobTypeOK, WritesOfThisBlob
<1>1. /\ buffer' = Overwrite(buffer, offset, data)
      /\ writes' = Append(writes, [offset |-> offset, data |-> data])
  BY DEF MCWrite, Write
<1>2. Len(buffer') = IF end > Len(buffer) THEN end ELSE Len(buffer)
  BY <1>0, <1>1, OverwriteType
<1>3. /\ Len(writes') = last /\ last \in Nat \ {0}
      /\ \A k \in 1..Len(writes) : writes'[k] = writes[k]
      /\ writes'[last] = [offset |-> offset, data |-> data]
      /\ 1..last = 1..Len(writes) \cup {last}
  BY <1>0, <1>1
<1>4. \A k \in 1..Len(writes) :
          /\ writes[k].offset \in Nat /\ Len(writes[k].data) \in Nat
          /\ writes[k].offset + Len(writes[k].data) <= Len(buffer)
  <2>. SUFFICES ASSUME NEW k \in 1..Len(writes)
                PROVE  /\ writes[k].offset \in Nat /\ Len(writes[k].data) \in Nat
                       /\ writes[k].offset + Len(writes[k].data) <= Len(buffer)
    OBVIOUS
  <2>1. writes[k] \in [offset : Nat, data : Seq(Byte)]
    BY <1>0, ElementOfSeq
  <2>2. writes[k].offset \in Nat /\ writes[k].data \in Seq(Byte)
    BY <2>1
  <2>3. writes[k].offset + Len(writes[k].data) <= Len(buffer)
    BY DEF ReplayInv, BufferIsReplay
  <2>. QED
    BY <2>2, <2>3
<1>5. \A k \in 1..Len(writes') :
          writes'[k].offset + Len(writes'[k].data) <= Len(buffer')
  <2>1. ASSUME NEW k \in 1..Len(writes)
        PROVE  writes'[k].offset + Len(writes'[k].data) <= Len(buffer')
    <3>1. writes'[k] = writes[k] /\ Len(buffer) <= Len(buffer') /\ Len(buffer') \in Nat
      BY <1>0, <1>2, <1>3
    <3>2. /\ writes[k].offset \in Nat /\ Len(writes[k].data) \in Nat
          /\ writes[k].offset + Len(writes[k].data) <= Len(buffer)
      BY <1>4
    <3>. QED
      BY <1>0, <3>1, <3>2
  <2>2. writes'[last].offset + Len(writes'[last].data) <= Len(buffer')
    BY <1>0, <1>2, <1>3
  <2>. QED
    BY <1>3, <2>1, <2>2
<1>6. Len(buffer') > 0 =>
          \E k \in 1..Len(writes') :
              writes'[k].offset + Len(writes'[k].data) = Len(buffer')
  <2>1. CASE end > Len(buffer)
    BY <1>0, <1>2, <1>3, <2>1
  <2>2. CASE end <= Len(buffer)
    <3>1. Len(buffer) > 0 => \E k \in 1..Len(writes) :
              writes[k].offset + Len(writes[k].data) = Len(buffer)
      BY DEF ReplayInv, BufferIsReplay
    <3>. QED
      BY <1>0, <1>2, <1>3, <2>2, <3>1
  <2>. QED
    BY <1>0, <2>1, <2>2
<1>7. ASSUME NEW i \in 1..Len(buffer')
      PROVE  \/ Covering(i)' = {} /\ buffer'[i] = 0
             \/ \E k \in Covering(i)' :
                    /\ \A l \in Covering(i)' : l <= k
                    /\ buffer'[i] = writes'[k].data[i - writes'[k].offset]
  <2>0. i \in Nat /\ i \in 1..Len(Overwrite(buffer, offset, data))
    BY <1>0, <1>1, <1>2
  <2>1. Covering(i)' = Covering(i) \cup (IF i > offset /\ i <= end THEN {last} ELSE {})
    BY <1>0, <1>1, <2>0, CoveringAfterWrite DEF ReplayInv
  <2>2. Covering(i) \subseteq 1..Len(writes)
    BY DEF Covering
  <2>3. CASE i > offset /\ i <= end
    <3>1. last \in Covering(i)' /\ \A l \in Covering(i)' : l <= last
      BY <1>0, <1>3, <2>1, <2>2, <2>3
    <3>2. buffer'[i] = writes'[last].data[i - writes'[last].offset]
      BY <1>0, <1>1, <1>3, <2>0, <2>3, OverwriteBytes
    <3>. QED
      BY <3>1, <3>2
  <2>4. CASE ~(i > offset /\ i <= end) /\ i <= Len(buffer)
    <3>1. buffer'[i] = buffer[i]
      BY <1>0, <1>1, <2>0, <2>4, OverwriteBytes
    <3>2. Covering(i)' = Covering(i)
      BY <2>1, <2>4
    <3>3. i \in 1..Len(buffer)
      BY <1>0, <2>0, <2>4
    <3>4. \/ Covering(i) = {} /\ buffer[i] = 0
          \/ \E k \in Covering(i) :
                 /\ \A l \in Covering(i) : l <= k
                 /\ buffer[i] = writes[k].data[i - writes[k].offset]
      BY <3>3 DEF ReplayInv, BufferIsReplay
    <3>. QED
      BY <1>3, <2>2, <3>1, <3>2, <3>4
  <2>5. CASE ~(i > offset /\ i <= end) /\ i > Len(buffer)
    <3>1. buffer'[i] = 0
      BY <1>0, <1>1, <2>0, <2>5, OverwriteBytes
    <3>2. Covering(i) = {}
      <4>1. \A k \in 1..Len(writes) :
                ~(i > writes[k].offset /\ i <= writes[k].offset + Len(writes[k].data))
        <5>. TAKE k \in 1..Len(writes)
        <5>1. /\ writes[k].offset \in Nat /\ Len(writes[k].data) \in Nat
              /\ writes[k].offset + Len(writes[k].data) <= Len(buffer)
          BY <1>4
        <5>2. i > Len(buffer) /\ i \in Nat /\ Len(buffer) \in Nat
          BY <1>0, <2>0, <2>5
        <5>. QED
          BY <5>1, <5>2
      <4>. QED
        BY <4>1 DEF Covering
    <3>. QED
      BY <2>1, <2>5, <3>1, <3>2
  <2>. QED
    BY <1>0, <2>0, <2>3, <2>4, <2>5
<1>. QED
  BY <1>5, <1>6, <1>7 DEF BufferIsReplay

\* The other requests leave buffer and history alone, or start both anew.
LEMMA ReplayStep == ReplayInv /\ [MCNext]_mcVars => ReplayInv'
<1>. SUFFICES ASSUME ReplayInv, [MCNext]_mcVars
              PROVE  WritesOfThisBlob' /\ BufferIsReplay'
  BY HistoryFollows, BlobInvNext DEF ReplayInv, mcVars
<1>0. WritesOfThisBlob /\ BufferIsReplay
  BY DEF ReplayInv
<1>1. ASSUME UNCHANGED <<buffer, writes>>, sessionId' = sessionId \/ sessionId = NoSession
      PROVE  WritesOfThisBlob' /\ BufferIsReplay'
  <2>1. WritesOfThisBlob'
    BY <1>0, <1>1 DEF WritesOfThisBlob
  <2>2. BufferIsReplay'
    BY <1>0, <1>1 DEF BufferIsReplay, Covering
  <2>. QED
    BY <2>1, <2>2
<1>2. ASSUME buffer' = << >>, writes' = << >>
      PROVE  WritesOfThisBlob' /\ BufferIsReplay'
  <2>1. BufferIsReplay' /\ writes' \in Seq([offset : Nat, data : Seq(Byte)])
    BY <1>2 DEF BufferIsReplay
  <2>. QED
    BY <1>2, <2>1 DEF WritesOfThisBlob
<1>3. ASSUME NEW s \in Sessions, NEW canWrite \in BOOLEAN, Open(s, canWrite), UNCHANGED writes
      PROVE  WritesOfThisBlob' /\ BufferIsReplay'
  BY <1>0, <1>2, <1>3 DEF Open, WritesOfThisBlob
<1>4. ASSUME NEW s \in Sessions, NEW offset \in 0..StorageSize, NEW data \in Chunks,
             MCWrite(s, offset, data)
      PROVE  WritesOfThisBlob' /\ BufferIsReplay'
  <2>1. sessionId' # NoSession
    BY <1>4, BlobAssumption DEF MCWrite, Write
  <2>2. [offset |-> offset, data |-> data] \in [offset : Nat, data : Seq(Byte)]
    BY SmbiosFileAssumption, BlobAssumption
  <2>3. writes' \in Seq([offset : Nat, data : Seq(Byte)])
    BY <1>0, <1>4, <2>2 DEF MCWrite, WritesOfThisBlob
  <2>. QED
    BY <1>4, <2>1, <2>3, WriteReplayed DEF WritesOfThisBlob
<1>5. CASE (\E s \in Sessions : Close(s) /\ writes' = << >>)
           \/ (IpmidRestart /\ writes' = << >>)
  BY <1>2, <1>5 DEF Close, IpmidRestart
<1>6. CASE UNCHANGED writes /\ \/ \E s \in Sessions : CommitOpenFails(s)
                               \/ \E s \in Sessions, time \in Times : CommitOpen(s, time)
                               \/ CommitProgress
                               \/ \E ok \in BOOLEAN : SyncReturns(ok)
  BY <1>1, <1>6 DEF CommitOpenFails, CommitOpen, CommitProgress, CommitFlush,
                    CommitWriteFails, CommitCall, SyncReturns
<1>7. CASE UNCHANGED mcVars
  BY <1>1, <1>7 DEF mcVars, blobHandlerVars, blobVars
<1>. QED
  BY <1>3, <1>4, <1>5, <1>6, <1>7 DEF MCNext

\* Whatever the order, the gaps and the overlaps of the accepted writes, the staging
\* buffer is what they say, byte for byte, and holds nothing of an earlier blob.
THEOREM BufferAlwaysReplay == MCSpec => []BufferIsReplay
<1>1. MCInit => ReplayInv
  BY BlobInvInit, NothingWritten, HistoryAssumption
     DEF MCInit, BlobInit, ReplayInv, WritesOfThisBlob
<1>2. ReplayInv => BufferIsReplay
  BY DEF ReplayInv
<1>. QED
  BY <1>1, <1>2, ReplayStep, PTL DEF MCSpec

-----------------------------------------------------------------------------
\* The file and the storage both hold f.
Holds(f) == file = f /\ storage = ReadImage(f)

\* What a commit, when all goes well, makes of the file.
WholeFile == WrittenFile(Len(buffer) + 1)

\* The file of a commit under way is what was written, or the agent has truncated it.
CommitFile ==
    /\ phase = "writing" =>
           /\ written <= Len(buffer) + 1
           /\ file \in {WrittenFile(written), ShortFile, HoledFile}
    /\ phase = "syncing" => file \in {WholeFile, ShortFile, HoledFile}

\* An answer true stands for the whole file, which only the agent could destroy since,
\* and does so only if it is broken.
CallAnswer ==
    /\ call # "none" => phase = "syncing"
    /\ call = "accepted" =>
           /\ Accepts(WholeFile)
           /\ ReadImage(WholeFile) \notin Broken => Holds(WholeFile)

\* The same for the commit that succeeded last.
LastCommit ==
    durable # NoFile =>
        /\ phase = "idle"
        /\ Accepts(durable)
        /\ ReadImage(durable) \notin Broken => Holds(durable)

TransferInv == TransferTypeOK /\ CommitFile /\ CallAnswer /\ LastCommit

-----------------------------------------------------------------------------
\* The steps the agent takes in the composition.
AgentAction ==
    \/ AgentSynchronizeData
    \/ InterfacesAdded
    \/ \E i \in DirIndex, size \in Sizes : SynchronizeDirectoryCommonData(i, size)
    \/ TimerStep
    \/ AgentRestart

\* What the agent does in the composition it may do on its own.
LEMMA AgentActionIsNext == AgentAction => Next
<1>1. DirIndex \subseteq 0..MaxDirEntries
  BY DirectoryAssumption DEF DirIndex
<1>. QED
  BY <1>1 DEF AgentAction, Next, DBusCall

\* The agent does nothing to the file but truncate it, and neither the file nor the
\* storage changes once both hold a table that is not broken.
LEMMA AgentKeeps ==
    ASSUME TypeOK, AgentAction
    PROVE  /\ file' \in {file, ShortFile}
           /\ \A f : Holds(f) /\ ReadImage(f) \notin Broken =>
                         file' = f /\ storage' = ReadImage(f)
<1>1. CASE AgentSynchronizeData
  BY <1>1 DEF AgentSynchronizeData, Sync, Holds
<1>2. CASE InterfacesAdded
  BY <1>2 DEF InterfacesAdded, SystemInfoUpdate, SystemVersion, Holds
<1>3. CASE \E i \in DirIndex, size \in Sizes : SynchronizeDirectoryCommonData(i, size)
  BY <1>3 DEF SynchronizeDirectoryCommonData, Holds
<1>4. CASE TimerStep
  BY <1>4 DEF TimerStep, Expire, RunInfo, RunSync, Sync, SystemInfoUpdate, SystemVersion, Holds
<1>5. CASE AgentRestart
  BY <1>5 DEF AgentRestart, Holds
<1>. QED
  BY <1>1, <1>2, <1>3, <1>4, <1>5 DEF AgentAction

\* A truncated or holed file is never accepted.
LEMMA NoTableRefused == ~Accepts(ShortFile) /\ ~Accepts(HoledFile)
  BY NoTableReadsZero, AgentAssumption DEF Accepts

-----------------------------------------------------------------------------
\* The types hold when both processes have started.
LEMMA TransferTypeInit == TransferInit => TransferTypeOK
<1>. SUFFICES ASSUME TransferInit PROVE TransferTypeOK
  OBVIOUS
<1>1. TypeOK
  BY TypeInit DEF TransferInit
<1>2. BlobTypeOK
  BY <1>1, BlobInvInit DEF TransferInit, TypeOK, BlobInv
<1>. QED
  BY <1>1, <1>2, FileConstants DEF TransferInit, TransferTypeOK

\* The steps of either process keep the types of both.
LEMMA TransferTypeStep ==
    ASSUME TransferTypeOK, [TransferNext]_sysVars
    PROVE  TransferTypeOK'
<1>1. ASSUME BlobNext, UNCHANGED agentVars
      PROVE  BlobTypeOK' /\ TypeOK'
  <2>1. BlobTypeOK'
    BY <1>1, BlobTypeStep DEF TransferTypeOK
  <2>2. file' \in File
    BY <2>1 DEF BlobTypeOK
  <2>. QED
    BY <1>1, <2>1, <2>2
       DEF TransferTypeOK, TypeOK, DirTypeOK, agentVars, dirVars, timerVars
<1>2. ASSUME AgentAction, UNCHANGED blobVars
      PROVE  BlobTypeOK' /\ TypeOK'
  <2>1. TypeOK'
    BY <1>2, AgentActionIsNext, TypeStep DEF TransferTypeOK
  <2>2. file' \in File
    BY <2>1 DEF TypeOK
  <2>. QED
    BY <1>2, <2>1, <2>2 DEF TransferTypeOK, BlobTypeOK, blobVars
<1>3. CASE IpmidStep
  <2>1. BlobTypeOK' /\ TypeOK'
    BY <1>1, <1>3 DEF IpmidStep, BlobNext
  <2>2. durable' \in File
    BY <1>3, FileConstants DEF IpmidStep, TransferTypeOK
  <2>. QED
    BY <1>3, <2>1, <2>2 DEF IpmidStep, TransferTypeOK
<1>4. CASE ServeCall
  BY <1>2, <1>4 DEF ServeCall, AgentAction, TransferTypeOK
<1>5. CASE CommitSucceeds
  <2>1. BlobTypeOK' /\ TypeOK'
    BY <1>1, <1>5 DEF CommitSucceeds, BlobNext
  <2>2. durable' \in File
    <3>1. Len(buffer) + 1 \in Nat
      BY DEF TransferTypeOK, BlobTypeOK
    <3>. QED
      BY <1>5, <3>1, WrittenFileType DEF CommitSucceeds, TransferTypeOK
  <2>. QED
    BY <1>5, <2>1, <2>2 DEF CommitSucceeds, TransferTypeOK
<1>6. CASE CommitFails
  BY <1>1, <1>6 DEF CommitFails, BlobNext, TransferTypeOK
<1>7. CASE AgentStep
  BY <1>2, <1>7 DEF AgentStep, AgentAction, TransferTypeOK, transferVars
<1>8. CASE AgentDies
  BY <1>2, <1>8 DEF AgentDies, AgentAction, TransferTypeOK
<1>9. CASE IpmidDies
  BY <1>1, <1>9 DEF IpmidDies, BlobNext, TransferTypeOK
<1>10. CASE UNCHANGED sysVars
  BY <1>10 DEF sysVars, transferVars, TransferTypeOK, BlobTypeOK, TypeOK, DirTypeOK,
               blobVars, agentVars, dirVars, timerVars
<1>. QED
  BY <1>3, <1>4, <1>5, <1>6, <1>7, <1>8, <1>9, <1>10 DEF TransferNext

-----------------------------------------------------------------------------
\* No commit is under way or stored when both processes have started.
LEMMA TransferInvInit == TransferInit => TransferInv
  BY TransferTypeInit
     DEF TransferInit, BlobInit, TransferInv, CommitFile, CallAnswer, LastCommit

\* The agent's steps keep every part of the invariant, whatever commit is doing.
LEMMA AgentActionKeepsInv ==
    ASSUME TransferInv, AgentAction, UNCHANGED <<blobVars, durable>>,
           call' \in {call, "refused"}, call' = "refused" => phase = "syncing"
    PROVE  CommitFile' /\ CallAnswer' /\ LastCommit'
<1>1. /\ file' \in {file, ShortFile}
      /\ \A f : Holds(f) /\ ReadImage(f) \notin Broken =>
                    file' = f /\ storage' = ReadImage(f)
  BY AgentKeeps DEF TransferInv, TransferTypeOK
<1>2. /\ phase' = phase /\ written' = written /\ buffer' = buffer /\ stamp' = stamp
      /\ durable' = durable
  BY DEF blobVars
<1>3. /\ WholeFile' = WholeFile
      /\ WrittenFile(written)' = WrittenFile(written)
  BY <1>2 DEF WholeFile, WrittenFile
<1>4. CommitFile'
  BY <1>1, <1>2, <1>3 DEF TransferInv, CommitFile
<1>5. CallAnswer'
  <2>1. ASSUME call' = "accepted"
        PROVE  /\ Accepts(WholeFile)
               /\ ReadImage(WholeFile) \notin Broken =>
                      file' = WholeFile /\ storage' = ReadImage(WholeFile)
    BY <1>1, <2>1 DEF TransferInv, CallAnswer
  <2>2. Holds(WholeFile)' <=> (file' = WholeFile /\ storage' = ReadImage(WholeFile))
    BY <1>3 DEF Holds, ReadImage, ReadSucceeds
  <2>3. Accepts(WholeFile)' <=> Accepts(WholeFile)
    BY <1>3 DEF Accepts, ReadImage, ReadSucceeds
  <2>. QED
    BY <1>2, <1>3, <2>1, <2>2, <2>3 DEF TransferInv, CallAnswer
<1>6. LastCommit'
  BY <1>1, <1>2 DEF TransferInv, LastCommit, Holds
<1>. QED
  BY <1>4, <1>5, <1>6

\* The steps of ipmid up to the call: a commit that opens the file gives up what the
\* last one stored; the others leave the file to what commit has written.
LEMMA IpmidStepKeepsInv ==
    ASSUME TransferInv, IpmidStep
    PROVE  CommitFile' /\ CallAnswer' /\ LastCommit'
<1>1. storage' = storage /\ call' = call
  BY DEF IpmidStep, agentVars
<1>2. phase # "syncing" /\ call = "none"
  BY DEF IpmidStep, BlobRequest, CommitProgress, Open, Write, Close, CommitOpenFails,
         CommitOpen, CommitGuard, CommitFlush, CommitWriteFails, CommitCall,
         TransferInv, CallAnswer, TransferTypeOK
<1>3. CallAnswer'
  BY <1>1, <1>2 DEF CallAnswer
<1>4. CASE phase = "idle" /\ phase' = "idle"
  <2>1. file' = file /\ durable' = durable
    BY <1>4 DEF IpmidStep, BlobRequest, CommitProgress, Open, Write, Close,
         CommitOpenFails, CommitOpen, CommitFlush, CommitWriteFails, CommitCall
  <2>. QED
    BY <1>1, <1>3, <1>4, <2>1 DEF TransferInv, CommitFile, LastCommit, Holds
<1>5. CASE phase = "idle" /\ phase' # "idle"
  <2>1. phase' = "writing" /\ written' = 0 /\ file' = ShortFile /\ durable' = NoFile
    BY <1>5 DEF IpmidStep, BlobRequest, CommitProgress, Open, Write, Close,
         CommitOpenFails, CommitOpen, CommitFlush, CommitWriteFails, CommitCall
  <2>2. Len(buffer') \in Nat
    BY TransferTypeStep DEF TransferInv, TransferTypeOK, BlobTypeOK, TransferNext
  <2>. QED
    BY <1>3, <2>1, <2>2 DEF CommitFile, LastCommit
<1>6. CASE phase = "writing"
  <2>1. durable = NoFile /\ durable' = NoFile
    BY <1>6 DEF IpmidStep, TransferInv, LastCommit
  <2>2. CASE \E w \in 1..(StorageSize + 1) : CommitFlush(w)
    <3>1. PICK w \in 1..(StorageSize + 1) : CommitFlush(w)
      BY <2>2
    <3>2. WrittenFile(w)' = WrittenFile(w)
      BY <3>1 DEF CommitFlush, WrittenFile
    <3>3. /\ phase' = "writing" /\ written' = w /\ w <= Len(buffer') + 1
          /\ file' \in {WrittenFile(w), HoledFile}
      BY <3>1 DEF CommitFlush, TransferInv, TransferTypeOK, BlobTypeOK
    <3>4. WrittenFile(written)' = WrittenFile(w)
      BY <3>1, <3>3 DEF CommitFlush, WrittenFile
    <3>. QED
      BY <1>3, <2>1, <3>3, <3>4 DEF CommitFile, LastCommit
  <2>3. CASE CommitWriteFails
    BY <1>3, <2>1, <2>3 DEF CommitWriteFails, LeaveCommit, CommitFile, LastCommit
  <2>4. CASE CommitCall
    <3>1. WholeFile' = WrittenFile(written)
      BY <2>4 DEF CommitCall, AllWritten, WholeFile, WrittenFile
    <3>. QED
      BY <1>3, <1>6, <2>1, <2>4, <3>1
         DEF CommitCall, TransferInv, CommitFile, LastCommit
  <2>. QED
    BY <1>6, <2>2, <2>3, <2>4
       DEF IpmidStep, BlobRequest, CommitProgress, Open, Write, Close,
           CommitOpenFails, CommitOpen, CommitGuard
<1>. QED
  BY <1>2, <1>4, <1>5, <1>6 DEF TransferInv, TransferTypeOK, BlobTypeOK

\* Every step of the composition preserves the invariant.
LEMMA TransferInvStep == TransferInv /\ [TransferNext]_sysVars => TransferInv'
<1>. SUFFICES ASSUME TransferInv, [TransferNext]_sysVars
              PROVE  CommitFile' /\ CallAnswer' /\ LastCommit'
  BY TransferTypeStep DEF TransferInv
<1>1. CASE IpmidStep
  BY <1>1, IpmidStepKeepsInv
<1>2. CASE ServeCall
  <2>1. CASE Accepts(file)
    <3>1. file = WholeFile
      BY <1>2, <2>1, NoTableRefused DEF ServeCall, TransferInv, CommitFile
    <3>2. phase' = phase /\ buffer' = buffer /\ stamp' = stamp /\ durable' = durable
      BY <1>2 DEF ServeCall, blobVars
    <3>3. WholeFile' = WholeFile
      BY <3>2 DEF WholeFile, WrittenFile
    <3>4. file' = file /\ storage' = ReadImage(file)
      BY <1>2 DEF ServeCall, AgentSynchronizeData, Sync
    <3>5. Accepts(WholeFile)' /\ Holds(WholeFile)'
      BY <2>1, <3>1, <3>3, <3>4 DEF Holds, Accepts, ReadImage, ReadSucceeds
    <3>6. phase = "syncing" /\ durable = NoFile
      BY <1>2 DEF ServeCall, TransferInv, LastCommit
    <3>. QED
      BY <3>1, <3>2, <3>3, <3>4, <3>5, <3>6 DEF CommitFile, CallAnswer, LastCommit
  <2>2. CASE ~Accepts(file)
    BY <1>2, <2>2, AgentActionKeepsInv DEF ServeCall, AgentAction
  <2>. QED
    BY <2>1, <2>2
<1>3. CASE CommitSucceeds
  <2>1. file' = file /\ storage' = storage /\ durable' = WholeFile /\ call' = "none"
    BY <1>3 DEF CommitSucceeds, SyncReturns, agentVars, WholeFile
  <2>2. phase' = "idle"
    BY <1>3 DEF CommitSucceeds, SyncReturns, LeaveCommit
  <2>3. /\ Accepts(WholeFile)
        /\ ReadImage(WholeFile) \notin Broken => Holds(WholeFile)
    BY <1>3 DEF CommitSucceeds, TransferInv, CallAnswer
  <2>. QED
    BY <2>1, <2>2, <2>3
       DEF CommitFile, CallAnswer, LastCommit, Holds, Accepts, ReadImage, ReadSucceeds
<1>4. CASE CommitFails
  <2>1. durable = NoFile
    BY <1>4 DEF CommitFails, SyncReturns, TransferInv, LastCommit
  <2>. QED
    BY <1>4, <2>1 DEF CommitFails, SyncReturns, LeaveCommit, CommitFile, CallAnswer,
                      LastCommit
<1>5. CASE AgentStep
  BY <1>5, AgentActionKeepsInv
     DEF AgentStep, AgentAction, transferVars, TransferInv, CallAnswer
<1>6. CASE AgentDies
  BY <1>6, AgentActionKeepsInv DEF AgentDies, AgentAction, TransferInv, CallAnswer
<1>7. CASE IpmidDies
  <2>1. phase' = "idle" /\ call' = "none" /\ file' = file /\ storage' = storage
        /\ durable' = durable
    BY <1>7 DEF IpmidDies, IpmidRestart, LeaveCommit, agentVars
  <2>. QED
    BY <2>1 DEF TransferInv, CommitFile, CallAnswer, LastCommit, Holds
<1>8. CASE UNCHANGED sysVars
  BY <1>8 DEF sysVars, blobVars, agentVars, transferVars, TransferInv, CommitFile,
              CallAnswer, LastCommit, Holds, WholeFile, WrittenFile
<1>. QED
  BY <1>1, <1>2, <1>3, <1>4, <1>5, <1>6, <1>7, <1>8 DEF TransferNext

\* The state of the two processes stays in its types.
THEOREM TransferTypeCorrect == TransferSpec => []TransferTypeOK
  BY TransferTypeInit, TransferTypeStep, PTL DEF TransferSpec

\* Once commit has reported success the file and the agent's storage hold all of an
\* accepted table, until the next commit, through time-outs, late synchronisations,
\* the agent's timers and the deaths of both processes; only a table whose BIOS
\* version is unprintable may be deleted.
THEOREM CommittedTableIsDurable == TransferSpec => []CommitIsDurable
<1>1. TransferInv => CommitIsDurable
  BY DEF TransferInv, LastCommit, CommitIsDurable, Stored, Holds
<1>. QED
  BY <1>1, TransferInvInit, TransferInvStep, PTL DEF TransferSpec

-----------------------------------------------------------------------------
\* Both processes start with nothing committed, held, shown or owed.
LEMMA ServiceStarts == TransferInit => Service!ServiceInit
  BY DEF TransferInit, Init, Service!ServiceInit

\* What the agent reads from the file respects the last commit.
LEMMA ReadRespects == TransferInv => Service!Respects(ReadImage(file))
  BY DEF TransferInv, LastCommit, Holds, Service!Respects

\* agentSynchronizeData takes up what is in the file, whether a call or the timer asked
\* for it.
LEMMA SyncTakesUp ==
    ASSUME TransferInv, Sync, ready' \in {ready, "none"},
           UNCHANGED <<inventory, durable>>
    PROVE  Service!ServiceNext
<1>. DEFINE t == ReadImage(file)
<1>1. t \in Image
  BY ReadImageType DEF TransferInv, TransferTypeOK, TypeOK
<1>2. storage' = t
  BY DEF Sync
<1>3. t \in Supported => timer' = "info"
  BY SupportedIsAccepted DEF Sync, Arm, TransferInv, TransferTypeOK, TypeOK
<1>4. t \notin Supported => timer' = timer
  BY DEF Sync, Accepts
<1>5. Service!TakeUp(t)
  BY <1>2, <1>3, <1>4, ReadRespects DEF Service!TakeUp
<1>. QED
  BY <1>1, <1>5 DEF Service!ServiceNext

\* Each step of the agent takes up a table, shows one, puts one off, or is not seen.
LEMMA AgentServes ==
    ASSUME TransferInv, AgentAction, UNCHANGED durable
    PROVE  [Service!ServiceNext]_(Service!serviceVars)
<1>1. CASE AgentSynchronizeData
  BY <1>1, SyncTakesUp DEF AgentSynchronizeData
<1>2. CASE InterfacesAdded
  BY <1>2 DEF InterfacesAdded, SystemInfoUpdate, timerVars, Service!ServiceNext,
              Service!Show
<1>3. CASE \E i \in DirIndex, size \in Sizes : SynchronizeDirectoryCommonData(i, size)
  BY <1>3 DEF SynchronizeDirectoryCommonData, Arm, Service!ServiceNext,
              Service!Postpone
<1>4. CASE Expire
  BY <1>4 DEF Expire, Service!serviceVars
<1>5. CASE RunInfo
  BY <1>5 DEF RunInfo, SystemInfoUpdate, Service!ServiceNext, Service!Show
<1>6. CASE RunSync
  BY <1>6, SyncTakesUp DEF RunSync
<1>7. CASE AgentRestart
  <2>. DEFINE t == ReadImage(file)
  <2>1. t \in Image
    BY ReadImageType DEF TransferInv, TransferTypeOK, TypeOK
  <2>2. t \in Supported <=> Accepts(file)
    BY SupportedIsAccepted DEF Accepts, TransferInv, TransferTypeOK, TypeOK
  <2>3. Service!StartAgain(t)
    BY <1>7, <2>2, ReadRespects DEF AgentRestart, Service!StartAgain
  <2>. QED
    BY <2>1, <2>3 DEF Service!ServiceNext
<1>. QED
  BY <1>1, <1>2, <1>3, <1>4, <1>5, <1>6, <1>7 DEF AgentAction, TimerStep

\* Each step of the composition is a step of the service or is not seen.
LEMMA TransferServes ==
    ASSUME TransferInv, [TransferNext]_sysVars
    PROVE  [Service!ServiceNext]_(Service!serviceVars)
<1>1. CASE IpmidStep
  BY <1>1 DEF IpmidStep, agentVars, timerVars, Service!ServiceNext, Service!Begin,
              Service!serviceVars
<1>2. CASE ServeCall
  BY <1>2, AgentServes DEF ServeCall, AgentAction
<1>3. CASE CommitSucceeds
  <2>. DEFINE t == ReadImage(WholeFile)
  <2>1. durable' = WholeFile /\ UNCHANGED agentVars
    BY <1>3 DEF CommitSucceeds, WholeFile
  <2>2. Accepts(WholeFile) /\ (t \notin Broken => storage = t)
    BY <1>3 DEF CommitSucceeds, TransferInv, CallAnswer, Holds
  <2>3. WholeFile # NoFile
    BY <2>2 DEF Accepts, ReadSucceeds, NoFile
  <2>4. t \in Supported /\ t \in Image
    BY <2>2, AgentAssumption DEF Accepts
  <2>5. Service!Commit(t)
    BY <2>1, <2>2, <2>3, <2>4 DEF Service!Commit, agentVars, timerVars
  <2>. QED
    BY <2>4, <2>5 DEF Service!ServiceNext
<1>4. CASE CommitFails
  BY <1>4 DEF CommitFails, agentVars, timerVars, Service!serviceVars
<1>5. CASE AgentStep
  BY <1>5, AgentServes DEF AgentStep, AgentAction, transferVars
<1>6. CASE AgentDies
  BY <1>6, AgentServes DEF AgentDies, AgentAction
<1>7. CASE IpmidDies
  BY <1>7 DEF IpmidDies, agentVars, timerVars, Service!serviceVars
<1>8. CASE UNCHANGED sysVars
  BY <1>8 DEF sysVars, agentVars, timerVars, transferVars, Service!serviceVars
<1>. QED
  BY <1>1, <1>2, <1>3, <1>4, <1>5, <1>6, <1>7, <1>8 DEF TransferNext

\* The blob handler, the file, the D-Bus call and the agent, with the deaths of both
\* processes, implement the service that TableService specifies.
THEOREM TransferImplementsService == TransferSpec => ServiceImplemented
  BY ServiceStarts, TransferServes, TransferInvInit, TransferInvStep, PTL
     DEF TransferSpec, ServiceImplemented, Service!ServiceSpec

\* The promises of the service are invariants of it.
LEMMA ServicePromises ==
    Service!ServiceSpec => [](Service!CommitStands /\ Service!ShownOrOwed)
<1>. DEFINE Promise == Service!CommitStands /\ Service!ShownOrOwed
<1>1. Service!ServiceInit => Promise
  BY AgentAssumption DEF Service!ServiceInit, Service!CommitStands, Service!ShownOrOwed
<1>2. Promise /\ [Service!ServiceNext]_(Service!serviceVars) => Promise'
  BY DEF Service!ServiceNext, Service!serviceVars, Service!Begin, Service!Commit,
         Service!TakeUp, Service!Show, Service!Postpone, Service!StartAgain,
         Service!Respects, Service!CommitStands, Service!ShownOrOwed
<1>. QED
  BY <1>1, <1>2, PTL DEF Service!ServiceSpec

\* The composition inherits them: whatever ipmid does to the file and however the two
\* processes die, a table that the agent has accepted is on D-Bus or about to be.
THEOREM TransferPublicationNotLost == TransferSpec => []NoLostPublication
<1>1. Service!ShownOrOwed => NoLostPublication
  BY DEF Service!ShownOrOwed, NoLostPublication, Outdated
<1>. QED
  BY <1>1, ServicePromises, TransferImplementsService, PTL DEF ServiceImplemented
=============================================================================
