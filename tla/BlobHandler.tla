----------------------------- MODULE BlobHandler -----------------------------
(***************************************************************************)
(* SmbiosBlobHandler: the handler ipmid loads for the blob "/smbios".  The *)
(* host opens the blob, writes the table into a staging buffer and commits *)
(* it: the handler rewrites the file in place and makes the blocking D-Bus *)
(* call AgentSynchronizeData.  ipmid is single-threaded: while commit runs *)
(* no other blob operation does, but other processes see every step of it. *)
(* A call that the handler refuses changes nothing and is not a step.      *)
(***************************************************************************)
EXTENDS SmbiosFile

CONSTANTS
    Sessions,      \* session ids handed out by the blob manager
    Chunks,        \* the payloads of a write request
    NoSession      \* blobPtr is null

ASSUME BlobAssumption ==
    /\ NoSession \notin Sessions
    /\ Chunks \subseteq Seq(Byte)

VARIABLES
    sessionId,     \* blobPtr->sessionId, NoSession when blobPtr is null
    state,         \* blobPtr->state: the set of the StateFlags that are set
    buffer,        \* blobPtr->buffer
    phase,         \* where commit is; "idle" when it is not running
    written,       \* commit: 0, or 1 + the number of data bytes after the header
    stamp          \* commit: mdrHdr.timestamp

blobVars == <<sessionId, state, buffer, phase, written, stamp>>
blobHandlerVars == <<file, blobVars>>

StateFlags == {"open_write", "committing", "committed", "commit_error"}

Outcome == {"committing", "committed", "commit_error"}

BlobTypeOK ==
    /\ file \in File
    /\ sessionId \in Sessions \cup {NoSession}
    /\ state \subseteq StateFlags
    /\ buffer \in Seq(Byte)
    /\ phase \in {"idle", "writing", "syncing"}
    /\ written \in Nat
    /\ stamp \in Times

BlobInit ==
    /\ sessionId = NoSession
    /\ state = {}
    /\ buffer = << >>
    /\ phase = "idle"
    /\ written = 0
    /\ stamp = 0

-----------------------------------------------------------------------------
\* The state of a new SmbiosBlob.
OpenState(canWrite) == IF canWrite THEN {"open_write"} ELSE {}

\* open: refused with the read flag and while a blob is open; without the
\* write flag the blob opens all the same, and cannot be written.
Open(s, canWrite) ==
    /\ phase = "idle"
    /\ sessionId = NoSession
    /\ sessionId' = s
    /\ state' = OpenState(canWrite)
    /\ buffer' = << >>
    /\ UNCHANGED <<file, phase, written, stamp>>

\* The write begins and ends within maxBufferSize.
Fits(offset, data) == offset < StorageSize /\ Len(data) <= StorageSize - offset

\* Mutant: the buffer is resized to the end of every write, also of one inside it.
OverwriteResizing(buf, offset, data) ==
    [i \in 1..(offset + Len(data)) |->
        CASE i > offset -> data[i - offset]
          [] i <= offset /\ i > Len(buf) -> 0
          [] OTHER -> buf[i]]

\* The buffer after resize and memcpy: bytes between the old end and offset are 0.
Overwrite(buf, offset, data) ==
    LET end == offset + Len(data)
    IN  [i \in 1..(IF end > Len(buf) THEN end ELSE Len(buf)) |->
            CASE i > offset /\ i <= end -> data[i - offset]
              [] i <= offset /\ i > Len(buf) -> 0
              [] OTHER -> buf[i]]

Write(s, offset, data) ==
    /\ phase = "idle"
    /\ sessionId = s
    /\ "open_write" \in state
    /\ Fits(offset, data)
    /\ buffer' = Overwrite(buffer, offset, data)
    /\ UNCHANGED <<file, sessionId, state, phase, written, stamp>>

\* close, and expire, which calls it.
Close(s) ==
    /\ phase = "idle"
    /\ sessionId = s
    /\ sessionId' = NoSession
    /\ state' = {}
    /\ buffer' = << >>
    /\ UNCHANGED <<file, phase, written, stamp>>

-----------------------------------------------------------------------------
\* commit, up to the truncation of the file.  When the blob is already committing
\* or committed, commit returns true and does nothing, even if it was written since.
CommitGuard(s) ==
    /\ phase = "idle"
    /\ sessionId = s
    /\ state \cap {"committing", "committed"} = {}

\* Mutant: the error of the last commit stays.
KeepCommitError(flags) == flags

ClearCommitError(flags) == flags \ {"commit_error"}

\* The directory cannot be made or the file cannot be opened.
CommitOpenFails(s) ==
    /\ CommitGuard(s)
    /\ state' = ClearCommitError(state) \cup {"commit_error"}
    /\ UNCHANGED <<file, sessionId, buffer, phase, written, stamp>>

CommitOpen(s, time) ==
    /\ CommitGuard(s)
    /\ state' = ClearCommitError(state)
    /\ stamp' = time
    /\ file' = ShortFile
    /\ written' = 0
    /\ phase' = "writing"
    /\ UNCHANGED <<sessionId, buffer>>

\* The file after w steps of the two writes.
WrittenFile(w) ==
    IF w = 0 THEN ShortFile
    ELSE TableFile(1, stamp, Len(buffer), SubSeq(buffer, 1, w - 1))

\* Bytes reach the file in pieces of any size.  When the agent has truncated the
\* file since the last piece, this one lands behind a hole.
CommitFlush(w) ==
    /\ phase = "writing"
    /\ w \in (written + 1)..(Len(buffer) + 1)
    /\ file' = IF written > 0 /\ file # WrittenFile(written)
               THEN HoledFile ELSE WrittenFile(w)
    /\ written' = w
    /\ UNCHANGED <<sessionId, state, buffer, phase, stamp>>

\* commit returns, and its locals are gone.
LeaveCommit == phase' = "idle" /\ written' = 0 /\ stamp' = 0

\* A write or the close throws ofstream::failure (the flash is full, say): what
\* was written so far stays.
CommitWriteFails ==
    /\ phase = "writing"
    /\ state' = state \cup {"commit_error"}
    /\ LeaveCommit
    /\ UNCHANGED <<file, sessionId, buffer>>

\* Mutant: the call goes out once the header is written.
HeaderWritten == written >= 1

AllWritten == written = Len(buffer) + 1

\* The file is closed; the D-Bus call goes out.
CommitCall ==
    /\ phase = "writing"
    /\ AllWritten
    /\ state' = state \cup {"committing"}
    /\ phase' = "syncing"
    /\ UNCHANGED <<file, sessionId, buffer, written, stamp>>

\* syncSmbiosData returns: ok is false for an error or a time-out of the D-Bus call
\* and for a reply that carries false.
SyncReturns(ok) ==
    /\ phase = "syncing"
    /\ state' = (state \ {"committing"})
                    \cup {IF ok THEN "committed" ELSE "commit_error"}
    /\ LeaveCommit
    /\ UNCHANGED <<file, sessionId, buffer>>

\* ipmid dies, anywhere, and is started again: the handler's memory is gone, and
\* whatever commit has done to the file stays.
IpmidRestart ==
    /\ sessionId' = NoSession
    /\ state' = {}
    /\ buffer' = << >>
    /\ LeaveCommit
    /\ UNCHANGED file

-----------------------------------------------------------------------------
\* What the blob manager asks of the handler.
BlobRequest ==
    \E s \in Sessions :
        \/ \E canWrite \in BOOLEAN : Open(s, canWrite)
        \/ \E offset \in 0..StorageSize, data \in Chunks : Write(s, offset, data)
        \/ Close(s)
        \/ CommitOpenFails(s)
        \/ \E time \in Times : CommitOpen(s, time)

\* The steps of a commit that is under way, up to the D-Bus call.
CommitProgress ==
    \/ \E w \in 1..(StorageSize + 1) : CommitFlush(w)
    \/ CommitWriteFails
    \/ CommitCall

\* The handler alone: the D-Bus call returns whatever it likes.
BlobNext ==
    \/ BlobRequest
    \/ CommitProgress
    \/ \E ok \in BOOLEAN : SyncReturns(ok)
    \/ IpmidRestart

BlobSpec == file \in File /\ BlobInit /\ [][BlobNext]_blobHandlerVars

-----------------------------------------------------------------------------
\* The staging buffer never outgrows the agent's storage (maxBufferSize and
\* smbiosTableStorageSize agree), so a table the handler wrote is never refused
\* for its size, and commit's dataSize is what the file will hold.
BufferFits == Len(buffer) <= StorageSize

\* stat reports one outcome at most: a blob is never both committed and in error,
\* whatever sequence of failed commits, retries and writes led here, and it is
\* committing exactly while the D-Bus call is out.
OneOutcome ==
    /\ \A f, g \in state \cap Outcome : f = g
    /\ "committing" \in state <=> phase = "syncing"

\* The agent is only called when the file is complete: header, then every byte of
\* the buffer.  (The agent may have truncated it since; see SmbiosTransfer.)
CalledWithWholeFile == phase = "syncing" => file = WrittenFile(Len(buffer) + 1)
=============================================================================
