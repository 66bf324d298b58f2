---------------------------- MODULE SmbiosTransfer ----------------------------
(***************************************************************************)
(* The two processes together: ipmid with the blob handler, which writes   *)
(* the file and calls AgentSynchronizeData, and smbiosmdrv2app, which      *)
(* serves the call, reads the file and may truncate it.  They share the    *)
(* file and the D-Bus call.  Each may die and be restarted at any point;   *)
(* the call may time out before or after it was served, and one that timed *)
(* out is still served some time later, as any caller's is.                *)
(*                                                                         *)
(* SendDirectoryInformation and SendDataInformation, which touch neither   *)
(* the file nor the timer, and calls with an index outside dir[] are left  *)
(* to Mdrv2Agent.                                                          *)
(***************************************************************************)
EXTENDS BlobHandler, Mdrv2Agent

VARIABLES
    call,          \* the agent's answer to the call commit waits for
    durable        \* history: the file that the last commit reported to have
                   \* stored; NoFile when there is none or a new commit began

transferVars == <<call, durable>>
sysVars == <<file, blobVars, agentVars, transferVars>>

TransferTypeOK ==
    /\ BlobTypeOK
    /\ TypeOK
    /\ call \in {"none", "accepted", "refused"}
    /\ durable \in File

TransferInit ==
    /\ BlobInit
    /\ Init
    /\ call = "none"
    /\ durable = NoFile

-----------------------------------------------------------------------------
\* ipmid, up to the D-Bus call.  A commit that opens the file truncates it, and with
\* it what an earlier commit stored.
IpmidStep ==
    /\ BlobRequest \/ CommitProgress
    /\ durable' = IF phase' = "writing" THEN NoFile ELSE durable
    /\ UNCHANGED <<agentVars, call>>

\* The agent takes the call of the waiting commit from its queue and answers.
ServeCall ==
    /\ phase = "syncing"
    /\ call = "none"
    /\ AgentSynchronizeData
    /\ call' = IF Accepts(file) THEN "accepted" ELSE "refused"
    /\ UNCHANGED <<blobVars, durable>>

\* commit gets the answer true, and reports the blob as committed.
CommitSucceeds ==
    /\ call = "accepted"
    /\ SyncReturns(TRUE)
    /\ durable' = WrittenFile(Len(buffer) + 1)
    /\ call' = "none"
    /\ UNCHANGED agentVars

\* commit gets the answer false or an error, or waits no longer.
CommitFails ==
    /\ SyncReturns(FALSE)
    /\ call' = "none"
    /\ UNCHANGED <<agentVars, durable>>

\* The agent's own steps and the calls of others, a late call of ipmid included.
AgentStep ==
    /\ \/ AgentSynchronizeData
       \/ InterfacesAdded
       \/ \E i \in DirIndex, size \in Sizes : SynchronizeDirectoryCommonData(i, size)
       \/ TimerStep
    /\ UNCHANGED <<blobVars, transferVars>>

\* A call the agent has not answered dies with it.
AgentDies ==
    /\ AgentRestart
    /\ call' = IF phase = "syncing" /\ call = "none" THEN "refused" ELSE call
    /\ UNCHANGED <<blobVars, durable>>

IpmidDies ==
    /\ IpmidRestart
    /\ call' = "none"
    /\ UNCHANGED <<agentVars, durable>>

TransferNext ==
    \/ IpmidStep
    \/ ServeCall
    \/ CommitSucceeds
    \/ CommitFails
    \/ AgentStep
    \/ AgentDies
    \/ IpmidDies

\* As AgentFairness: a wait ends unless the timer is armed again, a queued handler
\* is run.  Nothing is assumed of ipmid, of the host or of the other callers.
TimerStepHere == TimerStep /\ UNCHANGED <<blobVars, transferVars>>

TransferFairness ==
    /\ WF_sysVars(TimerStepHere /\ arming = TRUE)
    /\ WF_sysVars(TimerStepHere /\ arming = FALSE)
    /\ WF_sysVars(TimerStepHere /\ ready # "none")

TransferSpec == TransferInit /\ [][TransferNext]_sysVars

FairTransferSpec == TransferSpec /\ TransferFairness

-----------------------------------------------------------------------------
\* The table of the last commit that was reported as committed, if no commit was
\* begun since and its BIOS version is printable.
Stored == durable # NoFile /\ ReadImage(durable) \notin Broken

\* commit reports success only for a table the agent accepted, and from then on the
\* file and the storage hold all of it, whatever the agent's timers, late or repeated
\* synchronisations, and restarts of either process do, until the next commit.
CommitIsDurable ==
    /\ durable # NoFile => Accepts(durable)
    /\ Stored => file = durable /\ storage = ReadImage(durable)

\* A table that was committed is published in the end, if the timer is eventually
\* left alone.
CommitIsPublished ==
    TimerLeftAlone => <>[](Stored => inventory = ReadImage(durable))

\* The agent deletes a whole table from the file only if that table is the one with
\* the unprintable BIOS version.
OnlyBrokenDeleted ==
    [][/\ UNCHANGED blobVars
       /\ file' # file
       /\ Accepts(file)
       /\ Len(file.data) = file.dataSize
       => ReadImage(file) \in Broken]_sysVars

\* The two processes, the file and the call between them implement the service that
\* TableService describes: a commit stands through everything either process does, and
\* every table that is taken up is shown or still owed.
Service == INSTANCE TableService WITH
    Tables <- Image,
    Good <- Supported,
    Nothing <- << >>,
    ZeroTable <- ZeroImage,
    committed <- IF durable = NoFile THEN << >> ELSE ReadImage(durable),
    held <- storage,
    shown <- inventory,
    owed <- timer # "none" \/ ready # "none"

ServiceImplemented == Service!ServiceSpec
=============================================================================
