------------------------------ MODULE Downloads ------------------------------
(***************************************************************************)
(* One download_file call: the sender process on the remote machine, which   *)
(* looks at the path on its own and knows nothing of the server's locks, the *)
(* pipe between the two, receive_stream, the local install and the record on *)
(* the server.  The remote file may change at any time; another program may  *)
(* create the local target.                                                  *)
(***************************************************************************)
EXTENDS RemoteFile, FiniteSets

CONSTANTS
    PipeCap,     \* items the pipe holds
    MaxFaults,   \* bound: failing calls, a corrupted byte, a broken link
    NoLocal, Theirs,   \* the local target is absent, or another program's file
    Garbled      \* a corrupted byte

ASSUME DownloadAssumption ==
    /\ PipeCap \in Nat \ {0} /\ MaxFaults \in Nat
    /\ NoLocal # Theirs /\ {NoLocal, Theirs} \cap {"ours"} = {}

VARIABLES
    call,      \* download_file: where it is, overwrite, what receive_stream has
    sender,    \* run_transfer_send: where it is, its look at the size, its open
               \* file, what it has read (ghosts: what the file held then, and
               \* whether it may have seen a change)
    pipe,      \* header, bytes and trailer on their way
    local,     \* the local target
    recorded,  \* the server's log has the download
    faults     \* faults left

downloadVars == <<call, sender, pipe, local, recorded, faults>>

NotCalled == [at |-> "idle", overwrite |-> FALSE, size |-> 0, got |-> <<>>, received |-> "none"]
NotStarted == [at |-> "none", size |-> 0, file |-> NoFile, version |-> <<>>,
               read |-> <<>>, raced |-> FALSE]

Receiving == {"header", "bytes", "trailer"}
Returned == call.at \in {"ok", "error", "unrecorded"}
Exited == sender.at \in {"done", "failed"}

DownloadInit ==
    /\ call = NotCalled /\ sender = NotStarted /\ pipe = <<>>
    /\ local \in {NoLocal, Theirs} /\ recorded = FALSE /\ faults = MaxFaults

Fault == faults > 0 /\ faults' = faults - 1
Fails == call' = [call EXCEPT !.at = "error"]

-----------------------------------------------------------------------------
(* download_file up to the sender's start.                                   *)

StartDownload(overwrite) ==
    /\ call.at = "idle"
    /\ \/ /\ local # NoLocal /\ ~overwrite
          /\ call' = [call EXCEPT !.at = "error", !.overwrite = overwrite]
       \/ /\ local = NoLocal \/ overwrite
          /\ call' = [call EXCEPT !.at = "spawn", !.overwrite = overwrite]
    /\ UNCHANGED <<sender, pipe, local, recorded, faults>>

SpawnSender ==
    /\ call.at = "spawn"
    /\ call' = [call EXCEPT !.at = "header"]
    /\ sender' = [sender EXCEPT !.at = "stat"]
    /\ UNCHANGED <<pipe, local, recorded, faults>>

(* The parent is missing, the target is a directory, the temp file cannot be  *)
(* created or the process cannot be started.                                 *)
SpawnFails ==
    /\ call.at = "spawn"
    /\ Fault
    /\ Fails
    /\ UNCHANGED <<sender, pipe, local, recorded>>

-----------------------------------------------------------------------------
(* run_transfer_send                                                         *)

SenderStat ==
    /\ sender.at = "stat"
    /\ IF name = NoFile
         THEN sender' = [sender EXCEPT !.at = "failed"]
         ELSE sender' = [sender EXCEPT !.at = "open", !.size = Len(inode[name])]
    /\ UNCHANGED <<call, pipe, local, recorded, faults>>

SenderOpen ==
    /\ sender.at = "open"
    /\ IF name = NoFile
         THEN sender' = [sender EXCEPT !.at = "failed"]
         ELSE sender' = [sender EXCEPT !.at = "header", !.file = name, !.version = inode[name]]
    /\ UNCHANGED <<call, pipe, local, recorded, faults>>

(* Mutant of Room: the pipe takes everything.                                *)
RoomAlways == TRUE
Room == Len(pipe) < PipeCap
Put(item) == Room /\ pipe' = Append(pipe, item)

SendHeader ==
    /\ sender.at = "header"
    /\ Put([kind |-> "size", value |-> sender.size])
    /\ sender' = [sender EXCEPT !.at = "bytes"]
    /\ UNCHANGED <<call, local, recorded, faults>>

(* Mutant of Source: every read opens the path again.                        *)
SourceByName == IF name = NoFile THEN <<>> ELSE inode[name]
(* What a read of the open file sees.                                        *)
Source == inode[sender.file]

SendByte ==
    /\ sender.at = "bytes" /\ Len(sender.read) < sender.size
    /\ Len(sender.read) < Len(Source)
    /\ LET byte == Source[Len(sender.read) + 1]
       IN  /\ Put([kind |-> "byte", value |-> byte])
           /\ sender' = [sender EXCEPT !.read = Append(@, byte)]
    /\ UNCHANGED <<call, local, recorded, faults>>

Shrank ==
    /\ sender.at = "bytes" /\ Len(sender.read) < sender.size
    /\ Len(sender.read) >= Len(Source)
    /\ sender' = [sender EXCEPT !.at = "failed"]
    /\ UNCHANGED <<call, pipe, local, recorded, faults>>

SendTrailer ==
    /\ sender.at = "bytes" /\ Len(sender.read) = sender.size
    /\ Put([kind |-> "sum", value |-> sender.read])
    /\ sender' = [sender EXCEPT !.at = "done"]
    /\ UNCHANGED <<call, local, recorded, faults>>

-----------------------------------------------------------------------------
(* The link (external).                                                      *)

Corrupt ==
    /\ pipe # <<>> /\ Head(pipe).kind = "byte"
    /\ Fault
    /\ pipe' = [pipe EXCEPT ![1].value = Garbled]
    /\ UNCHANGED <<call, sender, local, recorded>>

(* ssh exits with an error, also after the last byte; what has arrived can   *)
(* still be read.                                                            *)
LinkBreaks ==
    /\ call.at \in Receiving \union {"wait"} /\ sender.at # "failed"
    /\ Fault
    /\ sender' = [sender EXCEPT !.at = "failed"]
    /\ UNCHANGED <<call, pipe, local, recorded>>

-----------------------------------------------------------------------------
(* receive_stream                                                            *)

Take(kind) == pipe # <<>> /\ Head(pipe).kind = kind /\ pipe' = Tail(pipe)
EndReceive(r) == call' = [call EXCEPT !.at = "wait", !.received = r]

ReceiveHeader ==
    /\ call.at = "header"
    /\ Take("size")
    /\ call' = [call EXCEPT !.at = IF Head(pipe).value = 0 THEN "trailer" ELSE "bytes",
                            !.size = Head(pipe).value]
    /\ UNCHANGED <<sender, local, recorded, faults>>

ReceiveByte ==
    /\ call.at = "bytes"
    /\ Take("byte")
    /\ call' = [call EXCEPT !.at = IF Len(call.got) + 1 = call.size THEN "trailer" ELSE "bytes",
                            !.got = Append(@, Head(pipe).value)]
    /\ UNCHANGED <<sender, local, recorded, faults>>

(* The byte cannot be written to the local temp file.                        *)
ReceiveByteFails ==
    /\ call.at = "bytes"
    /\ Take("byte")
    /\ Fault
    /\ EndReceive("nospace")
    /\ UNCHANGED <<sender, local, recorded>>

(* Mutant of Verified: the size is enough.                                   *)
VerifiedSize(sum) == Len(sum) = Len(call.got)
Verified(sum) == sum = call.got

ReceiveTrailer ==
    /\ call.at = "trailer"
    /\ Take("sum")
    /\ EndReceive(IF Verified(Head(pipe).value) THEN "verified" ELSE "mismatch")
    /\ UNCHANGED <<sender, local, recorded, faults>>

(* Mutant of StreamEnds: the end of the stream is noticed in lines only.     *)
StreamEndsInLine == call.at \in {"header", "trailer"} /\ pipe = <<>> /\ Exited
StreamEnds == call.at \in Receiving /\ pipe = <<>> /\ Exited
ReceiveEof ==
    /\ StreamEnds
    /\ EndReceive("short")
    /\ UNCHANGED <<sender, pipe, local, recorded, faults>>

-----------------------------------------------------------------------------
(* download_file after the stream.                                           *)

(* child.wait(), whatever receive_stream returned.                           *)
WaitSender ==
    /\ call.at = "wait" /\ Exited
    /\ IF call.received = "verified" /\ sender.at = "done"
         THEN call' = [call EXCEPT !.at = "sync"]
         ELSE Fails
    /\ UNCHANGED <<sender, pipe, local, recorded, faults>>

Sync ==
    /\ call.at = "sync"
    /\ call' = [call EXCEPT !.at = "install"]
    /\ UNCHANGED <<sender, pipe, local, recorded, faults>>

(* sync_all, the rename or the link fails.                                   *)
LocalFails ==
    /\ call.at \in {"sync", "install"}
    /\ Fault
    /\ Fails
    /\ UNCHANGED <<sender, pipe, local, recorded>>

(* Mutant of MayInstall: persist, whatever overwrite says.                   *)
MayInstallAlways == TRUE
(* persist replaces the target, persist_noclobber does not.                  *)
MayInstall == call.overwrite \/ local = NoLocal

InstallLocal ==
    /\ call.at = "install" /\ MayInstall
    /\ local' = "ours"
    /\ call' = [call EXCEPT !.at = "record"]
    /\ UNCHANGED <<sender, pipe, recorded, faults>>

(* Mutant of InstallRefused: goes on to the record.                          *)
InstallRefusedQuietly ==
    /\ call.at = "install" /\ ~MayInstall
    /\ call' = [call EXCEPT !.at = "record"]
    /\ UNCHANGED <<sender, pipe, local, recorded, faults>>
InstallRefused ==
    /\ call.at = "install" /\ ~MayInstall
    /\ Fails
    /\ UNCHANGED <<sender, pipe, local, recorded, faults>>

(* download_record on the server: one append under the write guard.          *)
RecordDownload ==
    /\ call.at = "record"
    /\ recorded' = TRUE
    /\ call' = [call EXCEPT !.at = "ok"]
    /\ UNCHANGED <<sender, pipe, local, faults>>

(* The request, the append or the answer fails.                              *)
RecordFails ==
    /\ call.at = "record"
    /\ Fault
    /\ recorded' \in BOOLEAN
    /\ call' = [call EXCEPT !.at = "unrecorded"]
    /\ UNCHANGED <<sender, pipe, local>>

-----------------------------------------------------------------------------
(* Others (external).                                                        *)

(* The local target appears while the download runs.                         *)
LocalAppears ==
    /\ call.at # "idle" /\ ~Returned
    /\ local = NoLocal
    /\ Changing
    /\ local' = Theirs
    /\ UNCHANGED <<name, inode, call, sender, pipe, recorded, faults>>

(* What a change of the remote file means for the sender: between its look at *)
(* the size and its open, or in the file it is reading, the change is seen.   *)
Noticed(inPlace) ==
    sender' = [sender EXCEPT !.raced = @ \/ sender.at = "open"
        \/ (inPlace /\ sender.at \in {"header", "bytes"} /\ sender.file = name)]

ChangeRemote ==
    /\ \/ \E c \in Contents : Install(c) /\ Noticed(FALSE)
       \/ \E c \in Contents : WriteInPlace(c) /\ Noticed(TRUE)
       \/ Unlink /\ Noticed(FALSE)
    /\ UNCHANGED <<call, pipe, local, recorded, faults>>

SenderStep ==
    SenderStat \/ SenderOpen \/ SendHeader \/ SendByte \/ Shrank \/ SendTrailer
CallStep ==
    \/ SpawnSender \/ ReceiveHeader \/ ReceiveByte \/ ReceiveTrailer \/ ReceiveEof
    \/ WaitSender \/ Sync \/ InstallLocal \/ InstallRefused \/ RecordDownload
FaultStep ==
    \/ SpawnFails \/ Corrupt \/ LinkBreaks \/ ReceiveByteFails \/ LocalFails \/ RecordFails

(* A download on its own.  (MCReading has it beside the other readers.)       *)
DownloadNext ==
    \/ /\ (\E o \in BOOLEAN : StartDownload(o)) \/ SenderStep \/ CallStep \/ FaultStep
       /\ UNCHANGED fileVars
    \/ ChangeRemote \/ LocalAppears

DownloadSpec ==
    FileInit /\ DownloadInit /\ [][DownloadNext]_<<downloadVars, fileVars>>

DownloadTypeOK ==
    /\ call.at \in Receiving \union {"idle", "spawn", "wait", "sync", "install", "record",
                                     "ok", "error", "unrecorded"}
    /\ call.received \in {"none", "verified", "mismatch", "short", "nospace"}
    /\ Len(call.got) <= call.size
    /\ sender.at \in {"none", "stat", "open", "header", "bytes", "done", "failed"}
    /\ Len(sender.read) <= sender.size
    /\ Len(pipe) <= PipeCap
    /\ local \in {NoLocal, Theirs, "ours"} /\ recorded \in BOOLEAN /\ faults \in 0..MaxFaults

-----------------------------------------------------------------------------
Installed == local = "ours"

(* README "Downloads verify the sender's declared size and hash locally       *)
(* before installing": what is installed is what the sender read, whole, from *)
(* a sender that ended well, whatever happened to the stream.                *)
VerifiedInstall ==
    Installed => /\ call.got = sender.read /\ Len(call.got) = sender.size
                 /\ sender.at = "done"

(* A download is one version of the remote file, the one the path named when  *)
(* the sender opened it, however often the file is replaced meanwhile.  Two   *)
(* windows are left: the file is replaced between the sender's stat and its   *)
(* open, or somebody writes into the open file.                              *)
Faithful == Installed /\ ~sender.raced => call.got = sender.version

(* README "Existing destinations are refused unless overwrite=true", also a   *)
(* local target that appears while the download runs.                        *)
NoClobberLocal ==
    [][local # NoLocal /\ local' # local => call.overwrite]_<<downloadVars, fileVars>>

(* README "a failed or disconnected transfer leaves the destination absent    *)
(* (or untouched)": a plain error means nothing was installed or recorded, a  *)
(* failed record says that the file is there, a success is both.             *)
ReportsTrue ==
    /\ call.at = "error" => ~Installed /\ ~recorded
    /\ call.at = "unrecorded" => Installed
    /\ call.at = "ok" => Installed /\ recorded
    /\ recorded => Installed

(* What a download installs, and what it says of it, is right.               *)
DownloadSound == DownloadTypeOK /\ VerifiedInstall /\ Faithful /\ ReportsTrue

(* download_file returns, whatever breaks and whatever the sender finds -     *)
(* unless the local disk fails: then it waits for a sender that may be        *)
(* waiting for room in the pipe.                                             *)
DownloadReturns == []<>(call.at = "idle" \/ Returned \/ call.received = "nospace")
=============================================================================
