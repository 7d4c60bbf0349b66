---------------------------- MODULE ReadingProofs ----------------------------
(***************************************************************************)
(* What a download installs and says is right (DownloadSound), it replaces  *)
(* nothing it was not allowed to (NoClobberLocal), and the pages of a read   *)
(* or a listing fit together (PagesSound), for every content, directory,    *)
(* pipe, offset, limit, and number of changes and faults.                   *)
(***************************************************************************)
EXTENDS Downloads, Paging, SequenceTheorems, FiniteSetTheorems, NaturalsInduction,
        WellFoundedInduction, TLAPS

Data == Byte \cup {Garbled}

Calls == [at : Receiving \cup {"idle", "spawn", "wait", "sync", "install", "record",
                               "ok", "error", "unrecorded"},
          overwrite : BOOLEAN, size : Nat, got : Seq(Data),
          received : {"none", "verified", "mismatch", "short", "nospace"}]
Senders == [at : {"none", "stat", "open", "header", "bytes", "done", "failed"},
            size : Nat, file : Inodes \cup {NoFile}, version : Seq(Data),
            read : Seq(Data), raced : BOOLEAN]
Items == [kind : {"size"}, value : Nat] \cup [kind : {"byte"}, value : Data]
         \cup [kind : {"sum"}, value : Seq(Data)]

Types ==
    /\ FileTypeOK
    /\ call \in Calls /\ sender \in Senders /\ pipe \in Seq(Items) /\ Len(pipe) <= PipeCap
    /\ local \in {NoLocal, Theirs, "ours"} /\ recorded \in BOOLEAN /\ faults \in 0..MaxFaults

(* A sum on its way is the sum of all that was read, and the last item.     *)
Whole == Len(sender.read) = sender.size /\ sender.at \in {"done", "failed"}
PipePart == \A k \in 1..Len(pipe) :
    pipe[k].kind = "sum" => pipe[k].value = sender.read /\ Whole

(* Where the call is, and what has come of it.                              *)
Placing == {"record", "ok", "unrecorded"}
CallPart ==
    /\ call.at \in {"idle", "spawn"} => sender.at = "none"
    /\ call.at \in {"idle", "spawn", "header"} => call.got = <<>>
    /\ call.at \in Receiving \cup {"idle", "spawn"} => call.received = "none"
    /\ Len(call.got) <= call.size
    /\ call.at = "bytes" => Len(call.got) < call.size
    /\ call.received = "verified" => call.got = sender.read /\ Whole
    /\ call.at \in Placing \cup {"sync", "install"} =>
           call.received = "verified" /\ sender.at = "done"
    /\ local = "ours" <=> call.at \in Placing
    /\ recorded => call.at \in {"ok", "unrecorded"}
    /\ call.at = "ok" => recorded

(* What the sender has read, compared with the version it opened.           *)
SenderPart ==
    /\ name <= changes + 1 /\ sender.file <= changes + 1
    /\ Len(sender.read) <= sender.size
    /\ sender.at \in {"none", "stat", "open", "header"} => sender.read = <<>>
    /\ sender.at \in {"header", "bytes"} => sender.file \in Inodes
    /\ ~sender.raced =>
           /\ sender.at = "open" => name \in Inodes /\ sender.size = Len(inode[name])
           /\ sender.at \in {"header", "bytes"} =>
                  /\ inode[sender.file] = sender.version /\ sender.size = Len(sender.version)
                  /\ \A k \in 1..Len(sender.read) : sender.read[k] = sender.version[k]
           /\ sender.at = "done" => sender.read = sender.version

DownloadInv == Types /\ PipePart /\ CallPart /\ SenderPart


-----------------------------------------------------------------------------
(* Sequences.                                                               *)

(* One more element.                                                        *)
LEMMA Appended ==
  ASSUME NEW S, NEW s \in Seq(S), NEW x \in S
  PROVE  /\ Append(s, x) \in Seq(S) /\ Len(Append(s, x)) = Len(s) + 1
         /\ \A k \in 1..Len(s) : Append(s, x)[k] = s[k]
         /\ Append(s, x)[Len(s) + 1] = x
  OBVIOUS

(* One element less.                                                        *)
LEMMA Tailed ==
  ASSUME NEW S, NEW s \in Seq(S), s # <<>>
  PROVE  /\ Head(s) = s[1] /\ Head(s) \in S /\ 1 \in 1..Len(s)
         /\ Tail(s) \in Seq(S) /\ Len(Tail(s)) = Len(s) - 1 /\ Len(s) \in Nat
         /\ \A k \in 1..Len(Tail(s)) : k + 1 \in 1..Len(s) /\ Tail(s)[k] = s[k + 1]
  OBVIOUS

(* What the assumptions give.                                               *)
LEMMA Known ==
  /\ Contents \subseteq Seq(Data) /\ PipeCap \in Nat \ {0} /\ MaxFaults \in Nat
  /\ MaxChanges \in Nat /\ NoFile \notin Inodes /\ Inodes \subseteq Nat
  /\ NoLocal # "ours" /\ Theirs # "ours" /\ NoLocal # Theirs
<1>1. ASSUME NEW c \in Contents PROVE c \in Seq(Data)
  <2>1. c \in Seq(Byte)
    BY FileAssumption DEF FileAssumption
  <2>2. Byte \subseteq Data
    BY DEF Data
  <2> HIDE DEF Data, Byte
  <2> QED  BY ONLY <2>1, <2>2, SeqMonotonic
<1>2. MaxChanges \in Nat /\ NoFile \notin Inodes /\ Inodes \subseteq Nat
  BY FileAssumption DEF FileAssumption, NoFile, Inodes
<1>3. /\ PipeCap \in Nat \ {0} /\ MaxFaults \in Nat
      /\ NoLocal # "ours" /\ Theirs # "ours" /\ NoLocal # Theirs
  BY DownloadAssumption DEF DownloadAssumption
<1> QED  BY <1>1, <1>2, <1>3

-----------------------------------------------------------------------------
(* Taking from the pipe and putting into it.                                *)
LEMMA TakePipe ==
  ASSUME Types, PipePart, NEW kind, Take(kind), sender' = sender
  PROVE  /\ pipe' \in Seq(Items) /\ Len(pipe') <= PipeCap /\ PipePart'
         /\ Head(pipe) \in Items /\ Head(pipe).kind = kind
         /\ kind = "sum" => Head(pipe).value = sender.read /\ Whole
<1>1. pipe \in Seq(Items) /\ pipe # <<>> /\ Head(pipe).kind = kind /\ pipe' = Tail(pipe)
  BY DEF Types, Take
<1>2. /\ Head(pipe) = pipe[1] /\ Head(pipe) \in Items /\ 1 \in 1..Len(pipe)
      /\ pipe' \in Seq(Items) /\ Len(pipe') = Len(pipe) - 1 /\ Len(pipe) \in Nat
      /\ \A k \in 1..Len(pipe') : k + 1 \in 1..Len(pipe) /\ pipe'[k] = pipe[k + 1]
  BY <1>1, Tailed
<1>3. PipePart'
  BY <1>2 DEF PipePart, Whole
<1>4. Len(pipe') <= PipeCap
  BY <1>2, Known DEF Types
<1> QED  BY <1>1, <1>2, <1>3, <1>4 DEF PipePart

(* Putting an item: a sum only once it is whole.                            *)
LEMMA PutPipe ==
  ASSUME Types, NEW item \in Items, Put(item),
         \A k \in 1..Len(pipe) : pipe[k].kind = "sum" => pipe[k].value = sender'.read /\ Whole',
         item.kind = "sum" => item.value = sender'.read /\ Whole'
  PROVE  pipe' \in Seq(Items) /\ Len(pipe') <= PipeCap /\ PipePart'
<1>1. pipe \in Seq(Items) /\ Len(pipe) < PipeCap /\ pipe' = Append(pipe, item)
  BY DEF Types, Put, Room
<1>2. /\ pipe' \in Seq(Items) /\ Len(pipe') = Len(pipe) + 1 /\ Len(pipe) \in Nat
      /\ \A k \in 1..Len(pipe) : pipe'[k] = pipe[k]
      /\ pipe'[Len(pipe) + 1] = item
  BY <1>1, Appended
<1>3. \A k \in 1..Len(pipe') : k \in 1..Len(pipe) \/ k = Len(pipe) + 1
  BY <1>2
<1>4. PipePart'
  <2> SUFFICES ASSUME NEW k \in 1..Len(pipe'), pipe'[k].kind = "sum"
               PROVE  pipe'[k].value = sender'.read /\ Whole'
    BY DEF PipePart
  <2> QED  BY <1>2, <1>3
<1>5. Len(pipe') <= PipeCap
  BY <1>1, <1>2, Known
<1> QED  BY <1>2, <1>4, <1>5

(* A sender that has not ended has not sent its sum.                        *)
LEMMA NoSumYet ==
  ASSUME PipePart, CallPart, sender.at \notin {"done", "failed"}
  PROVE  /\ \A k \in 1..Len(pipe) : pipe[k].kind # "sum"
         /\ call.received # "verified" /\ call.at \notin Placing \cup {"sync", "install"}
  BY DEF PipePart, CallPart, Whole


-----------------------------------------------------------------------------
(* The steps of the sender.                                                 *)

(* Before it puts anything into the pipe.                                   *)
LEMMA SenderLooks ==
  ASSUME DownloadInv, SenderStat \/ SenderOpen \/ Shrank, UNCHANGED fileVars
  PROVE  DownloadInv'
<1> USE DEF DownloadInv, fileVars
<1>1. UNCHANGED <<call, pipe, local, recorded, faults, name, inode, changes>>
      /\ sender.at \in {"stat", "open", "bytes"}
  BY DEF SenderStat, SenderOpen, Shrank
<1>2. /\ \A k \in 1..Len(pipe) : pipe[k].kind # "sum"
      /\ call.received # "verified" /\ call.at \notin Placing \cup {"sync", "install"}
  BY <1>1, NoSumYet
<1>3. name # NoFile => name \in Inodes /\ inode[name] \in Seq(Data) /\ Len(inode[name]) \in Nat
  BY Known DEF Types, FileTypeOK
<1>4. sender' \in Senders /\ SenderPart'
  <2>1. CASE SenderStat
    <3>1. CASE name = NoFile
      BY <1>1, <2>1, <3>1 DEF SenderStat, Types, Senders, SenderPart
    <3>2. CASE name # NoFile
      <4>1. PICK size \in Nat : size = Len(inode[name])
        BY <1>3, <3>2
      <4>2. sender.at = "stat" /\ sender' = [sender EXCEPT !.at = "open", !.size = size]
        BY <2>1, <3>2, <4>1 DEF SenderStat
      <4>3. /\ sender' \in Senders /\ sender'.at = "open" /\ sender'.size = size
            /\ sender'.read = sender.read /\ sender'.file = sender.file
        BY <4>2 DEF Types, Senders
      <4>4. sender.read = <<>> /\ Len(sender.read) = 0
        BY <4>2 DEF SenderPart
      <4> QED  BY <1>1, <1>3, <3>2, <4>1, <4>3, <4>4 DEF SenderPart
    <3> QED  BY <3>1, <3>2
  <2>2. CASE SenderOpen
    <3>1. CASE name = NoFile
      BY <1>1, <2>2, <3>1 DEF SenderOpen, Types, Senders, SenderPart
    <3>2. CASE name # NoFile
      <4>1. PICK version \in Seq(Data) : version = inode[name]
        BY <1>3, <3>2
      <4>2. /\ sender.at = "open"
            /\ sender' = [sender EXCEPT !.at = "header", !.file = name, !.version = version]
        BY <2>2, <3>2, <4>1 DEF SenderOpen
      <4>3. /\ sender' \in Senders /\ sender'.at = "header" /\ sender'.size = sender.size
            /\ sender'.read = sender.read /\ sender'.file = name
            /\ sender'.version = version /\ sender'.raced = sender.raced
        BY <1>3, <3>2, <4>2 DEF Types, Senders
      <4>4. sender.read = <<>> /\ Len(sender.read) = 0
        BY <4>2 DEF SenderPart
      <4> QED  BY <1>1, <1>3, <3>2, <4>1, <4>2, <4>3, <4>4 DEF SenderPart
    <3> QED  BY <3>1, <3>2
  <2>3. CASE Shrank
    BY <1>1, <2>3 DEF Shrank, Types, Senders, SenderPart
  <2> QED  BY <2>1, <2>2, <2>3
<1>5. PipePart' /\ CallPart'
  BY <1>1, <1>2 DEF PipePart, CallPart
<1> QED  BY <1>1, <1>4, <1>5 DEF Types, FileTypeOK

(* The header.                                                              *)
LEMMA HeaderSent ==
  ASSUME DownloadInv, SendHeader, UNCHANGED fileVars
  PROVE  DownloadInv'
<1> USE DEF DownloadInv, fileVars
<1>1. /\ UNCHANGED <<call, local, recorded, faults, name, inode, changes>>
      /\ sender.at = "header" /\ sender' = [sender EXCEPT !.at = "bytes"]
      /\ Put([kind |-> "size", value |-> sender.size])
  BY DEF SendHeader
<1>2. /\ \A k \in 1..Len(pipe) : pipe[k].kind # "sum"
      /\ call.received # "verified" /\ call.at \notin Placing \cup {"sync", "install"}
  BY <1>1, NoSumYet
<1>3. sender' \in Senders /\ SenderPart'
  BY <1>1 DEF Types, Senders, SenderPart
<1>4. [kind |-> "size", value |-> sender.size] \in Items
  BY DEF Types, Senders, Items
<1>5. pipe' \in Seq(Items) /\ Len(pipe') <= PipeCap /\ PipePart'
  BY <1>1, <1>2, <1>4, PutPipe
<1>6. CallPart'
  BY <1>1, <1>2 DEF CallPart
<1> QED  BY <1>1, <1>3, <1>5, <1>6 DEF Types, FileTypeOK

(* A byte, and what it is of the version opened.                            *)
LEMMA ByteSent ==
  ASSUME DownloadInv, SendByte, UNCHANGED fileVars
  PROVE  DownloadInv'
<1> USE DEF DownloadInv, fileVars
<1>0. PICK byte : byte = Source[Len(sender.read) + 1]
  OBVIOUS
<1>1. /\ UNCHANGED <<call, local, recorded, faults, name, inode, changes>>
      /\ sender.at = "bytes" /\ Len(sender.read) < sender.size
      /\ Len(sender.read) < Len(Source)
      /\ sender' = [sender EXCEPT !.read = Append(sender.read, byte)]
      /\ Put([kind |-> "byte", value |-> byte])
  BY <1>0 DEF SendByte
<1>2. /\ \A k \in 1..Len(pipe) : pipe[k].kind # "sum"
      /\ call.received # "verified" /\ call.at \notin Placing \cup {"sync", "install"}
  BY <1>1, NoSumYet
<1>3. sender \in Senders /\ sender.read \in Seq(Data) /\ Source \in Seq(Data)
  BY <1>1, Known DEF Types, FileTypeOK, Senders, Source, SenderPart
<1>4. byte \in Data
  BY <1>0, <1>1, <1>3
<1>5. PICK read : read = Append(sender.read, byte)
  OBVIOUS
<1>6. /\ read \in Seq(Data) /\ Len(read) = Len(sender.read) + 1 /\ Len(sender.read) \in Nat
      /\ \A k \in 1..Len(sender.read) : read[k] = sender.read[k]
      /\ read[Len(sender.read) + 1] = byte
  BY <1>3, <1>4, <1>5, Appended
<1>7. sender' = [sender EXCEPT !.read = read]
  BY <1>1, <1>5
<1>8. /\ sender' \in Senders /\ sender'.read = read /\ sender'.at = "bytes"
      /\ sender'.size = sender.size /\ sender'.file = sender.file
      /\ sender'.version = sender.version /\ sender'.raced = sender.raced
  BY <1>1, <1>3, <1>6, <1>7 DEF Senders
<1>9. SenderPart'
  <2>1. ~sender.raced => \A k \in 1..Len(read) : read[k] = sender.version[k]
    <3> SUFFICES ASSUME ~sender.raced, NEW k \in 1..Len(read) PROVE read[k] = sender.version[k]
      OBVIOUS
    <3>1. Source = sender.version
      BY <1>1 DEF SenderPart, Source
    <3>2. CASE k = Len(sender.read) + 1
      BY <1>0, <1>6, <3>1, <3>2
    <3>3. CASE k \in 1..Len(sender.read)
      BY <1>1, <1>6, <3>3 DEF SenderPart
    <3> QED  BY <1>6, <3>2, <3>3
  <2>2. Len(read) <= sender.size
    BY <1>1, <1>6, <1>3 DEF Senders
  <2> QED  BY <1>1, <1>8, <2>1, <2>2 DEF SenderPart
<1>10. pipe' \in Seq(Items) /\ Len(pipe') <= PipeCap /\ PipePart'
  <2>1. [kind |-> "byte", value |-> byte] \in Items
    BY <1>4 DEF Items
  <2> QED  BY <1>1, <1>2, <2>1, PutPipe
<1>11. CallPart'
  BY <1>1, <1>2 DEF CallPart
<1> QED  BY <1>1, <1>8, <1>9, <1>10, <1>11 DEF Types, FileTypeOK

(* The trailer: the sum of all that was read.                               *)
LEMMA TrailerSent ==
  ASSUME DownloadInv, SendTrailer, UNCHANGED fileVars
  PROVE  DownloadInv'
<1> USE DEF DownloadInv, fileVars
<1>1. /\ UNCHANGED <<call, local, recorded, faults, name, inode, changes>>
      /\ sender.at = "bytes" /\ sender' = [sender EXCEPT !.at = "done"]
      /\ Len(sender.read) = sender.size
      /\ Put([kind |-> "sum", value |-> sender.read])
  BY DEF SendTrailer
<1>2. /\ \A k \in 1..Len(pipe) : pipe[k].kind # "sum"
      /\ call.received # "verified" /\ call.at \notin Placing \cup {"sync", "install"}
  BY <1>1, NoSumYet
<1>3. /\ sender' \in Senders /\ sender'.at = "done" /\ sender'.read = sender.read
      /\ sender'.size = sender.size /\ sender'.file = sender.file
      /\ sender'.version = sender.version /\ sender'.raced = sender.raced
      /\ sender.read \in Seq(Data) /\ sender.version \in Seq(Data)
  BY <1>1 DEF Types, Senders
<1>4. ~sender.raced => sender.read = sender.version
  <2> SUFFICES ASSUME ~sender.raced PROVE sender.read = sender.version
    OBVIOUS
  <2>1. /\ Len(sender.read) = Len(sender.version)
        /\ \A k \in 1..Len(sender.read) : sender.read[k] = sender.version[k]
    BY <1>1 DEF SenderPart
  <2> QED  BY <1>3, <2>1, SeqEqual
<1>5. SenderPart'
  BY <1>1, <1>3, <1>4 DEF SenderPart
<1>6. pipe' \in Seq(Items) /\ Len(pipe') <= PipeCap /\ PipePart'
  <2>1. [kind |-> "sum", value |-> sender.read] \in Items
    BY <1>3 DEF Items
  <2>2. Whole'
    BY <1>1, <1>3 DEF Whole
  <2> QED  BY <1>1, <1>2, <1>3, <2>1, <2>2, PutPipe
<1>7. CallPart'
  BY <1>1, <1>2 DEF CallPart
<1> QED  BY <1>1, <1>3, <1>5, <1>6, <1>7 DEF Types, FileTypeOK


-----------------------------------------------------------------------------
(* The steps of the call that leave sender and pipe alone.                  *)
LEMMA CallAlone ==
  ASSUME DownloadInv, UNCHANGED <<sender, pipe, name, inode, changes>>,
         call' \in Calls, CallPart',
         local' \in {NoLocal, Theirs, "ours"}, recorded' \in BOOLEAN, faults' \in 0..MaxFaults
  PROVE  DownloadInv'
  BY DEF DownloadInv, Types, FileTypeOK, PipePart, Whole, SenderPart

(* A fault leaves the count in its range.                                   *)
LEMMA FaultTaken ==
  ASSUME faults \in 0..MaxFaults, Fault
  PROVE  faults' \in 0..MaxFaults
  BY Known DEF Fault

(* The steps of download_file itself.                                       *)
LEMMA CallSteps ==
  ASSUME DownloadInv, UNCHANGED fileVars,
         \/ \E o \in BOOLEAN : StartDownload(o)
         \/ ReceiveEof \/ WaitSender \/ Sync \/ InstallLocal \/ InstallRefused
         \/ RecordDownload \/ SpawnFails \/ LocalFails \/ RecordFails
  PROVE  DownloadInv'
<1> USE DEF DownloadInv, fileVars
<1>1. /\ call \in Calls /\ local \in {NoLocal, Theirs, "ours"} /\ recorded \in BOOLEAN
      /\ faults \in 0..MaxFaults /\ CallPart
  BY DEF Types
<1>2. UNCHANGED <<sender, pipe, name, inode, changes>>
  BY DEF StartDownload, ReceiveEof, WaitSender, Sync, InstallLocal, InstallRefused,
         RecordDownload, SpawnFails, LocalFails, RecordFails
<1>3. faults' \in 0..MaxFaults
  BY <1>1, FaultTaken DEF StartDownload, ReceiveEof, WaitSender, Sync, InstallLocal,
     InstallRefused, RecordDownload, SpawnFails, LocalFails, RecordFails
<1>4. ASSUME NEW o \in BOOLEAN, StartDownload(o) PROVE DownloadInv'
  <2>0. PICK at \in {"error", "spawn"} : call' = [call EXCEPT !.at = at, !.overwrite = o]
    BY <1>4 DEF StartDownload
  <2>a. /\ call' \in Calls /\ call'.at = at /\ call'.got = call.got /\ call'.size = call.size
        /\ call'.received = call.received
    BY <1>1, <2>0 DEF Calls, Receiving
  <2>b. call.at = "idle" /\ local' = local /\ recorded' = recorded
    BY <1>4 DEF StartDownload
  <2>1. call' \in Calls /\ CallPart'
    BY <1>1, <1>2, <2>a, <2>b DEF CallPart, Whole, Placing, Receiving
  <2> QED  BY <1>1, <1>2, <1>3, <1>4, <2>1, CallAlone DEF StartDownload
<1>5. CASE ReceiveEof
  <2>1. call' \in Calls /\ CallPart'
    BY <1>1, <1>2, <1>5 DEF ReceiveEof, StreamEnds, EndReceive, Calls, CallPart, Whole, Placing,
                            Receiving
  <2> QED  BY <1>1, <1>2, <1>3, <1>5, <2>1, CallAlone DEF ReceiveEof
<1>6. CASE WaitSender
  <2>1. call' \in Calls /\ CallPart'
    BY <1>1, <1>2, <1>6 DEF WaitSender, Fails, Calls, CallPart, Whole, Placing, Receiving
  <2> QED  BY <1>1, <1>2, <1>3, <1>6, <2>1, CallAlone DEF WaitSender
<1>7. CASE Sync
  <2>1. call' \in Calls /\ CallPart'
    BY <1>1, <1>2, <1>7 DEF Sync, Calls, CallPart, Whole, Placing, Receiving
  <2> QED  BY <1>1, <1>2, <1>3, <1>7, <2>1, CallAlone DEF Sync
<1>8. CASE InstallLocal
  <2>1. call' \in Calls /\ CallPart'
    BY <1>1, <1>2, <1>8 DEF InstallLocal, Calls, CallPart, Whole, Placing, Receiving
  <2> QED  BY <1>1, <1>2, <1>3, <1>8, <2>1, CallAlone DEF InstallLocal
<1>9. CASE InstallRefused \/ SpawnFails \/ LocalFails
  <2>1. call' \in Calls /\ CallPart'
    BY <1>1, <1>2, <1>9 DEF InstallRefused, SpawnFails, LocalFails, Fails, Calls, CallPart,
                            Whole, Placing, Receiving
  <2> QED  BY <1>1, <1>2, <1>3, <1>9, <2>1, CallAlone
           DEF InstallRefused, SpawnFails, LocalFails
<1>10. CASE RecordDownload \/ RecordFails
  <2>1. call' \in Calls /\ CallPart'
    BY <1>1, <1>2, <1>10 DEF RecordDownload, RecordFails, Calls, CallPart, Whole, Placing,
                             Receiving
  <2> QED  BY <1>1, <1>2, <1>3, <1>10, <2>1, CallAlone DEF RecordDownload, RecordFails
<1> QED  BY <1>4, <1>5, <1>6, <1>7, <1>8, <1>9, <1>10

(* receive_stream: what any of its steps does besides its own call.         *)
LEMMA Received ==
  ASSUME DownloadInv, UNCHANGED <<sender, local, recorded, name, inode, changes>>,
         NEW kind, Take(kind), call' \in Calls, CallPart', faults' \in 0..MaxFaults
  PROVE  DownloadInv'
<1> USE DEF DownloadInv
<1>1. pipe' \in Seq(Items) /\ Len(pipe') <= PipeCap /\ PipePart'
  BY TakePipe
<1> QED  BY <1>1 DEF Types, FileTypeOK, SenderPart

(* receive_stream: the header says how much there is to come.               *)
LEMMA HeaderReceived ==
  ASSUME DownloadInv, UNCHANGED fileVars, ReceiveHeader
  PROVE  DownloadInv'
<1> USE DEF DownloadInv, fileVars
<1>1. /\ call \in Calls /\ CallPart /\ faults \in 0..MaxFaults
      /\ UNCHANGED <<sender, local, recorded, faults, name, inode, changes>>
      /\ Take("size") /\ call.at = "header"
  BY DEF Types, ReceiveHeader
<1>2. PICK v : v = Head(pipe).value
  OBVIOUS
<1>3. v \in Nat
  <2>1. Head(pipe) \in Items /\ Head(pipe).kind = "size"
    BY <1>1, TakePipe
  <2> QED  BY <1>2, <2>1 DEF Items
<1>4. PICK at \in {"trailer", "bytes"} :
        /\ call' = [call EXCEPT !.at = at, !.size = v]
        /\ at = "bytes" => v # 0
  BY <1>2 DEF ReceiveHeader
<1>5. /\ call' \in Calls /\ call'.at = at /\ call'.size = v /\ call'.got = call.got
      /\ call'.received = call.received
  BY <1>1, <1>3, <1>4 DEF Calls, Receiving
<1>6. Len(call.got) = 0
  BY <1>1 DEF CallPart
<1>7. CallPart'
  BY <1>1, <1>3, <1>4, <1>5, <1>6 DEF CallPart, Whole, Placing, Receiving
<1> QED  BY <1>1, <1>5, <1>7, Received

(* receive_stream: one more byte, or one that cannot be written.            *)
LEMMA ByteReceived ==
  ASSUME DownloadInv, UNCHANGED fileVars, ReceiveByte \/ ReceiveByteFails
  PROVE  DownloadInv'
<1> USE DEF DownloadInv, fileVars
<1>1. /\ call \in Calls /\ CallPart /\ faults \in 0..MaxFaults
      /\ UNCHANGED <<sender, local, recorded, name, inode, changes>>
      /\ Take("byte") /\ call.at = "bytes"
  BY DEF Types, ReceiveByte, ReceiveByteFails
<1>2. call.got \in Seq(Data) /\ call.size \in Nat /\ call.received = "none"
      /\ Len(call.got) < call.size /\ Len(call.got) \in Nat
  BY <1>1 DEF Calls, CallPart, Receiving
<1>3. CASE ReceiveByte
  <2>1. PICK v : v = Head(pipe).value
    OBVIOUS
  <2>2. v \in Data
    <3>1. Head(pipe) \in Items /\ Head(pipe).kind = "byte"
      BY <1>1, TakePipe
    <3> QED  BY <2>1, <3>1 DEF Items
  <2>3. PICK got : got = Append(call.got, v)
    OBVIOUS
  <2>4. got \in Seq(Data) /\ Len(got) = Len(call.got) + 1
    BY <1>2, <2>2, <2>3, Appended
  <2>5. PICK at \in {"trailer", "bytes"} :
          /\ call' = [call EXCEPT !.at = at, !.got = got]
          /\ at = "bytes" => Len(call.got) + 1 # call.size
    BY <1>3, <2>1, <2>3 DEF ReceiveByte
  <2>6. /\ call' \in Calls /\ call'.at = at /\ call'.size = call.size /\ call'.got = got
        /\ call'.received = "none"
    BY <1>1, <1>2, <2>4, <2>5 DEF Calls, Receiving
  <2>7. CallPart'
    BY <1>1, <1>2, <2>4, <2>5, <2>6 DEF CallPart, Whole, Placing, Receiving
  <2>8. faults' = faults
    BY <1>3 DEF ReceiveByte
  <2> QED  BY <1>1, <2>6, <2>7, <2>8, Received
<1>4. CASE ReceiveByteFails
  <2>1. call' = [call EXCEPT !.at = "wait", !.received = "nospace"] /\ Fault
    BY <1>4 DEF ReceiveByteFails, EndReceive
  <2>2. /\ call' \in Calls /\ call'.at = "wait" /\ call'.size = call.size
        /\ call'.got = call.got /\ call'.received = "nospace"
    BY <1>1, <2>1 DEF Calls, Receiving
  <2>3. CallPart'
    BY <1>1, <1>2, <2>2 DEF CallPart, Whole, Placing, Receiving
  <2>4. faults' \in 0..MaxFaults
    BY <1>1, <2>1, FaultTaken
  <2> QED  BY <1>1, <2>2, <2>3, <2>4, Received
<1> QED  BY <1>3, <1>4

(* receive_stream: the sum, which is that of all the sender read.           *)
LEMMA TrailerReceived ==
  ASSUME DownloadInv, UNCHANGED fileVars, ReceiveTrailer
  PROVE  DownloadInv'
<1> USE DEF DownloadInv, fileVars
<1>1. /\ call \in Calls /\ CallPart /\ faults \in 0..MaxFaults
      /\ UNCHANGED <<sender, local, recorded, faults, name, inode, changes>>
      /\ Take("sum") /\ call.at = "trailer"
  BY DEF Types, ReceiveTrailer
<1>2. Head(pipe).value = sender.read /\ Whole
  BY <1>1, TakePipe
<1>3. PICK r \in {"verified", "mismatch"} :
        /\ call' = [call EXCEPT !.at = "wait", !.received = r]
        /\ r = "verified" => call.got = sender.read
  BY <1>2 DEF ReceiveTrailer, EndReceive, Verified
<1>4. /\ call' \in Calls /\ call'.at = "wait" /\ call'.size = call.size
      /\ call'.got = call.got /\ call'.received = r
  BY <1>1, <1>3 DEF Calls, Receiving
<1>5. CallPart'
  BY <1>1, <1>2, <1>3, <1>4 DEF CallPart, Whole, Placing, Receiving
<1> QED  BY <1>1, <1>4, <1>5, Received


-----------------------------------------------------------------------------
(* The start of the sender, the link and the others.                        *)

(* The sender starts.                                                       *)
LEMMA SenderSpawned ==
  ASSUME DownloadInv, UNCHANGED fileVars, SpawnSender
  PROVE  DownloadInv'
<1> USE DEF DownloadInv, fileVars
<1>1. /\ call \in Calls /\ CallPart /\ sender \in Senders /\ SenderPart /\ PipePart
      /\ UNCHANGED <<pipe, local, recorded, faults, name, inode, changes>>
      /\ call.at = "spawn" /\ call' = [call EXCEPT !.at = "header"]
      /\ sender' = [sender EXCEPT !.at = "stat"]
  BY DEF Types, SpawnSender
<1>2. sender.at = "none"
  BY <1>1 DEF CallPart
<1>3. /\ call' \in Calls /\ call'.at = "header" /\ call'.size = call.size
      /\ call'.got = call.got /\ call'.received = call.received
  BY <1>1 DEF Calls, Receiving
<1>4. /\ sender' \in Senders /\ sender'.at = "stat" /\ sender'.read = sender.read
      /\ sender'.size = sender.size /\ sender'.file = sender.file
  BY <1>1 DEF Senders
<1>5. SenderPart'
  BY <1>1, <1>2, <1>4 DEF SenderPart
<1>6. CallPart'
  BY <1>1, <1>3 DEF CallPart, Placing, Receiving
<1>7. PipePart'
  BY <1>1, <1>2, NoSumYet DEF PipePart
<1> QED  BY <1>1, <1>3, <1>4, <1>5, <1>6, <1>7 DEF Types, FileTypeOK

(* A byte on its way is garbled: it stays a byte.                           *)
LEMMA ByteCorrupted ==
  ASSUME DownloadInv, UNCHANGED fileVars, Corrupt
  PROVE  DownloadInv'
<1> USE DEF DownloadInv, fileVars
<1>1. /\ UNCHANGED <<call, sender, local, recorded, name, inode, changes>>
      /\ pipe \in Seq(Items) /\ pipe # <<>> /\ Head(pipe).kind = "byte" /\ Fault
      /\ pipe' = [pipe EXCEPT ![1].value = Garbled]
  BY DEF Types, Corrupt
<1>2. Head(pipe) = pipe[1] /\ 1 \in 1..Len(pipe) /\ Len(pipe) \in Nat /\ pipe[1] \in Items
  BY <1>1, Tailed
<1>3. PICK item : item = [pipe[1] EXCEPT !.value = Garbled]
  OBVIOUS
<1>4. item \in Items /\ item.kind = "byte"
  <2>1. pipe[1] \in [kind : {"byte"}, value : Data]
    BY <1>1, <1>2 DEF Items
  <2>2. Garbled \in Data
    BY DEF Data
  <2>3. item \in [kind : {"byte"}, value : Data]
    BY <1>3, <2>1, <2>2
  <2> QED  BY <2>3 DEF Items
<1>5. pipe' = [pipe EXCEPT ![1] = item]
  BY <1>1, <1>3
<1>6. /\ pipe' \in Seq(Items) /\ Len(pipe') = Len(pipe)
      /\ \A k \in 1..Len(pipe) : pipe'[k] = IF k = 1 THEN item ELSE pipe[k]
  BY <1>1, <1>2, <1>4, <1>5, ExceptSeq
<1>7. PipePart'
  BY <1>1, <1>4, <1>6 DEF PipePart, Whole
<1>8. faults' \in 0..MaxFaults
  BY <1>1, FaultTaken DEF Types
<1>9. CallPart' /\ SenderPart'
  BY <1>1 DEF CallPart, SenderPart, Whole
<1> QED  BY <1>1, <1>6, <1>7, <1>8, <1>9 DEF Types, FileTypeOK

(* The link breaks: a sum that has left stays whole.                        *)
LEMMA LinkBroken ==
  ASSUME DownloadInv, UNCHANGED fileVars, LinkBreaks
  PROVE  DownloadInv'
<1> USE DEF DownloadInv, fileVars
<1>1. /\ UNCHANGED <<call, pipe, local, recorded, name, inode, changes>>
      /\ call.at \in Receiving \cup {"wait"} /\ sender \in Senders /\ Fault
      /\ sender' = [sender EXCEPT !.at = "failed"]
  BY DEF Types, LinkBreaks
<1>2. /\ sender' \in Senders /\ sender'.at = "failed" /\ sender'.read = sender.read
      /\ sender'.size = sender.size /\ sender'.file = sender.file
  BY <1>1 DEF Senders
<1>3. Whole => Whole'
  BY <1>2 DEF Whole
<1>4. PipePart'
  BY <1>1, <1>2, <1>3 DEF PipePart
<1>5. CallPart'
  BY <1>1, <1>2, <1>3 DEF CallPart, Placing, Receiving
<1>6. SenderPart'
  BY <1>1, <1>2 DEF SenderPart
<1>7. faults' \in 0..MaxFaults
  BY <1>1, FaultTaken DEF Types
<1> QED  BY <1>1, <1>2, <1>4, <1>5, <1>6, <1>7 DEF Types, FileTypeOK

(* What Noticed leaves alone, and what it marks.                            *)
LEMMA Marked ==
  ASSUME DownloadInv, NEW inPlace \in BOOLEAN, Noticed(inPlace),
         UNCHANGED <<call, pipe, local, recorded>>
  PROVE  /\ sender' \in Senders /\ PipePart' /\ CallPart'
         /\ sender'.at = sender.at /\ sender'.read = sender.read
         /\ sender'.size = sender.size /\ sender'.file = sender.file
         /\ sender'.version = sender.version
         /\ ~sender'.raced =>
                /\ ~sender.raced /\ sender.at # "open"
                /\ inPlace /\ sender.at \in {"header", "bytes"} => sender.file # name
<1> USE DEF DownloadInv
<1>1. PICK raced \in BOOLEAN : raced = (sender.raced \/ sender.at = "open"
        \/ (inPlace /\ sender.at \in {"header", "bytes"} /\ sender.file = name))
  OBVIOUS
<1>2. sender \in Senders /\ sender' = [sender EXCEPT !.raced = raced]
  BY <1>1 DEF Noticed, Types
<1>3. /\ sender' \in Senders /\ sender'.raced = raced
      /\ sender'.at = sender.at /\ sender'.read = sender.read
      /\ sender'.size = sender.size /\ sender'.file = sender.file
      /\ sender'.version = sender.version
  BY <1>2 DEF Senders
<1>4. Whole' <=> Whole
  BY <1>3 DEF Whole
<1>5. PipePart' /\ CallPart'
  BY <1>3, <1>4 DEF PipePart, CallPart
<1> QED  BY <1>1, <1>3, <1>5

(* The remote file changes: an open file keeps what it held unless it is     *)
(* written in place, and a new file is not an old one.                      *)
LEMMA RemoteChanged ==
  ASSUME DownloadInv, ChangeRemote
  PROVE  DownloadInv'
<1> USE DEF DownloadInv
<1>1. /\ UNCHANGED <<call, pipe, local, recorded, faults>> /\ Changing
  BY DEF ChangeRemote, Install, WriteInPlace, Unlink
<1>2. changes \in Nat /\ changes' = changes + 1 /\ changes' \in 0..MaxChanges
      /\ changes + 2 \in Inodes /\ inode \in [Inodes -> Contents]
      /\ name \in Inodes \cup {NoFile} /\ sender.file \in Inodes \cup {NoFile}
      /\ sender.file \in Nat /\ name \in Nat /\ name <= changes + 1 /\ sender.file <= changes + 1
  BY <1>1, Known DEF Types, FileTypeOK, Changing, Senders, SenderPart, Inodes, NoFile
<1>3. ASSUME NEW c \in Contents, Install(c), Noticed(FALSE) PROVE DownloadInv'
  <2>1. name' = changes + 2 /\ inode' = [inode EXCEPT ![changes + 2] = c]
    BY <1>3 DEF Install
  <2>2. sender.file # changes + 2
    BY <1>2
  <2>3. FileTypeOK' /\ (sender.file \in Inodes => inode'[sender.file] = inode[sender.file])
    BY <1>2, <2>1, <2>2 DEF FileTypeOK
  <2>4. /\ sender' \in Senders /\ PipePart' /\ CallPart'
        /\ sender'.at = sender.at /\ sender'.read = sender.read
        /\ sender'.size = sender.size /\ sender'.file = sender.file
        /\ sender'.version = sender.version
        /\ ~sender'.raced => ~sender.raced /\ sender.at # "open"
    BY <1>1, <1>3, Marked
  <2>5. SenderPart'
    BY <1>2, <2>4, <2>1, <2>3 DEF SenderPart
  <2> QED  BY <1>1, <2>3, <2>4, <2>5 DEF Types
<1>4. ASSUME NEW c \in Contents, WriteInPlace(c), Noticed(TRUE) PROVE DownloadInv'
  <2>1. name' = name /\ inode' = [inode EXCEPT ![name] = c] /\ name \in Inodes
    BY <1>2, <1>4 DEF WriteInPlace
  <2>2. FileTypeOK' /\ (sender.file \in Inodes /\ sender.file # name =>
                            inode'[sender.file] = inode[sender.file])
    BY <1>2, <2>1 DEF FileTypeOK
  <2>3. /\ sender' \in Senders /\ PipePart' /\ CallPart'
        /\ sender'.at = sender.at /\ sender'.read = sender.read
        /\ sender'.size = sender.size /\ sender'.file = sender.file
        /\ sender'.version = sender.version
        /\ ~sender'.raced => ~sender.raced /\ sender.at # "open"
        /\ ~sender'.raced /\ sender.at \in {"header", "bytes"} => sender.file # name
    BY <1>1, <1>4, Marked
  <2>4. SenderPart'
    BY <1>2, <2>3, <2>1, <2>2 DEF SenderPart
  <2> QED  BY <1>1, <2>2, <2>3, <2>4 DEF Types
<1>5. ASSUME Unlink, Noticed(FALSE) PROVE DownloadInv'
  <2>1. name' = NoFile /\ inode' = inode /\ NoFile = 0
    BY <1>5 DEF Unlink, NoFile
  <2>2. FileTypeOK'
    BY <1>2, <2>1 DEF FileTypeOK
  <2>3. /\ sender' \in Senders /\ PipePart' /\ CallPart'
        /\ sender'.at = sender.at /\ sender'.read = sender.read
        /\ sender'.size = sender.size /\ sender'.file = sender.file
        /\ sender'.version = sender.version
        /\ ~sender'.raced => ~sender.raced /\ sender.at # "open"
    BY <1>1, <1>5, Marked
  <2>4. SenderPart'
    BY <1>2, <2>3, <2>1 DEF SenderPart
  <2> QED  BY <1>1, <2>2, <2>3, <2>4 DEF Types
<1> QED  BY <1>3, <1>4, <1>5 DEF ChangeRemote

(* Another program creates the local target, or nothing happens.            *)
LEMMA LocalChanged ==
  ASSUME DownloadInv, LocalAppears \/ UNCHANGED <<downloadVars, fileVars>>
  PROVE  DownloadInv'
<1> USE DEF DownloadInv
<1>1. CASE LocalAppears
  <2>1. /\ UNCHANGED <<name, inode, call, sender, pipe, recorded, faults>>
        /\ local = NoLocal /\ local' = Theirs /\ Changing
    BY <1>1 DEF LocalAppears
  <2>2. changes' = changes + 1 /\ FileTypeOK' /\ changes \in Nat
    BY <2>1, Known DEF Types, FileTypeOK, Changing
  <2>3. CallPart' /\ PipePart'
    BY <2>1, Known DEF CallPart, PipePart, Whole
  <2>4. name \in Nat /\ sender.file \in Nat
    <3>1. {name, sender.file} \subseteq Inodes \cup {NoFile}
      BY DEF Types, FileTypeOK, Senders
    <3>2. NoFile \in Nat
      BY DEF NoFile
    <3> QED  BY <3>1, <3>2, Known
  <2>5. SenderPart'
    BY <2>1, <2>2, <2>4 DEF SenderPart
  <2> QED  BY <2>1, <2>2, <2>3, <2>5 DEF Types
<1>2. CASE UNCHANGED <<downloadVars, fileVars>>
  BY <1>2 DEF downloadVars, fileVars, Types, FileTypeOK, PipePart, CallPart, SenderPart, Whole
<1> QED  BY <1>1, <1>2

-----------------------------------------------------------------------------
(* The invariant holds at the start ...                                     *)
LEMMA DownloadStarts == FileInit /\ DownloadInit => DownloadInv
<1> SUFFICES ASSUME FileInit, DownloadInit PROVE DownloadInv
  OBVIOUS
<1>1. name \in {NoFile, 1} /\ changes = 0 /\ inode \in [Inodes -> Contents]
  BY FileAssumption DEF FileInit, FileAssumption
<1>2. 1 \in Inodes /\ NoFile = 0
  BY Known DEF Inodes, NoFile
<1>3. FileTypeOK
  BY <1>1, <1>2, Known DEF FileTypeOK
<1>4. /\ call = NotCalled /\ sender = NotStarted /\ pipe = <<>>
      /\ local \in {NoLocal, Theirs} /\ recorded = FALSE /\ faults = MaxFaults
  BY DEF DownloadInit
<1>5. call \in Calls /\ sender \in Senders
  BY <1>4 DEF NotCalled, NotStarted, Calls, Senders, Receiving
<1>6. Types
  <2>1. pipe \in Seq(Items) /\ Len(pipe) = 0
    BY <1>4
  <2>2. faults \in 0..MaxFaults /\ Len(pipe) <= PipeCap
    BY <1>4, <2>1, Known
  <2>3. local \in {NoLocal, Theirs, "ours"} /\ recorded \in BOOLEAN
    BY <1>4
  <2> QED  BY <1>3, <1>5, <2>1, <2>2, <2>3 DEF Types
<1>7. PipePart
  BY <1>4 DEF PipePart
<1>8. CallPart
  <2>1. /\ call.at = "idle" /\ call.got = <<>> /\ Len(call.got) = 0 /\ call.size = 0
        /\ call.received = "none" /\ sender.at = "none"
    BY <1>4 DEF NotCalled, NotStarted
  <2>2. local # "ours" /\ recorded = FALSE
    BY <1>4, Known
  <2> QED  BY <2>1, <2>2 DEF CallPart, Placing, Receiving
<1>9. SenderPart
  BY <1>1, <1>2, <1>4 DEF SenderPart, NotStarted
<1> QED  BY <1>6, <1>7, <1>8, <1>9 DEF DownloadInv

(* ... and every step keeps it.                                             *)
LEMMA DownloadSteps ==
  DownloadInv /\ [DownloadNext]_<<downloadVars, fileVars>> => DownloadInv'
<1> SUFFICES ASSUME DownloadInv, [DownloadNext]_<<downloadVars, fileVars>> PROVE DownloadInv'
  OBVIOUS
<1>1. ASSUME NEW o \in BOOLEAN, StartDownload(o), UNCHANGED fileVars PROVE DownloadInv'
  BY <1>1, CallSteps
<1>2. CASE SenderStep /\ UNCHANGED fileVars
  BY <1>2, SenderLooks, HeaderSent, ByteSent, TrailerSent DEF SenderStep
<1>3. CASE CallStep /\ UNCHANGED fileVars
  BY <1>3, SenderSpawned, HeaderReceived, ByteReceived, TrailerReceived, CallSteps DEF CallStep
<1>4. CASE FaultStep /\ UNCHANGED fileVars
  BY <1>4, CallSteps, ByteCorrupted, LinkBroken, ByteReceived DEF FaultStep
<1>5. CASE ChangeRemote \/ LocalAppears \/ UNCHANGED <<downloadVars, fileVars>>
  BY <1>5, RemoteChanged, LocalChanged
<1> QED  BY <1>1, <1>2, <1>3, <1>4, <1>5 DEF DownloadNext

(* What a download installs is what the sender read, whole and from a sender *)
(* that ended well; it is one version of the remote file unless it was       *)
(* changed under the sender's hands; and what download_file reports is so.   *)
THEOREM DownloadsAreSound == DownloadSpec => []DownloadSound
<1>1. DownloadInv => DownloadSound
  <2> SUFFICES ASSUME DownloadInv PROVE DownloadSound
    OBVIOUS
  <2> USE DEF DownloadInv
  <2>1. DownloadTypeOK
    BY DEF DownloadTypeOK, Types, Calls, Senders, CallPart, SenderPart
  <2>2. VerifiedInstall
    BY DEF VerifiedInstall, Installed, CallPart, Whole, Types
  <2>3. Faithful
    BY <2>2 DEF Faithful, VerifiedInstall, Installed, SenderPart
  <2>4. ReportsTrue
    BY DEF ReportsTrue, Installed, CallPart, Placing
  <2> QED  BY <2>1, <2>2, <2>3, <2>4 DEF DownloadSound
<1> QED  BY <1>1, DownloadStarts, DownloadSteps, PTL DEF DownloadSpec

(* persist_noclobber: a local target that is there is replaced only by a     *)
(* call with overwrite, also one that appeared during the download.          *)
THEOREM NothingClobberedLocally == DownloadSpec => NoClobberLocal
<1>1. [DownloadNext]_<<downloadVars, fileVars>> =>
        [local # NoLocal /\ local' # local => call.overwrite]_<<downloadVars, fileVars>>
  <2> SUFFICES ASSUME DownloadNext, local # NoLocal, local' # local PROVE call.overwrite
    OBVIOUS
  <2>1. InstallLocal
    BY DEF DownloadNext, StartDownload, SenderStep, SenderStat, SenderOpen, SendHeader, SendByte,
           Shrank, SendTrailer, CallStep, SpawnSender, ReceiveHeader, ReceiveByte, ReceiveTrailer,
           ReceiveEof, WaitSender, Sync, InstallRefused, RecordDownload, FaultStep, SpawnFails,
           Corrupt, LinkBreaks, ReceiveByteFails, LocalFails, RecordFails, ChangeRemote,
           LocalAppears
  <2> QED  BY <2>1 DEF InstallLocal, MayInstall
<1> QED  BY <1>1, PTL DEF DownloadSpec, NoClobberLocal

-----------------------------------------------------------------------------
(* Paging.                                                                  *)

(* A set of numbers that is not empty has a least one.                      *)
LEMMA HasMin ==
  ASSUME NEW S \in SUBSET Nat, S # {}
  PROVE  \E x \in S : \A y \in S : x <= y
<1> DEFINE R == OpToRel(<, Nat)
<1>1. IsWellFoundedOn(R, Nat)
  BY NatLessThanWellFounded
<1>2. \E x \in S : \A y \in S : ~ (<<y, x>> \in R)
  <2> HIDE DEF R
  <2> QED  BY <1>1, WFMin
<1>3. \A x, y \in Nat : <<y, x>> \in R <=> y < x
  BY DEF OpToRel
<1> HIDE DEF R
<1>4. PICK x \in S : \A y \in S : ~ (y < x)
  BY <1>2, <1>3
<1> QED  BY <1>4

-----------------------------------------------------------------------------
(* Pages of a file.                                                         *)

(* A piece of a sequence.                                                   *)
LEMMA PieceOf ==
  ASSUME NEW S, NEW s \in Seq(S), NEW a \in 0..Len(s), NEW b \in a..Len(s)
  PROVE  /\ SubSeq(s, a + 1, b) \in Seq(S) /\ Len(SubSeq(s, a + 1, b)) = b - a
         /\ \A k \in 1..(b - a) : SubSeq(s, a + 1, b)[k] = s[a + k]
<1>1. PICK n \in Nat : n = Len(s)
  OBVIOUS
<1>2. \A k \in (a + 1)..b : s[k] \in S
  BY <1>1
<1>3. a \in Int /\ b \in Int /\ a + 1 \in Int
  BY <1>1
<1>4. /\ SubSeq(s, a + 1, b) \in Seq(S)
      /\ Len(SubSeq(s, a + 1, b)) = IF a + 1 <= b THEN b - (a + 1) + 1 ELSE 0
      /\ \A k \in 1..(b - (a + 1) + 1) : SubSeq(s, a + 1, b)[k] = s[(a + 1) + k - 1]
  BY <1>2, <1>3, SubSeqProperties
<1>5. \A k \in 1..(b - a) : (a + 1) + k - 1 = a + k
  BY <1>3
<1>6. b - (a + 1) + 1 = b - a /\ (~(a + 1 <= b) => b - a = 0)
  BY <1>1
<1> QED  BY <1>4, <1>5, <1>6

(* Two pieces that meet are one.                                            *)
LEMMA PiecesMeet ==
  ASSUME NEW S, NEW s \in Seq(S), NEW a \in 0..Len(s), NEW b \in a..Len(s), NEW c \in b..Len(s)
  PROVE  SubSeq(s, a + 1, b) \o SubSeq(s, b + 1, c) = SubSeq(s, a + 1, c)
<1>1. PICK n \in Nat : n = Len(s)
  OBVIOUS
<1>2. b \in 0..Len(s) /\ c \in a..Len(s) /\ a \in Nat /\ b \in Nat /\ c \in Nat /\ a <= b /\ b <= c
  BY <1>1
<1>3. PICK t : t = SubSeq(s, a + 1, b)
  OBVIOUS
<1>4. PICK u : u = SubSeq(s, b + 1, c)
  OBVIOUS
<1>5. PICK v : v = SubSeq(s, a + 1, c)
  OBVIOUS
<1>6. t \in Seq(S) /\ Len(t) = b - a /\ \A k \in 1..(b - a) : t[k] = s[a + k]
  BY <1>3, PieceOf
<1>7. u \in Seq(S) /\ Len(u) = c - b /\ \A k \in 1..(c - b) : u[k] = s[b + k]
  BY <1>2, <1>4, PieceOf
<1>8. v \in Seq(S) /\ Len(v) = c - a /\ \A k \in 1..(c - a) : v[k] = s[a + k]
  BY <1>2, <1>5, PieceOf
<1>9. PICK w : w = t \o u
  OBVIOUS
<1>10. /\ w \in Seq(S) /\ Len(w) = c - a
       /\ \A k \in 1..(c - a) : w[k] = IF k <= b - a THEN t[k] ELSE u[k - (b - a)]
  <2>1. Len(t) + Len(u) = c - a
    BY <1>2, <1>6, <1>7
  <2>2. w \in Seq(S) /\ Len(w) = Len(t) + Len(u)
    BY <1>6, <1>7, <1>9, ConcatProperties
  <2>3. \A k \in 1..(Len(t) + Len(u)) : w[k] = IF k <= Len(t) THEN t[k] ELSE u[k - Len(t)]
    BY <1>6, <1>7, <1>9, ConcatProperties
  <2> QED  BY <1>6, <2>1, <2>2, <2>3
<1>11. \A k \in 1..(c - a) : w[k] = v[k]
  <2> TAKE k \in 1..(c - a)
  <2>1. CASE k <= b - a
    <3>1. k \in 1..(b - a)
      BY <1>2, <2>1
    <3> QED  BY <1>6, <1>8, <1>10, <2>1, <3>1
  <2>2. CASE ~ (k <= b - a)
    <3>1. k - (b - a) \in 1..(c - b) /\ b + (k - (b - a)) = a + k
      BY <1>2, <2>2
    <3>2. u[k - (b - a)] = s[a + k]
      BY <1>7, <3>1
    <3> QED  BY <1>8, <1>10, <2>2, <3>2
  <2> QED  BY <2>1, <2>2
<1>12. w = v
  BY <1>8, <1>10, <1>11, SeqEqual
<1> QED  BY <1>3, <1>4, <1>5, <1>9, <1>12

(* The walk to the next boundary ends at one: the end of the file is one.   *)
LEMMA BoundaryAfter ==
  ASSUME NEW s \in Contents, NEW k \in 0..Len(s)
  PROVE  NearestBoundary(s, k) \in k..Len(s) /\ IsCharBoundary(s, NearestBoundary(s, k))
<1>1. PICK n \in Nat : n = Len(s)
  BY FileAssumption DEF FileAssumption
<1> DEFINE B == {j \in k..n : IsCharBoundary(s, j)}
<1>2. B \in SUBSET Nat /\ n \in B
  BY <1>1 DEF IsCharBoundary
<1>3. PICK j \in B : \A i \in B : j <= i
  <2> HIDE DEF B
  <2> QED  BY <1>2, HasMin
<1>4. j \in k..n /\ IsCharBoundary(s, j) /\ \A i \in k..(j - 1) : ~IsCharBoundary(s, i)
  BY <1>1, <1>3
<1>5. \E x \in k..n : IsCharBoundary(s, x) /\ \A i \in k..(x - 1) : ~IsCharBoundary(s, i)
  BY <1>4
<1> QED  BY <1>1, <1>5 DEF NearestBoundary

(* A page that is not refused ends at a boundary, at or after its start.    *)
LEMMA PageEnd ==
  ASSUME NEW s \in Contents, NEW offset \in Nat, NEW limit \in Nat, ~ReadError(s, offset, limit)
  PROVE  /\ EndOf(s, offset, limit) \in offset..Len(s)
         /\ IsCharBoundary(s, EndOf(s, offset, limit))
         /\ offset \in 0..Len(s) /\ Len(s) \in Nat
<1>1. PICK n \in Nat : n = Len(s)
  BY FileAssumption DEF FileAssumption
<1>2. offset <= n
  BY <1>1 DEF ReadError
<1>3. PICK m : m = Least(offset + limit, n)
  OBVIOUS
<1>4. m \in offset..n
  BY <1>2, <1>3 DEF Least
<1>5. CASE m >= n
  BY <1>1, <1>2, <1>3, <1>5 DEF EndOf, IsCharBoundary
<1>6. CASE ~(m >= n)
  <2>1. EndOf(s, offset, limit) = NearestBoundary(s, m)
    BY <1>1, <1>3, <1>6 DEF EndOf
  <2>2. m \in 0..Len(s)
    BY <1>1, <1>4
  <2>3. NearestBoundary(s, m) \in m..Len(s) /\ IsCharBoundary(s, NearestBoundary(s, m))
    BY <2>2, BoundaryAfter
  <2> QED  BY <1>1, <1>2, <1>4, <2>1, <2>3
<1> QED  BY <1>5, <1>6

-----------------------------------------------------------------------------
(* Entries of a directory.                                                  *)

Before(d) == {e \in dir : e < d}

(* Ranks count, and grow with the names.                                    *)
LEMMA RankFacts ==
  ASSUME dir \subseteq Names
  PROVE  /\ Cardinality(dir) \in Nat
         /\ \A d \in dir : Rank(d) \in 0..(Cardinality(dir) - 1)
         /\ \A d, e \in dir : e < d => Rank(e) < Rank(d)
<1>1. IsFiniteSet(dir) /\ Names \subseteq Nat
  BY FS_Subset, PagingAssumption DEF PagingAssumption
<1>2. Cardinality(dir) \in Nat
  BY <1>1, FS_CardinalityType
<1>3. ASSUME NEW d \in dir PROVE Rank(d) \in 0..(Cardinality(dir) - 1) /\ IsFiniteSet(Before(d))
  <2>1. Before(d) \in SUBSET (dir \ {d})
    BY <1>1 DEF Before
  <2>2. IsFiniteSet(dir \ {d}) /\ Cardinality(dir \ {d}) = Cardinality(dir) - 1
    BY <1>1, FS_RemoveElement
  <2>3. /\ IsFiniteSet(Before(d)) /\ Cardinality(Before(d)) <= Cardinality(dir \ {d})
    BY <2>1, <2>2, FS_Subset
  <2>4. Cardinality(Before(d)) \in Nat
    BY <2>3, FS_CardinalityType
  <2> QED  BY <1>2, <2>2, <2>3, <2>4 DEF Rank, Before
<1>4. ASSUME NEW d \in dir, NEW e \in dir, e < d PROVE Rank(e) < Rank(d)
  <2>1. Before(e) \cup {e} \in SUBSET Before(d) /\ e \notin Before(e)
    <3>1. e \in Nat /\ d \in Nat /\ \A x \in dir : x \in Nat
      BY <1>1
    <3>2. \A x \in dir : x < e => x < d
      BY <1>4, <3>1
    <3>3. ~(e < e)
      BY <3>1
    <3> QED  BY <1>4, <3>2, <3>3 DEF Before
  <2>2. IsFiniteSet(Before(e)) /\ IsFiniteSet(Before(d))
    BY <1>3
  <2>3. Cardinality(Before(e) \cup {e}) = Cardinality(Before(e)) + 1
    BY <2>1, <2>2, FS_AddElement
  <2>4. Cardinality(Before(e) \cup {e}) <= Cardinality(Before(d))
    BY <2>1, <2>2, FS_Subset
  <2>5. Cardinality(Before(e)) \in Nat /\ Cardinality(Before(d)) \in Nat
    BY <2>2, FS_CardinalityType
  <2> QED  BY <2>3, <2>4, <2>5 DEF Rank, Before
<1> QED  BY <1>2, <1>3, <1>4

(* The sorted entries: every entry is at its rank.                          *)
LEMMA EntriesSorted ==
  ASSUME dir \subseteq Names
  PROVE  /\ Entries \in Seq(dir) /\ Len(Entries) = Cardinality(dir)
         /\ \A k \in 1..Cardinality(dir) : Rank(Entries[k]) = k - 1
         /\ \A d \in dir : Rank(d) + 1 \in 1..Cardinality(dir) /\ Entries[Rank(d) + 1] = d
<1>1. PICK n \in Nat : n = Cardinality(dir)
  BY RankFacts
<1>2. dir \subseteq Nat /\ IsFiniteSet(dir)
  BY FS_Subset, PagingAssumption DEF PagingAssumption
<1>3. \A d, e \in dir : Rank(d) = Rank(e) => d = e
  <2> SUFFICES ASSUME NEW d \in dir, NEW e \in dir, Rank(d) = Rank(e), d # e PROVE FALSE
    OBVIOUS
  <2>1. d < e \/ e < d
    BY <1>2
  <2>2. Rank(d) \in Nat /\ Rank(e) \in Nat
    BY <1>1, RankFacts
  <2> QED  BY <2>1, <2>2, RankFacts
<1> DEFINE r == [d \in dir |-> Rank(d)]
<1>4. r \in Injection(dir, 0..(n - 1))
  <2>1. r \in [dir -> 0..(n - 1)]
    BY <1>1, RankFacts
  <2> QED  BY <1>3, <2>1 DEF Injection, IsInjective
<1>5. IsFiniteSet(0..(n - 1)) /\ Cardinality(0..(n - 1)) = n
  BY FS_Interval
<1>6. r \in Surjection(dir, 0..(n - 1))
  <2> HIDE DEF r
  <2> QED  BY <1>1, <1>4, <1>5, FS_Injection
<1>7. \A k \in 0..(n - 1) : \E d \in dir : Rank(d) = k
  BY <1>6 DEF Surjection
<1>8. ASSUME NEW k \in 1..n PROVE Entries[k] \in dir /\ Rank(Entries[k]) = k - 1
  <2>1. \E d \in dir : Rank(d) = k - 1
    BY <1>7
  <2>2. Entries[k] = CHOOSE d \in dir : Rank(d) = k - 1
    BY <1>1 DEF Entries
  <2> QED  BY <2>1, <2>2
<1>9. Entries \in [1..n -> dir]
  BY <1>1, <1>8 DEF Entries
<1>10. Entries \in Seq(dir) /\ Len(Entries) = n
  BY <1>9
<1>11. ASSUME NEW d \in dir PROVE Rank(d) + 1 \in 1..n /\ Entries[Rank(d) + 1] = d
  <2>1. Rank(d) \in 0..(n - 1)
    BY <1>1, RankFacts
  <2>2. Rank(d) + 1 \in 1..n /\ (Rank(d) + 1) - 1 = Rank(d)
    BY <2>1
  <2>3. Entries[Rank(d) + 1] \in dir /\ Rank(Entries[Rank(d) + 1]) = Rank(d)
    BY <1>8, <2>2
  <2> QED  BY <1>3, <2>2, <2>3
<1> QED  BY <1>1, <1>8, <1>10, <1>11


(* More entries, higher ranks.                                              *)
LEMMA RankGrows ==
  ASSUME NEW A \in SUBSET Names, NEW B \in SUBSET Names, A \subseteq B, NEW d
  PROVE  /\ Cardinality({e \in A : e < d}) \in Nat /\ Cardinality({e \in B : e < d}) \in Nat
         /\ Cardinality({e \in A : e < d}) <= Cardinality({e \in B : e < d})
<1>1. PICK X : X = {e \in A : e < d}
  OBVIOUS
<1>2. PICK Y : Y = {e \in B : e < d}
  OBVIOUS
<1>3. X \in SUBSET Y /\ Y \in SUBSET Names /\ IsFiniteSet(Names)
  BY <1>1, <1>2, PagingAssumption DEF PagingAssumption
<1>4. IsFiniteSet(Y)
  BY <1>3, FS_Subset
<1>5. IsFiniteSet(X) /\ Cardinality(X) <= Cardinality(Y)
  BY <1>3, <1>4, FS_Subset
<1> QED  BY <1>1, <1>2, <1>4, <1>5, FS_CardinalityType

-----------------------------------------------------------------------------
(* The invariant.                                                           *)

Readings == [at : {"idle", "reading", "read", "rejected", "changed"}, start : Nat, offset : Nat,
             limit : Nat, got : Seq(Byte), hash : SUBSET Contents]
Listings == [at : {"idle", "listing", "listed", "rejected"}, offset : Nat, limit : Nat,
             got : Seq(Names), before : SUBSET Names]

PageTypes ==
    /\ FileTypeOK /\ name <= changes + 1
    /\ pages \in Readings /\ listing \in Listings
    /\ dir \subseteq Names /\ added \subseteq Names /\ removed \subseteq Names

(* What has been read is a piece of the file the hash names, and while the  *)
(* file does not change the next offset is one the server takes.            *)
ReadingPart ==
    /\ pages.hash = {} \/ \E s \in Contents : pages.hash = {s}
    /\ pages.hash = {} => pages.offset = pages.start /\ pages.got = <<>>
    /\ pages.at = "idle" => pages.hash = {}
    /\ pages.at = "reading" => \A s \in pages.hash :
        /\ pages.start <= pages.offset /\ pages.offset <= Len(s)
        /\ pages.got = SubSeq(s, pages.start + 1, pages.offset)
        /\ changes = 0 => /\ name # NoFile /\ inode[name] = s
                          /\ ~ReadError(s, pages.offset, pages.limit)
    /\ PagesJoin

(* Of what was there at the start, all that is before the offset has been   *)
(* named; of what has been named, nothing is after it.                      *)
ListingPart ==
    /\ listing.at = "listing" =>
        /\ removed = {} => /\ listing.before \subseteq dir
                           /\ \A d \in listing.before :
                                  Rank(d) < listing.offset => d \in Range(listing.got)
        /\ added = {} => /\ IsInjective(listing.got)
                         /\ \A k \in 1..Len(listing.got) :
                                listing.got[k] \in dir => Rank(listing.got[k]) < listing.offset
    /\ ListingCovers

PagesInv == PageTypes /\ ReadingPart /\ ListingPart


(* A fresh agent.                                                           *)
LEMMA PagesInit == FileInit /\ PageInit => PagesInv
<1> SUFFICES ASSUME FileInit, PageInit PROVE PagesInv
  OBVIOUS
<1>1. PageTypes
  <2>1. FileTypeOK /\ name <= changes + 1
    BY FileAssumption DEF FileInit, FileTypeOK, Inodes, NoFile, FileAssumption
  <2> QED  BY <2>1 DEF PageInit, PageTypes, NotReading, NotListing, Readings, Listings
<1>2. ReadingPart
  BY DEF PageInit, ReadingPart, NotReading, PagesJoin
<1>3. ListingPart
  BY DEF PageInit, ListingPart, NotListing, ListingCovers
<1> QED  BY <1>1, <1>2, <1>3 DEF PagesInv

(* What an agent's step leaves alone.                                       *)
LEMMA ReadingSame ==
  ASSUME ReadingPart, UNCHANGED <<name, inode, changes, pages>>
  PROVE  ReadingPart'
  BY DEF ReadingPart, PagesJoin, ReadError, IsCharBoundary, IsUtf8

LEMMA ListingSame ==
  ASSUME ListingPart, UNCHANGED <<dir, added, removed, listing>>
  PROVE  ListingPart'
  BY DEF ListingPart, ListingCovers, Rank

(* Others change the file: the reading does not move.                       *)
LEMMA PagesChange ==
  ASSUME PagesInv, PageTypes', changes' = changes + 1, UNCHANGED pages
  PROVE  ReadingPart'
<1>1. changes' # 0
  BY DEF PagesInv, PageTypes, FileTypeOK
<1> QED  BY <1>1 DEF PagesInv, ReadingPart, PagesJoin

LEMMA PagesFile ==
  ASSUME PagesInv, UNCHANGED pageVars,
         (\E c \in Contents : Install(c) \/ WriteInPlace(c)) \/ Unlink
  PROVE  PagesInv'
<1> USE FileAssumption DEF FileAssumption
<1>0. /\ FileTypeOK /\ name <= changes + 1 /\ changes \in Nat /\ changes < MaxChanges
      /\ changes' = changes + 1 /\ UNCHANGED <<pages, dir, added, removed, listing>>
  BY DEF PagesInv, PageTypes, FileTypeOK, pageVars, Install, WriteInPlace, Unlink, Changing
<1>1. FileTypeOK' /\ name' <= changes' + 1
  <2>1. ASSUME NEW c \in Contents, Install(c) PROVE FileTypeOK' /\ name' <= changes' + 1
    BY <1>0, <2>1 DEF Install, FileTypeOK, Inodes
  <2>2. ASSUME NEW c \in Contents, WriteInPlace(c) PROVE FileTypeOK' /\ name' <= changes' + 1
    BY <1>0, <2>2 DEF WriteInPlace, FileTypeOK, Inodes
  <2>3. CASE Unlink
    BY <1>0, <2>3 DEF Unlink, FileTypeOK, Inodes, NoFile
  <2> QED  BY <2>1, <2>2, <2>3
<1>2. PageTypes'
  BY <1>0, <1>1 DEF PagesInv, PageTypes
<1>3. ReadingPart'
  BY <1>0, <1>2, PagesChange
<1>4. ListingPart'
  BY <1>0, ListingSame DEF PagesInv
<1> QED  BY <1>2, <1>3, <1>4 DEF PagesInv

(* StartReading and StartListing: nothing has been got.                     *)
LEMMA PagesStart ==
  ASSUME PagesInv, UNCHANGED fileVars,
         \/ \E offset, limit \in Nat : StartReading(offset, limit)
         \/ \E d \in SUBSET Names, limit \in Nat : StartListing(d, limit)
  PROVE  PagesInv'
<1>1. UNCHANGED <<name, inode, changes>>
  BY DEF fileVars
<1>2. ASSUME NEW offset \in Nat, NEW limit \in Nat, StartReading(offset, limit) PROVE PagesInv'
  <2>1. UNCHANGED <<dir, added, removed, listing>>
    BY <1>2 DEF StartReading, dirVars
  <2>2. pages' = [at |-> "reading", start |-> offset, offset |-> offset, limit |-> limit,
                  got |-> <<>>, hash |-> {}]
    BY <1>2 DEF StartReading, NotReading
  <2>3. pages' \in Readings
    BY <2>2 DEF Readings
  <2>4. PageTypes'
    BY <1>1, <2>1, <2>3 DEF PagesInv, PageTypes, FileTypeOK
  <2>5. ReadingPart'
    BY <2>2 DEF ReadingPart, PagesJoin
  <2> QED  BY <2>1, <2>4, <2>5, ListingSame DEF PagesInv
<1>3. ASSUME NEW d \in SUBSET Names, NEW limit \in Nat, StartListing(d, limit) PROVE PagesInv'
  <2>1. UNCHANGED <<pages, added, removed>> /\ dir' = d
    BY <1>3 DEF StartListing
  <2>2. listing' = [at |-> "listing", offset |-> 0, limit |-> limit, got |-> <<>>, before |-> d]
    BY <1>3 DEF StartListing, NotListing
  <2>3. listing' \in Listings
    BY <2>2 DEF Listings
  <2>4. PageTypes'
    BY <1>1, <2>1, <2>3 DEF PagesInv, PageTypes, FileTypeOK
  <2>5. ListingPart'
    <3>1. \A e \in d : ~(Rank(e)' < 0)
      <4> TAKE e \in d
      <4>1. Rank(e)' \in Nat
        BY <2>1, RankGrows DEF Rank
      <4> QED  BY <4>1
    <3>2. IsInjective(<<>>)
      BY DEF IsInjective
    <3> QED  BY <2>1, <2>2, <3>1, <3>2 DEF ListingPart, ListingCovers
  <2> QED  BY <1>1, <2>1, <2>4, <2>5, ReadingSame DEF PagesInv
<1> QED  BY <1>2, <1>3

(* ReadPage: the page is the next piece of the same file, or the reading    *)
(* stops.                                                                   *)
LEMMA PagesRead ==
  ASSUME PagesInv, ReadPage, UNCHANGED fileVars
  PROVE  PagesInv'
<1> USE FileAssumption DEF FileAssumption
<1>1. UNCHANGED <<name, inode, changes, dir, added, removed, listing>> /\ pages.at = "reading"
  BY DEF fileVars, ReadPage, dirVars
<1>2. PageTypes /\ pages \in Readings /\ ReadingPart /\ pages.start \in Nat /\ pages.offset \in Nat
  BY DEF PagesInv, PageTypes, Readings
<1>3. pages' \in Readings => PageTypes'
  BY <1>1, <1>2 DEF PageTypes, FileTypeOK
<1>4. ListingPart'
  BY <1>1, ListingSame DEF PagesInv
<1> DEFINE Refused == name = NoFile \/ ReadError(inode[name], pages.offset, pages.limit)
<1>5. ASSUME NEW a \in {"rejected", "changed"}, pages' = [pages EXCEPT !.at = a],
             changes = 0 => pages.hash = {}
      PROVE  PagesInv'
  <2>1. /\ pages' \in Readings /\ pages'.at = a /\ pages'.hash = pages.hash
        /\ pages'.offset = pages.offset /\ pages'.start = pages.start /\ pages'.got = pages.got
    BY <1>2, <1>5 DEF Readings
  <2>2. ReadingPart'
    BY <1>1, <1>2, <1>5, <2>1 DEF ReadingPart, PagesJoin
  <2> QED  BY <1>3, <1>4, <2>1, <2>2 DEF PagesInv
<1>6. CASE Refused
  <2>1. pages' = [pages EXCEPT !.at = "rejected"]
    BY <1>6 DEF ReadPage
  <2>2. changes = 0 => pages.hash = {}
    BY <1>1, <1>2, <1>6 DEF ReadingPart
  <2> QED  BY <1>5, <2>1, <2>2
<1>7. CASE ~Refused
  <2>1. PICK s : s = inode[name]
    OBVIOUS
  <2>2. s \in Contents /\ s \in Seq(Byte) /\ name # NoFile /\ ~ReadError(s, pages.offset, pages.limit)
    BY <1>2, <1>7, <2>1 DEF PageTypes, FileTypeOK
  <2>3. CASE pages.hash \notin {{}, {s}}
    <3>1. pages' = [pages EXCEPT !.at = "changed"]
      BY <1>7, <2>1, <2>3 DEF ReadPage
    <3>2. changes = 0 => pages.hash = {}
      BY <1>1, <1>2, <2>1, <2>3 DEF ReadingPart
    <3> QED  BY <1>5, <3>1, <3>2
  <2>4. CASE pages.hash \in {{}, {s}}
    <3>1. PICK e : e = EndOf(s, pages.offset, pages.limit)
      OBVIOUS
    <3>2. /\ e \in pages.offset..Len(s) /\ IsCharBoundary(s, e)
          /\ pages.offset \in 0..Len(s) /\ Len(s) \in Nat /\ pages.limit \in Nat
      BY <1>2, <2>2, <3>1, PageEnd DEF Readings
    <3>3. PICK a \in {"reading", "read"} : a = IF e < Len(s) THEN "reading" ELSE "read"
      OBVIOUS
    <3>4. PICK g : g = pages.got \o SubSeq(s, pages.offset + 1, e)
      OBVIOUS
    <3>5. pages' = [pages EXCEPT !.at = a, !.offset = e, !.got = g, !.hash = {s}]
      BY <1>7, <2>1, <2>4, <3>1, <3>3, <3>4 DEF ReadPage, NextOffset, Page
    <3>6. pages.start <= pages.offset /\ pages.got = SubSeq(s, pages.start + 1, pages.offset)
      <4>1. CASE pages.hash = {s}
        BY <1>1, <1>2, <4>1 DEF ReadingPart
      <4>2. CASE pages.hash = {}
        <5>1. pages.start = pages.offset /\ pages.got = <<>>
          BY <1>2, <4>2 DEF ReadingPart
        <5>2. SubSeq(s, pages.offset + 1, pages.offset) = <<>>
          BY <1>2, SubSeqEmpty
        <5> QED  BY <1>2, <5>1, <5>2
      <4> QED  BY <2>4, <4>1, <4>2
    <3>7. pages.start \in 0..Len(s) /\ pages.offset \in pages.start..Len(s)
      BY <1>2, <3>2, <3>6
    <3>8. g = SubSeq(s, pages.start + 1, e)
      BY <2>2, <3>2, <3>4, <3>6, <3>7, PiecesMeet
    <3>9. e \in Nat /\ e \in pages.start..Len(s)
      BY <1>2, <3>2, <3>7
    <3>10. g \in Seq(Byte)
      BY <2>2, <3>7, <3>8, <3>9, PieceOf
    <3>11. /\ pages' \in Readings /\ pages'.at = a /\ pages'.hash = {s} /\ pages'.limit = pages.limit
           /\ pages'.offset = e /\ pages'.start = pages.start /\ pages'.got = g
      BY <1>2, <2>2, <3>5, <3>9, <3>10 DEF Readings
    <3>12. ~ReadError(s, e, pages.limit)
      BY <2>2, <3>2, <3>9 DEF ReadError
    <3>13. a = "read" => e = Len(s)
      BY <3>2, <3>3, <3>9
    <3>14. ASSUME NEW t \in pages'.hash
           PROVE  /\ pages'.start <= pages'.offset /\ pages'.offset <= Len(t)
                  /\ pages'.got = SubSeq(t, pages'.start + 1, pages'.offset)
                  /\ name' # NoFile /\ inode'[name'] = t
                  /\ ~ReadError(t, pages'.offset, pages'.limit)
      <4>1. t = s
        BY <3>11
      <4>2. ~ReadError(t, pages'.offset, pages'.limit)
        BY <3>11, <3>12, <4>1
      <4>3. pages'.start <= pages'.offset /\ pages'.offset <= Len(t)
        BY <1>2, <3>2, <3>9, <3>11, <4>1
      <4> QED  BY <1>1, <2>1, <2>2, <3>8, <3>11, <4>1, <4>2, <4>3
    <3>15. PagesJoin'
      BY <3>8, <3>11, <3>13 DEF PagesJoin
    <3>16. ReadingPart'
      BY <2>2, <3>11, <3>14, <3>15 DEF ReadingPart
    <3> QED  BY <1>3, <1>4, <3>11, <3>16 DEF PagesInv
  <2> QED  BY <2>3, <2>4
<1> QED  BY <1>6, <1>7


(* ListPage: the page names the entries whose rank is from the offset to    *)
(* the end of the page.                                                     *)
LEMMA SliceIs ==
  ASSUME dir \subseteq Names, NEW offset \in Nat, NEW end \in 0..Cardinality(dir)
  PROVE  /\ Slice(offset, end) \in Seq(dir)
         /\ \A k \in 1..Len(Slice(offset, end)) : Rank(Slice(offset, end)[k]) = offset + k - 1
         /\ \A k \in 1..Len(Slice(offset, end)) : offset + k <= end
         /\ \A d \in dir : offset <= Rank(d) /\ Rank(d) < end => d \in Range(Slice(offset, end))
<1>1. PICK n \in Nat : n = Cardinality(dir)
  BY RankFacts
<1>2. PICK es : es = Entries
  OBVIOUS
<1>3. es \in Seq(dir) /\ Len(es) = n /\ \A k \in 1..n : Rank(es[k]) = k - 1
  BY <1>1, <1>2, EntriesSorted
<1>4. \A d \in dir : Rank(d) \in Nat /\ Rank(d) + 1 \in 1..n /\ es[Rank(d) + 1] = d
  BY <1>1, <1>2, EntriesSorted, RankFacts
<1>5. PICK p : p = Slice(offset, end)
  OBVIOUS
<1>6. p = SubSeq(es, offset + 1, end)
  BY <1>2, <1>5 DEF Slice
<1>7. CASE offset > end
  <2>1. p = <<>>
    BY <1>1, <1>6, <1>7, SubSeqEmpty
  <2>2. \A d \in dir : ~(offset <= Rank(d) /\ Rank(d) < end)
    BY <1>1, <1>4, <1>7
  <2> QED  BY <1>5, <2>1, <2>2
<1>8. CASE ~(offset > end)
  <2>1. offset \in 0..Len(es) /\ end \in offset..Len(es) /\ end \in Nat
    BY <1>1, <1>3, <1>8
  <2>2. p \in Seq(dir) /\ Len(p) = end - offset /\ \A k \in 1..(end - offset) : p[k] = es[offset + k]
    BY <1>3, <1>6, <2>1, PieceOf
  <2>3. ASSUME NEW k \in 1..Len(p) PROVE Rank(p[k]) = offset + k - 1 /\ offset + k <= end
    <3>1. k \in 1..(end - offset) /\ offset + k \in 1..n /\ offset + k <= end
      BY <1>1, <1>3, <2>1, <2>2
    <3> QED  BY <1>3, <2>2, <3>1
  <2>4. ASSUME NEW d \in dir, offset <= Rank(d), Rank(d) < end PROVE d \in Range(p)
    <3>1. PICK r \in Nat : r = Rank(d)
      BY <1>4
    <3>2. r + 1 - offset \in 1..(end - offset) /\ offset + (r + 1 - offset) = r + 1
      BY <2>1, <2>4, <3>1
    <3>3. PICK k : k = r + 1 - offset
      OBVIOUS
    <3>4. k \in 1..(end - offset) /\ offset + k = r + 1
      BY <3>2, <3>3
    <3>5. es[r + 1] = d /\ p[k] = es[offset + k]
      BY <1>4, <2>2, <3>1, <3>4
    <3>6. p[k] = d /\ k \in DOMAIN p
      BY <2>2, <3>4, <3>5
    <3> QED  BY <3>6 DEF Range
  <2> QED  BY <1>5, <2>2, <2>3, <2>4
<1> QED  BY <1>1, <1>7, <1>8

LEMMA PagesList ==
  ASSUME PagesInv, ListPage, UNCHANGED fileVars
  PROVE  PagesInv'
<1>1. UNCHANGED <<name, inode, changes, pages, dir, added, removed>> /\ listing.at = "listing"
  BY DEF fileVars, ListPage
<1>2. /\ PageTypes /\ listing \in Listings /\ ListingPart /\ dir \subseteq Names
      /\ listing.offset \in Nat /\ listing.limit \in Nat /\ listing.got \in Seq(Names)
  BY DEF PagesInv, PageTypes, Listings
<1>3. listing' \in Listings => PageTypes'
  BY <1>1, <1>2 DEF PageTypes, FileTypeOK
<1>4. ReadingPart'
  BY <1>1, ReadingSame DEF PagesInv
<1>5. CASE listing.limit = 0 \/ listing.limit > ListMax
  <2>1. listing' = [listing EXCEPT !.at = "rejected"]
    BY <1>5 DEF ListPage
  <2>2. listing' \in Listings /\ listing'.at = "rejected"
    BY <1>2, <2>1 DEF Listings
  <2>3. ListingPart'
    BY <2>2 DEF ListingPart, ListingCovers
  <2> QED  BY <1>3, <1>4, <2>2, <2>3 DEF PagesInv
<1>6. CASE ~(listing.limit = 0 \/ listing.limit > ListMax)
  <2>1. PICK n \in Nat : n = Cardinality(dir)
    BY <1>2, RankFacts
  <2>2. Len(Entries) = n /\ \A d \in dir : Rank(d) \in 0..(n - 1)
    BY <1>2, <2>1, EntriesSorted, RankFacts
  <2>3. PICK end : end = Least(listing.offset + listing.limit, n)
    OBVIOUS
  <2>4. end \in 0..n /\ end \in Nat /\ (end = n \/ end >= listing.offset)
    BY <1>2, <2>3 DEF Least
  <2>5. PICK p : p = Slice(listing.offset, end)
    OBVIOUS
  <2>6. /\ p \in Seq(dir)
        /\ \A k \in 1..Len(p) : Rank(p[k]) = listing.offset + k - 1 /\ listing.offset + k <= end
        /\ \A d \in dir : listing.offset <= Rank(d) /\ Rank(d) < end => d \in Range(p)
    BY <1>2, <2>1, <2>4, <2>5, SliceIs
  <2>7. PICK a \in {"listing", "listed"} : a = IF end < n THEN "listing" ELSE "listed"
    OBVIOUS
  <2>8. PICK g : g = listing.got \o p
    OBVIOUS
  <2>9. listing' = [listing EXCEPT !.at = a, !.offset = end, !.got = g]
    BY <1>6, <2>2, <2>3, <2>5, <2>7, <2>8 DEF ListPage
  <2>10. p \in Seq(Names)
    BY <1>2, <2>6
  <2>11. PICK l \in Nat : l = Len(listing.got)
    BY <1>2
  <2>12. PICK m \in Nat : m = Len(p)
    BY <2>6
  <2>13. g \in Seq(Names) /\ Len(g) = l + m
    BY <1>2, <2>8, <2>10, <2>11, <2>12, ConcatProperties
  <2>14. \A k \in 1..l : k \in 1..(l + m) /\ g[k] = listing.got[k]
    BY <1>2, <2>8, <2>10, <2>11, <2>12, ConcatProperties
  <2>15. \A k \in 1..m : l + k \in 1..(l + m) /\ g[l + k] = p[k]
    <3> TAKE k \in 1..m
    <3>1. l + k \in 1..(l + m) /\ ~(l + k <= l) /\ (l + k) - l = k
      BY <2>11, <2>12
    <3> QED  BY <1>2, <2>8, <2>10, <2>11, <2>12, <3>1, ConcatProperties
  <2>16. /\ listing' \in Listings /\ listing'.at = a /\ listing'.offset = end /\ listing'.got = g
         /\ listing'.before = listing.before
    BY <1>2, <2>4, <2>9, <2>13 DEF Listings
  <2>17. a = "listed" => end = n
    BY <2>4, <2>7
  <2>18. ASSUME removed = {}
         PROVE  /\ listing.before \subseteq dir
                /\ \A d \in listing.before : Rank(d) < end => d \in Range(g)
    <3>1. listing.before \subseteq dir
      BY <1>1, <1>2, <2>18 DEF ListingPart
    <3>2. ASSUME NEW d \in listing.before, Rank(d) < end PROVE d \in Range(g)
      <4>1. Rank(d) \in Nat
        BY <2>2, <3>1
      <4>2. CASE Rank(d) < listing.offset
        <5>1. PICK k \in DOMAIN listing.got : listing.got[k] = d
          BY <1>1, <1>2, <2>18, <4>2 DEF ListingPart, Range
        <5>2. k \in 1..l
          BY <1>2, <2>11, <5>1
        <5>3. k \in DOMAIN g /\ g[k] = d
          BY <2>13, <2>14, <5>1, <5>2
        <5> QED  BY <5>3 DEF Range
      <4>3. CASE ~(Rank(d) < listing.offset)
        <5>1. d \in Range(p)
          BY <1>2, <2>6, <3>1, <3>2, <4>1, <4>3
        <5>2. PICK k \in DOMAIN p : p[k] = d
          BY <5>1 DEF Range
        <5>3. k \in 1..m
          BY <2>6, <2>12, <5>2
        <5>4. l + k \in DOMAIN g /\ g[l + k] = d
          BY <2>13, <2>15, <5>2, <5>3
        <5> QED  BY <5>4 DEF Range
      <4> QED  BY <4>2, <4>3
    <3> QED  BY <3>1, <3>2
  <2>19. ASSUME removed = {}, a = "listed" PROVE listing.before \subseteq Range(g)
    BY <2>2, <2>4, <2>17, <2>18, <2>19
  <2>20. ASSUME added = {}
         PROVE  /\ \A k \in 1..(l + m) : g[k] \in dir => Rank(g[k]) < end
                /\ IsInjective(g)
    <3>1. /\ IsInjective(listing.got)
          /\ \A k \in 1..l : listing.got[k] \in dir => Rank(listing.got[k]) < listing.offset
      BY <1>1, <1>2, <2>11, <2>20 DEF ListingPart
    <3>2. \A k \in 1..m : p[k] \in dir /\ Rank(p[k]) \in Nat /\ Rank(p[k]) = listing.offset + k - 1
                          /\ listing.offset <= Rank(p[k]) /\ Rank(p[k]) < end
      <4> TAKE k \in 1..m
      <4>1. p[k] \in dir
        BY <2>6, <2>12
      <4>2. Rank(p[k]) = listing.offset + k - 1 /\ listing.offset + k <= end
        BY <2>6, <2>12
      <4> QED  BY <1>2, <2>4, <4>1, <4>2
    <3>3. \A k \in 1..(l + m) : k \in 1..l \/ (k - l \in 1..m /\ l + (k - l) = k)
      BY <2>11, <2>12
    <3>4. ASSUME NEW k \in 1..(l + m), g[k] \in dir PROVE Rank(g[k]) < end
      <4>1. CASE k \in 1..l
        <5>1. g[k] = listing.got[k] /\ Rank(g[k]) < listing.offset /\ Rank(g[k]) \in 0..(n - 1)
          BY <2>2, <2>14, <3>1, <3>4, <4>1
        <5> QED  BY <1>2, <2>4, <5>1
      <4>2. CASE k - l \in 1..m /\ l + (k - l) = k
        <5>1. g[k] = p[k - l]
          BY <2>15, <4>2
        <5> QED  BY <3>2, <4>2, <5>1
      <4> QED  BY <3>3, <4>1, <4>2
    <3>5. ASSUME NEW j \in 1..(l + m), NEW k \in 1..(l + m), g[j] = g[k] PROVE j = k
      <4>1. CASE j \in 1..l /\ k \in 1..l
        <5>1. listing.got[j] = listing.got[k] /\ j \in DOMAIN listing.got /\ k \in DOMAIN listing.got
          BY <1>2, <2>11, <2>14, <3>5, <4>1
        <5> QED  BY <3>1, <5>1 DEF IsInjective
      <4>2. ASSUME NEW x \in 1..l, NEW y \in 1..m, listing.got[x] = p[y] PROVE FALSE
        <5>1. listing.got[x] \in dir /\ Rank(listing.got[x]) < listing.offset
          BY <3>1, <3>2, <4>2
        <5>2. Rank(p[y]) < listing.offset /\ listing.offset <= Rank(p[y]) /\ Rank(p[y]) \in Nat
          BY <3>2, <4>2, <5>1
        <5> QED  BY <1>2, <5>2
      <4>3. CASE j \in 1..l /\ k \notin 1..l
        <5>1. k - l \in 1..m /\ g[k] = p[k - l] /\ g[j] = listing.got[j]
          BY <2>14, <2>15, <3>3, <4>3
        <5> QED  BY <3>5, <4>2, <4>3, <5>1
      <4>4. CASE j \notin 1..l /\ k \in 1..l
        <5>1. j - l \in 1..m /\ g[j] = p[j - l] /\ g[k] = listing.got[k]
          BY <2>14, <2>15, <3>3, <4>4
        <5> QED  BY <3>5, <4>2, <4>4, <5>1
      <4>5. CASE j \notin 1..l /\ k \notin 1..l
        <5>1. j - l \in 1..m /\ g[j] = p[j - l] /\ k - l \in 1..m /\ g[k] = p[k - l]
          BY <2>15, <3>3, <4>5
        <5>2. Rank(p[j - l]) = Rank(p[k - l])
          BY <3>5, <5>1
        <5>3. listing.offset + (j - l) - 1 = listing.offset + (k - l) - 1
          BY <3>2, <5>1, <5>2
        <5> QED  BY <1>2, <2>11, <5>3
      <4> QED  BY <4>1, <4>3, <4>4, <4>5
    <3>6. IsInjective(g)
      BY <2>13, <3>5 DEF IsInjective
    <3> QED  BY <3>4, <3>6
  <2>21. \A d : Rank(d)' = Rank(d)
    BY <1>1 DEF Rank
  <2>22. ListingCovers'
    BY <1>1, <2>16, <2>19, <2>20 DEF ListingCovers
  <2>23. ListingPart'
    BY <1>1, <2>13, <2>16, <2>18, <2>20, <2>21, <2>22 DEF ListingPart
  <2> QED  BY <1>3, <1>4, <2>16, <2>23 DEF PagesInv
<1> QED  BY <1>5, <1>6

(* Others add and remove entries: ranks grow, or shrink.                    *)
LEMMA PagesAround ==
  ASSUME PagesInv, NEW n \in Names, AddEntry(n) \/ RemoveEntry(n)
  PROVE  PagesInv'
<1>1. /\ UNCHANGED <<name, inode, pages, listing>> /\ changes' = changes + 1 /\ changes < MaxChanges
      /\ listing.at = "listing"
  BY DEF AddEntry, RemoveEntry, Changing
<1>2. PageTypes /\ dir \in SUBSET Names /\ dir' \in SUBSET Names /\ listing \in Listings
  BY DEF PagesInv, PageTypes, AddEntry, RemoveEntry
<1>3. PageTypes'
  <2>1. added' \subseteq Names /\ removed' \subseteq Names
    BY <1>2 DEF PageTypes, AddEntry, RemoveEntry
  <2>2. FileTypeOK' /\ name' <= changes' + 1
    BY <1>1, <1>2, FileAssumption DEF PageTypes, FileTypeOK, FileAssumption, Inodes, NoFile
  <2> QED  BY <1>1, <1>2, <2>1, <2>2 DEF PageTypes
<1>4. ReadingPart'
  BY <1>1, <1>3, PagesChange
<1>5. listing.offset \in Nat /\ listing.got \in Seq(Names) /\ ListingPart
  BY <1>2 DEF Listings, PagesInv
<1>6. CASE AddEntry(n)
  <2>1. dir \subseteq dir' /\ added' # {} /\ removed' = removed
    BY <1>6 DEF AddEntry
  <2>2. \A d : Rank(d) \in Nat /\ Rank(d)' \in Nat /\ Rank(d) <= Rank(d)'
    BY <1>2, <2>1, RankGrows DEF Rank
  <2>3. \A d : Rank(d)' < listing.offset => Rank(d) < listing.offset
    BY <1>5, <2>2
  <2>4. ListingPart'
    BY <1>1, <1>5, <2>1, <2>3 DEF ListingPart, ListingCovers
  <2> QED  BY <1>3, <1>4, <2>4 DEF PagesInv
<1>7. CASE RemoveEntry(n)
  <2>1. dir' \subseteq dir /\ removed' # {} /\ added' = added
    BY <1>7 DEF RemoveEntry
  <2>2. \A d : Rank(d) \in Nat /\ Rank(d)' \in Nat /\ Rank(d)' <= Rank(d)
    BY <1>2, <2>1, RankGrows DEF Rank
  <2>3. \A d : Rank(d) < listing.offset => Rank(d)' < listing.offset
    BY <1>5, <2>2
  <2>4. ListingPart'
    BY <1>1, <1>5, <2>1, <2>3 DEF ListingPart, ListingCovers
  <2> QED  BY <1>3, <1>4, <2>4 DEF PagesInv
<1> QED  BY <1>6, <1>7

(* Every step of an agent that pages, and of others, keeps the invariant.   *)
LEMMA PagesNext == PagesInv /\ [PageNext]_<<pageVars, fileVars>> => PagesInv'
<1> SUFFICES ASSUME PagesInv, [PageNext]_<<pageVars, fileVars>> PROVE PagesInv'
  OBVIOUS
<1>1. CASE UNCHANGED <<pageVars, fileVars>>
  <2>1. UNCHANGED <<name, inode, changes, pages, dir, added, removed, listing>>
    BY <1>1 DEF pageVars, fileVars
  <2>2. PageTypes'
    BY <2>1 DEF PagesInv, PageTypes, FileTypeOK
  <2> QED  BY <2>1, <2>2, ReadingSame, ListingSame DEF PagesInv
<1>2. CASE PageNext
  BY <1>2, PagesStart, PagesRead, PagesList, PagesFile, PagesAround DEF PageNext
<1> QED  BY <1>1, <1>2

(* fs_ops.rs read and list: pages join to the file their hash names, an     *)
(* offset that was handed out is not refused while nothing changes, and a   *)
(* listing misses nothing that stays and repeats nothing unless an entry    *)
(* appears, for every file, directory, offset, limit and change by others.  *)
THEOREM PagesFit == PageSpec => []PagesSound
<1>1. PagesInv => PagesSound
  <2> SUFFICES ASSUME PagesInv PROVE PageTypeOK /\ PagesJoin /\ ListingCovers /\ FileTypeOK
    BY DEF PagesSound
  <2>1. Cardinality(pages.hash) <= 1
    <3>1. CASE pages.hash = {}
      BY <3>1, FS_EmptySet
    <3>2. ASSUME NEW s \in Contents, pages.hash = {s} PROVE Cardinality(pages.hash) <= 1
      <4>1. Cardinality({s}) = 1
        BY FS_Singleton
      <4> QED  BY <3>2, <4>1
    <3> QED  BY <3>1, <3>2 DEF PagesInv, ReadingPart
  <2>2. PageTypeOK
    BY <2>1 DEF PagesInv, PageTypes, Readings, Listings, PageTypeOK
  <2> QED  BY <2>2 DEF PagesInv, PageTypes, ReadingPart, ListingPart
<1> QED  BY <1>1, PagesInit, PagesNext, PTL DEF PageSpec
=============================================================================
