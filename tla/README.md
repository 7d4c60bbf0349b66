# Verification of agent-remote

agent-remote gives a coding agent file, command and transfer access to a remote
workspace. This directory holds TLA+ models of its core, the TLC runs that check
them and TLAPS proofs of the properties that matter most. Paths below are
relative to `src/crates/`.

## The system

| part | state | operations |
| --- | --- | --- |
| operation store, `agent-remote-server/src/store.rs` | `operations.jsonl`, `requests.jsonl`, `op-counter`, `blobs/`; in memory the record vector, the request table, `next_id`, `write_lock` | claim_request, remember_*, prepare/commit_fs_record, append_exec_record, recover, prune, load |
| dispatch, `server.rs` | one tokio task per request line | run, handle, handle_exec, finish, Server::new |
| mutations, `fs_ops.rs`, `undo.rs` | the workspace files | create, edit, delete, undo |
| commands, `exec.rs`, `config.rs` | a child process, two readers, a bounded channel, two output windows | exec |
| paths, `workspace.rs` | the two roots | resolve |
| reading, `fs_ops.rs` | none: every call looks for itself | list, stat, read |
| transfers, `transfer.rs` (server and client) | upload registry (memory), staging files, target | upload_prepare/commit/abort, sweeps, download |
| client, `agent-remote-client/src/lib.rs` | stdin mutex, reply map, close flag, Notify | send_request_with_timeout, wait_closed, reader_loop |
| MCP server, `agent-remote-mcp` | one Client slot per workspace | reconnect with retries, tool wrappers |

Request lines become concurrent tasks of a multi-threaded runtime. Mutations,
`gc`, `upload_commit` and `download_record` serialise on `write_lock`; exec, the
idempotency table, `upload_prepare` and `upload_abort` do not. Each durable
append is followed by a table update, so the two can be seen apart. The process
dies whenever the ssh connection does (stdin EOF drops every task), and the next
connection starts a new one that reads the logs, reconciles prepared markers with
the files, resolves requests that were in progress and prunes.

What is hard here: a crash between marker, rename and commit, or inside a line of
the log; duplicates and retries of a request id; appends that race the rewrite of
the same file, or each other; a file that changes between two looks, two pages or
during a download; a path whose links lead elsewhere when it is resolved again; a
failure after the effect; output that outlives its command; wake-ups that race a
close; an abort that races its own commit; a reconnect that races the server it
replaces. `PROJECT.json` lists these hazards with
their lines and the properties aimed at them.

What makes each part correct:

* store and dispatch: a request takes effect at most once and keeps its answer;
  the log covers every effect; operation ids are never reused; recovery ends;
* mutations and undo: the history explains the files; an undo restores exactly
  what its target replaced, or refuses;
* client: request lines are whole, an answer reaches its own call, every call
  returns, and "closed" is final;
* the log files: what was acknowledged is found again or the log is refused, and
  crashes alone never make it refused;
* commands: exec returns whatever its processes do, reports the true first and last
  bytes, and leaves no process of its group behind after a timeout;
* MCP slot: calls return, a fresh connection is shared, and a new server is kept out
  of the state directory only by one that is lost;
* reading: pages join to one version of the file and come to an end;
* uploads and downloads: only whole verified payloads appear at the target, nothing
  is clobbered, clean failures leave nothing behind, and what is reported is true;
* paths: what resolves is inside its root, and recovery and undo, which resolve a
  recorded path again, find what the operation did.

## Modules

* `StoreData` - the records, entries and answers of the store, and its pure
  decisions: `Outcome` (recover's verdict on a marker), `Reconstruct`,
  `Retained`/`TrimRequests` (prune), `IsHighWater` (the id counter at load).
* `AgentServer` - one server process and the state directory that outlives it.
  `ops`, `reqs`, `counter`, `blobs` are the files, `mops`, `slot`, `mreqs`,
  `nextId`, `guard`, `prune` the memory, `task` the tasks. One action per step of
  a handler that others can observe: each append, each table update, each look at
  or change of a file. A log is a function from id to its last line, which is
  what the loader makes of it. `effects`, `runs` and `told` are ghosts: what the
  server did and what it said.
* `IdempotentService` - what the server promises: an effect per request in one
  atomic step, and success answers that describe it.
  `AgentServer!Service` is the refinement mapping (`Fate`, `Acked`).
* `MCAgentServer` - workloads for TLC.
* `AgentServerInv` - the inductive invariant; `AgentServerProofs` - its proof;
  `RecoveryProofs`, which extends it - what log and history promise over crashes and
  prunes, then requests, answers and the refinement, then the operation ids.
* `ClientConn` - one Client with concurrent calls; the server end of the pipes is
  external and owes nothing. `ClientConnProofs` - its proofs.
* `Uploads` - upload calls to one target path, the server's registry, commit
  task, sweeps, client timeouts and server deaths. `UploadsProofs` - its proofs.
* `JsonlLog` - one log file as the pieces that single writes put into it (`file`,
  of which `synced` are stable): the text and the newline of a line are two writes.
  `ParseLine`, `Repaired` are the loader, `RewriteTemp`/`RewriteRename` the rewrite
  of a prune, during which an append may still have the old file open (`gen`).
  `JsonlLogProofs` - its proofs.
* `ExecRun` - one exec from its checks to its outcome: `proc` the command and a
  descendant (external), `pipe`, `rd`, `chan` the way of the bytes, `cap` the two
  windows, `pc` the select loop, the reaping and the drain. `ExecRunProofs` - its
  proofs.
* `Reconnect` - tool calls at one slot (`slot`, `mutex`), the connections they make
  (`conn`: link, server process, closed flag) and the directory lock (`lock`) their
  servers wait for. `ReconnectProofs` - its proofs.
* `RemoteFile` - a path and the files it names in turn (`name`, `inode`), changed by
  others. `Paging` - the agent's paged read (`pages`) and paged listing (`listing`);
  `PageSpec` is a reader alone with a file and a directory that change at any time.
  `Downloads` - `download_file` (`call`), `run_transfer_send` (`sender`), the bytes
  between them (`pipe`), the local target (`local`) and the record; `DownloadSpec` is
  a download alone with a remote file that changes at any time. `ReadingProofs` proves
  about `PageSpec` and `DownloadSpec`.
* `WorkspacePaths` - a tree with links (`tree`), `resolve`, and one mutation (`use`)
  whose recorded path recovery or undo resolves again; mutation and undo are two steps
  each, marker and change, and others may change the tree between them.
* `MCReading` - composes the last four for TLC.

Operators named "Mutant of X" are deliberate errors; they are used only to show
that a property can fail.

Abstractions. File contents are model values and stand for their own hash; an
edit is a partial function on contents. Timestamps are a logical clock, so two
records never share a millisecond. For `AgentServer` a failed append either reached
the file or did not; torn and joined lines are `JsonlLog`'s. A prune that fails
while deleting blobs deletes none. The arm of recover() for request lines without an `op` field is left out:
every line this version writes has one. `upload_prepare` creates and registers the
staging file in one step (a fresh file is never swept, so nobody can tell). In
`ExecRun` the k-th byte of a stream is the number k; the lossy conversion to text and
the quoting of the shell line are left out. In `Paging` a character is one byte or
three. The sender of a download reads a byte at a time; the directory that is listed
stays. `StoreData` has no transfer records: an `upload_commit` or `download_record` whose
request id is sent twice would be answered from the table or reconstructed from its
record (`store.rs` 655, 750), but the client makes a new id for every request and repeats
none. A start that fails, because an append does or because a marker's file cannot be
hashed (`store.rs` 272), is a `Crash` of `AgentServer` during recovery; a file that can
never be hashed keeps the server from ever serving. `WorkspacePaths` runs one mutation without failures of its own; `AgentServer`
sees only whether a path resolves.

## Runs

Every run of the server has one path, at most three contents, at most three
request ids, three to five request lines and one or two crashes; a second path adds
nothing because records of different paths meet only in ids, the table order and
prune, which the bounds exercise. Two tasks suffice for the races between a claim
and its duplicate, a mutation and an exec, a mutation and a prune. `MaxOps` is at
least `MaxSends`, so the id bound never blocks a request. `MCGc` keeps one record at a
startup prune and none or one at a gc, so that a prune takes records and leaves one.

| run | question |
| --- | --- |
| `MCMutations` | concurrent mutations, duplicates, a gc that is refused, a crash anywhere: `SingleOwner`, `NoPhantom`, and the refinement `ImplementsService` |
| `MCSequential` | one request at a time, retries, two crashes: `HistoryExplainsFile`, `SafeUndo`, `AtMostOnce`, `AnswerSurvives` |
| `MCFailures` | an I/O failure anywhere, a crash, and a workspace that changes under the server: `LoggedEffects`, `AckedSurvives` |
| `MCGc` | gc and startup prune with a crash and a failure anywhere: the proofs' invariant `IInv`, `BlobIsBefore`, `OpIdStable`, `AckedUnlessPruned`; under fairness `Answered`, `Recovers` |
| `MCClient` | two calls, a pipe of two chunks: `CallsKeptApart` (`WholeLines`, `TrueReply`), `ClosedIsFinal`, `NoStaleWaiter`, `EofReturns` (no timer needs to fire), `WrittenReturns` (timers fire) |
| `MCUploads` | two uploads, every choice of overwrite, a crash, a failure, a timeout: `InstallsSound` (`WholeTarget`, `OkIsLogged`), `FailsClean` (`NoLitter`, `InFlightKept`, `FailedUntouched`), `NoClobber` |
| `MCLog` | a guarded and an unguarded writer, two lines for each of two ids, two crashes, a failed write, a rewrite: `NoSilentLoss`, `CrashSafe` (`Restartable`, `TableIsLog`) |
| `MCExec` | a command and a descendant, four bytes, every kind of request: `OutputTrue` (`WindowsExact`, `CompleteOutput`), `NoRunaway`, `Returns` |
| `MCReconnect` | two calls, two attempts each, two faults, with and without a server left behind: `SlotSound` (`SlotServes`), `BlockedByLost`, `NobodyHangs` (`CallsReturn`, `NoOrphan`), `Recovers` |
| `MCReading` | a paged read, a listing or a download while others change things twice and one call fails: `PagesSound` (`PagesJoin`, `ListingCovers`), `DownloadSound` (`VerifiedInstall`, `Faithful`, `ReportsTrue`), `NoClobberLocal`, `ReadersReturn` (`PagesEnd`, `DownloadReturns`); or a mutation in one of some 70 trees with links: `StaysInside`, `OperationFound` (`UndoRestores`, `RecoveryKnows`), `UndoSpares` |

Where a property has parts, they are in brackets; the invariants among them also
include the module's type invariant, and for each part there is a deliberate error
that breaks it.

Bounds of the later runs. `MCLog`: two writers are what an interleaving of two-write
lines needs, two crashes allow a crash after a repair. `MCExec`: windows of one and
two bytes, reads of two and four bytes in all put every boundary inside, at the end
of and between reads; a channel of one event and a pipe of two bytes are full at
times. `MCReconnect`: two calls meet at the slot, and two faults use up one call's
attempts. `MCReading`: files of up to four bytes, limits of up to three and offsets
past the end, with a three-byte character at either end of a page; a pipe of two
items blocks the sender; two changes can undo each other. The trees have the names
`a`, `b` and `a/b` as directory, file or link to a file, a directory, nothing, itself
or each other, inside and outside; longer paths repeat the same steps of the walk.

Runs whose name starts with V show a disagreement between the code and what the
repository says of it; `PROJECT.json` quotes the line.

* `VExecReplay` - the startup prune drops the error recovery has just stored for
  an interrupted exec, and a retry runs the command again.
* `VLogInterleaved` - two appends that hold no guard mix their lines; both callers
  are told Ok, and every later start refuses the log.

More things the models show, for which no run is kept. In the store:

* An exec that races gc loses its record, and its id is used again (`store.rs` 834,
  `OpIdStable` with exec and gc together; in `JsonlLog` such a line is `exposed`).
* A claim line is lost in the same way: `claim_request` appends it without the write
  guard (`store.rs` 459), and a gc that has looked at its table and not yet rewritten
  `requests.jsonl` erases it. The task wins its claim in memory and mutates; if the
  server dies before the answer is stored, the restart knows nothing of the request
  although its record is in the log, and a resend runs it again (`AtMostOnce` with gc,
  two crashes and three tasks; the repository's README 275 says "The replay window equals
  the retention window"). `AckedUnlessPruned` allows for this with `Reran`.
* A late duplicate claim overwrites the stored error of its request on disk
  (`store.rs` 459, `AnswerSurvives` with two tasks).
* The marker of a mutation that failed stays in the log, and when another
  operation later brings the file to the same content a restart takes it for a
  commit (`NoPhantom` with `MaxFails = 1`; `fs_ops.rs` 319).
* An edit's hash and before-image come from two looks at the file; if a command
  writes in between, the undo answer reports a hash it did not restore (`undo.rs`
  156).
* An edit whose commit append fails is answered with an error and is in the file
  (`fs_ops.rs` 431).
* Checks and changes are apart. An undo hashes the file, appends and syncs its marker
  and then removes or renames (`undo.rs` 28, 88, 101, 135); an edit does the same
  (`fs_ops.rs` 376, 430). What a command writes in between is overwritten, although
  DESIGN.md 214 says "instead of clobbering later changes", and a directory replaced
  by a link in between leads the change elsewhere. `UndoSpares` is about what others
  did before the undo looked.

In transfers and reading:

* An upload is installed before it is recorded; a crash, a failing append or a
  client timeout in between fails the call with the destination changed (server
  `transfer.rs` 178). `FailedUntouched` is about the other failures.
* In the same way a download is installed before it is recorded: if the record fails,
  the call fails with the local destination changed (client `transfer.rs` 404). Its
  message says so, and `ReportsTrue` asks for that; the repository's README 224 says that
  a failed transfer "leaves the destination absent (or untouched)", for both directions.
* `download_file` waits for its sender without reading on or killing it when the
  local disk fails; with a full pipe neither moves (client `transfer.rs` 373).
  `DownloadReturns` leaves this case out. The data plane has no timeout of its own.
* A remote file that is replaced between the sender's stat and its open is cut at
  the old size, and the prefix is installed as verified (server `transfer.rs` 424).
  `Faithful` leaves this window out (`raced`).
* Listing offsets count entries: a removed entry makes the next page skip one, an
  added one makes it repeat one (`fs_ops.rs` 60).

In paths:

* A delete through a link removes the file the link leads to and records the link's
  path. The link then leads to nothing, so the undo takes its place for an absent
  file and puts the content there: the link is gone and its target stays absent
  (`undo.rs` 27). In the same way the undo of any delete replaces a link to nothing
  that somebody has put there since.
* A path that ends in a slash or a dot is accepted by `create` while the file is
  absent; once it is there the path does not resolve, so the file cannot be read,
  edited or undone under the recorded path, and recovery calls a finished create a
  conflict (`workspace.rs` 100).

Around the command and the connection:

* A descendant that left the process group and holds the pipes survives the expired
  drain (`exec.rs` 168). `NoRunaway` is about those that stayed.
* If waiting for the child fails, the answer is an error for a command that ran
  (`exec.rs` 142).
* A call writes its request outside the timeout and with the stdin mutex held: if
  the server stops reading and the pipe is full, it never returns
  (`agent-remote-client/src/lib.rs` 193). `WrittenReturns` starts after the write
  for this reason.
* A read error, such as a line that is not UTF-8, ends the reader and closes the Client
  while the child runs on (`agent-remote-client/src/lib.rs` 542; line 119 says "When
  stdout ends, the child has exited"). The slot keeps the closed Client, and with it
  stdin, until another one has passed its probe (`agent-remote-mcp/src/lib.rs` 347, 369);
  the server at its far end keeps the directory lock, so no other one can: this process
  blocks its own reconnects until that server or its link dies. `BlockedByLost` names
  this as one of two ways to be blocked, and `Recovers` leaves it out (`SlotDeaf`).

Some properties hold only where their run says so. `AtMostOnce` needs a workspace
nobody else writes to and appends that do not fail: if the file returns to its old
content, recovery rightly finds "not done" and the retry does it again.
`NoPhantom` needs appends that do not fail. `AckedSurvives` excludes undo together
with external writes (the undo answer above) and prune, for which there is
`AckedUnlessPruned`, which in turn excludes I/O failures: while the record of a success
is in the history the request has a success, and the same one unless it ran twice. `AnswerSurvives` needs
requests sent one at a time. `Restartable` and `TableIsLog` need appends that neither
fail nor overlap (`VLogInterleaved`). `Recovers` of the slot needs a slot that holds no
closed Client of a living server. `UndoRestores` and `RecoveryKnows` need a tree
nobody else writes to.

Fairness. The server: a task that can move does (the runtime polls every ready
task, tokio's mutex is first come first served), prune and recovery are
straight-line code. Nothing forces sends, crashes, failures or external writes.
The client: calls and the reader are polled and the stdin mutex is fair (strong
fairness of `Lock`). That a due timer fires is an assumption of its own,
`TimersFire`, which only `WrittenReturns` makes. The server end owes nothing.
Exec: the task and its readers are polled and due timers fire; nothing is asked of
the command's processes. Reconnecting: calls are polled, the slot's mutex is first
come first served (strong fairness of `Enter`), servers are running programs, and
the far end of a broken link notices in the end (external: ssh keepalives, or the
kernel); a server whose stdin has ended is gone before the grace period of its
successor is over. Reading: the agent goes on to the next page, the call is polled,
the sender runs. Nothing forces a change, a fault, a crash or a recovery.

## Proofs

For every value of the constants: any number of tasks, requests, paths, contents,
calls, uploads, crashes and so on, where the runs have two or three.

| module | theorem | states | where |
| --- | --- | --- | --- |
| `AgentServerProofs` | `TypeCorrect` | `TypeOK` | always |
| | `WriteAhead` | `LoggedEffects` | always |
| | `OneOwner` | `SingleOwner` | always |
| | `Inductive` | `IInv` | always |
| `RecoveryProofs` | `HistoryIsTrue` | `NoPhantom` | until a disturbance |
| | `HistoryExplains` | `HistoryExplainsFile` | same |
| | `UndoIsSafe` | `SafeUndo` | same |
| | `BlobsAreKept` | `BlobIsBefore` | same |
| | `RequestsAtMostOnce` | `AtMostOnce` | same, no prune |
| | `SuccessSurvives` | `AckedSurvives` | same, no prune |
| | `AnswersSurvive` | `AnswerSurvives` | same, no prune, one request at a time |
| | `ServiceImplemented` | `ImplementsService` | no prune, no disturbance |
| | `IdsAreStable` | `OpIdStable` | no exec beside a gc that prunes |
| | `ReplayWindow` | `AckedUnlessPruned` | no exec beside a gc that prunes |
| `ClientConnProofs` | `ClosedSticks` | `ClosedIsFinal` | always |
| | `NoLeakedWaiter` | `NoStaleWaiter` | always |
| | `KeptApart` | `CallsKeptApart` | always |
| `UploadsProofs` | `InstallsAreSound` | `InstallsSound` | always |
| | `FailuresAreClean` | `FailsClean` | always |
| | `NothingClobbered` | `NoClobber` | always |
| `ReconnectProofs` | `SlotIsSound` | `SlotSound` | always |
| | `OnlyLostBlock` | `BlockedByLost` | always |
| `JsonlLogProofs` | `NothingLost` | `NoSilentLoss` | always |
| | `LogStaysReadable` | `CrashSafe` | always |
| `ReadingProofs` | `PagesFit` | `PagesSound` | `PageSpec` |
| | `DownloadsAreSound` | `DownloadSound` | `DownloadSpec` |
| | `NothingClobberedLocally` | `NoClobberLocal` | `DownloadSpec` |
| `ExecRunProofs` | `OutputIsTrue` | `OutputTrue` | always |
| | `NothingRunsAway` | `NoRunaway` | always |

Assumptions. On the constants, in the module that declares them and evaluated by
the runs: sentinels are not in the sets they extend, bounds are naturals (capacities
and sizes positive where the code's constants are), workloads and initial files
have their types, and an edit changes what it edits (`SentinelAssumption`,
`MaxOpsAssumption`, `WorkloadAssumption`, `EditAssumption`, `FilesAssumption`,
`BoundsAssumption`, `ConnAssumption`, `UploadsAssumption`, `ReconnectAssumption`,
`FileAssumption`, `DownloadAssumption`, `ExecAssumption`); the ids of a log
(`LogAssumption`) and the names of a directory (`PagingAssumption`) are finite sets,
because a rewrite goes through the one and a listing sorts the other. Conditions of single
theorems, each needed (see "Some properties hold only where their run says so"):

* `NeverPrunes`: pruning is switched off (`--history-limit 0`) and nobody calls gc
  with a limit. By default the limit is 1000 records, and a prune at startup drops
  the answers of requests without a record in any case (`VExecReplay`); the four
  theorems that assume it say of every request what a prune takes away on purpose.
* `~Racy` (`IdsAreStable`, `ReplayWindow`): not both a command and a gc that prunes are among the
  requests; otherwise the first finding of the list above applies. It is a condition on
  the workload, not on what happens.
* `Undisturbed`: no append has failed and nobody else has written to the workspace
  so far. The theorems say `[](Undisturbed => P)`: P holds up to the first
  disturbance, and crashes, duplicates and concurrency are not disturbances.
* `Sequential`: there is one task, so a request is sent when no other is under way.
* `ServiceImplemented` is about whole behaviours, so it takes `MaxFails = 0` and
  `MaxExternal = 0` instead of `Undisturbed`. `IdempotentService` has no fairness;
  that answers come is `Answered`, which TLC checks.

The write-ahead rule. `TypeOK` is not inductive: whether a record is well
typed depends on what the program counter says of the task that writes it, so
`TypeInv` adds the shapes of tasks, records, a running prune and a pending
recovery. `LoggedEffects` needs more. The marker must be in the log before the
file changes (`WalInv`); no other task, and no earlier effect, may have the same
operation id (`IdInv`, `FreshInv`), which rests on ids below `nextId` and, over a
restart, on the highest id being found again in log or counter; a prune writes the
log back from memory, so memory must cover what the log covers (`MemoryCovers`),
and the counter must be on disk before (`CounterCovers`); startup has no tasks and
a prune has one owner (`PhaseInv`). The conjunction `WalIInv` with `TypeInv` and
`SingleOwner` is `IInv`; `MCGc` checks it. The proof sorts the steps by
what they do to log, memory, counter and effects (`Quiet`, `TakesId`, `Writes`, ...)
and shows each sort once. `SingleOwner` is inductive together with `TypeInv`: the
second lookup under the lock, and the rule that a prune keeps entries in progress.

Log and history (`StoreInv`, `CalmInv`, on top of `IInv`). A committed record was
made; a marker is true of the file, which holds its new content if it was made and
its old one if not, so recovery's look at the file gives the right verdict; there is
one marker at most (`OneMarker`), because the write guard is held from marker to
commit and recovery resolves what is left before any task starts. Memory is the log,
but for markers already dropped and records on their way. The newest record of a
path is the file's content, which is what makes the check of undo enough. A prune is
followed through its stages (`PrunePart`): what it has taken from memory is in the log
until the rewrite, keeps its blob until the blobs go, and was older than all that is
kept, so the newest record of a path goes only with all others of that path; then the
counter covers the path's effects. Commands write their records without the guard, so
a record can be in memory and not in the log after a gc (`Lost`), which none of the
four properties minds.

Requests (`RequestInv`, `CalmRequests`). A success anywhere (log, table, an answer
on its way or told) is *backed*: a committed record of that request stands for it,
and there is only one such record. A request that is in progress with no task left
was taken by a crash, and recovery finds either its record or nothing. For errors
nothing in the operation log stands, so `AnswerInv` adds that with one request at a
time no second claim writes over a stored one. The refinement maps a request to
what `Fate` says of it and an answer to the service's when it is backed; each step
of the server is one step of the service (the rename of a mutation, the start of a
command, the sending of an answer, ...) or none.

Operation ids (`IdsInv`), in any state of disturbance. An id that is known anywhere
(told, in a table, a log, a task's hands, an effect) has one holder, and a known id is
barred from being handed out again, by a line of the log or by the counter. A prune
takes lines, so the counter must have been written before; while the log is being
rewritten the counter alone must do. With a command beside a gc this fails, as the
finding above shows, and the proof needs `~Racy` in exactly that place.

Answers on a server that prunes (`SaidInv`, `AckInv`, `AnsweredInv`). With prunes a
success is no longer backed by a record, and a request may run twice, so the argument
goes the other way round. `SaidInv` is about what answers say: a success that was told,
is stored or is on its way is the reply to a mutation the request made, or names a
command the request started; nobody is about to write the record of an operation that
an answer names, no rejected command is named, and a request that started one command
has one operation (`OneStart`). `AckInv` is about where the record of such an operation
is: if it is in memory, so is a success of its request, or recovery has yet to look into
the request; if it is in the log, the request log has a success or an entry in progress,
and nobody runs the request. That holds through a prune because the trim drops entries
only of requests without a record, and the two logs are rewritten in the order log,
requests: when the requests are written, every record in the log is in memory too, or a
task that holds the claim is about to store it (`PruneReqsAck`). A claim that is won finds
no record of what was given (`ClaimWonAck`): a request whose success was told runs again
only when that record is gone.

The log files. `LossInv`: of each id the versions in the file only grow, and a line
that was acknowledged is ended and synced, so a crash cannot take it and a repair of
the torn end cannot reach it; a rewrite puts down what the table has, which is not
older. `CleanInv` adds that without failed or overlapping appends the file consists of
whole lines and at most one line in the making, at its end.

The client: the flag is set before anything from which a call can
conclude "closed" (`FlagFirst`), and a sender is in the reply map, in the reader's
hands or spent, never in two places (`OneSender`). For whole lines `LineInv` follows
the bytes of a call from the mutex into the pipe: only the holder has written part
of a line, and it is the end of what is there.

Uploads (`UploadInv`): which control requests of a call can still arrive
(`RequestOrder`), how far its commit is and what it finds in the staging file
(`CommitStage`), and that a call which failed cleanly knows that nothing of it is
left (`CleanUp`). Reconnecting (`SlotInv`): the mutex is held exactly while a
connection is made, the directory lock by the one server that serves, and an
attempt not yet made is unknown to everybody. A connection leaves the slot only when
another one has passed its probe, whose server then has the lock, so a call that still
uses the old one uses one whose server has exited. What keeps a new server out is
therefore cut off, or is the closed Client in the slot itself.

Paging (`PagesInv`). What the pages brought so far is a piece of the version whose hash
the last page named, and the next offset is a boundary between characters of it, so the
next page of the same version continues it. For listings a page is described by ranks:
an entry is on the page if as many names are before it as the offset says, and the
ranks of entries that stay only fall when others are removed and only rise when others
are added.

Downloads (`DownloadInv`): the sum is the last item of the pipe and is that of all
that was read, what was received and what is in the pipe is what was read, and what
was read is a prefix of one version unless the file changed in the sender's hands.

Exec (`ExecInv`). A byte is its own number, so order and loss can be stated. The
bytes of a stream are in five places in turn: captured, in channel events, in the
reader's buffer, in the pipe, or not yet written. `Way(s, f)` says that a function
f exists that counts the bytes before each channel event, such that each place
starts where the one before ends; this needs no recursion over the channel.
`PushExact` is the lemma about `OutputCapture::push`: windows that are exact for n
bytes are exact for n plus the length of the chunk, whatever its length against the
two windows. `NoRunaway` rests on the group being killed before anything reports a
timeout or an expired drain, and on a dead group having no new members.

Only model-checked, and why:

* liveness, which is outside this prover: `Answered`, `Recovers`, `EofReturns`,
  `WrittenReturns`, `Returns`, `NobodyHangs`, `Recovers` of the slot, `ReadersReturn`;
* `AtMostOnce`, `AckedSurvives`, `AnswerSurvives` and the refinement for a server that
  prunes: there they do not hold, by design (`VExecReplay`) and by the finding above;
* `StaysInside`, `OperationFound` and `UndoSpares` of `WorkspacePaths`: what a lookup
  finds needs induction over the path and the links on it.

## Not modelled

Left out, with the reason:

* argument parsing, printing, the interaction log, serialisation, the typed wrappers
  that build one request body each, and the MCP tools around the slot: they keep no
  state and take no decision the properties depend on;
* exact text replacement, sizes and file modes: data, not control;
* the order of records with equal timestamps: it changes only the order `history`
  shows and which of two equally old records a prune drops first;
* `Workspace::relative`, which only a test calls.
