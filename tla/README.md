# A TLA+ verification of relay-shell

relay-shell is an MCP server that gives a client shell, SSH and PTY access to
hosts. One asyncio event loop runs every tool call; a call may be cancelled at
any `await` (client disconnect, MCP cancellation), and the process may be killed
and restarted by systemd at any time. What has to be right is therefore what the
code does *between* awaits, what it leaves behind when an await raises
`CancelledError`, and what survives a restart. This directory models the parts
where that is decided, checks them with TLC on small instances and proves the
most important results with TLAPS.

Paths below are relative to the repository; line numbers are in `PROJECT.json`.

## 1. The system

| Part | State | Operations | Hard because | Correct when |
|---|---|---|---|---|
| SSH pool (`sshpool.py`) | `_conns` with pins and last use, `_pending` futures, `_forwards`, one lock | `connect`, `run`, transfers, `open_process`, `add_forward`, `close_forward`, `close_all` | callers share dials; eviction races use; cleanup must take the lock again | one dial per target, slots and pins always released, nothing in use evicted |
| Session registry (`sessions.py`) | `_sessions`, per session a ring buffer, an event, a waiter count; `_teardowns` | `add`, `recv`, `send`, `resize`, `kill`, `close`, `list`, `shutdown`, sweep, reader | long polls race the reader, the sweep and close; the remover may be cancelled | no orphaned child, no lost wakeup or byte, no character torn that could be kept whole, cap holds, teardown always completes |
| Confirmation broker (`broker.py`) | `_by_token` with deadline, armed flag, client | `plan`, `arm`, `consume`, `pending` | expiry, eviction at the bound, identical calls racing | one confirmation, one execution of exactly that operation |
| Runner (`server.py` `Relay.run`, `policy.py` `Policy.check`) | the broker, the audit trail, the call in flight | admit, challenge, execute, end three ways | cancellation and crash between the records | an irreversible operation runs only when confirmed; the trail is complete |
| Audit sink (`audit.py`) | `_seq`, `_prev`, `degraded`; the log files | `_emit` from two kinds of threads, reopen, `_resume_chain`, `verify_chain` | failing and torn writes, rotation, restart | the chain verifies; a loss is visible |
| OAuth (`auth/`) | four JSON files shared with a CLI | register, authorize, exchange, refresh, revoke; approve, reject | two processes, no common lock, a worker thread, crash between files | codes and refresh tokens single-use, a replay revokes, nothing before approval, rejection final |
| Seccomp channel (`seccomp.py`) | filter program; listener descriptor, supervisor thread, event count, detached listeners | arm, handshake, serve, stop, hand over | thread against loop, launch handshake, processes that outlive the call | exactly the listed calls are notified, none is refused or left waiting, gaps are reported |
| Local execution (`shelltools.py`, `LocalPtyTransport`) | child, process group, PTY descriptor | spawn, drain, `aclose` | timeout and cancellation against the group, reaping | the leader and the session's group do not survive; every call ends |
| Tool surface (`server.py`) | the line being typed into a session | the tools' policy texts, audit arguments and work | an argument left out of the key or of the policy text | what runs is what was judged and confirmed |
| Installer (`scripts/installer_transaction.py`, `deploy/install.sh`) | targets, snapshot with manifest, pending record | begin, mutate, complete, restore, `--recover` | kill and power loss between any two steps | a crash leaves the old or the new state, or a record from which the old one comes back |
| Evidence (`deploy/evidence`) | checkpoints, approvals, anchor, the remote copy; logrotate's files | verify, save, publish, compare, push | rotation during a run, pruned heads, crash between writes | gaps are refused, honest history is accepted, the remote copy never goes back |
| Patterns, redaction, notices, config, metrics, verifier, CLI | none that another part reads back | text and file functions | - | - |

A tool call enters `Relay.run`, which asks `Policy.check` and the broker, writes
records through the audit sink, and awaits `work()`. The work calls the pool or
the registry; `register_session` hands a spawned transport to the registry, whose
teardown closes it and thereby gives the pool's pin back. The seccomp supervisor
threads write to the same audit sink. Beside the server run the operator's
`--auth-*` commands over the provider's files, logrotate and the hourly evidence
job over the audit log, and the installer.

`PROJECT.json` lists every component, with the reason for those not modelled, and
under `hazards` what in this code is hard to test, each with the properties aimed
at it.

## 2. Modules

| Module | Models | Size of a step |
|---|---|---|
| `SshPool` | the pool; a call is a task with a program counter | what a task does under the lock or between two awaits; `running` names the task that has the loop, so a task that does not suspend is not interleaved |
| `SessionRegistry` | the registry, the readers, `register_session` | everything between two awaits that can suspend |
| `ConfirmationBroker` | the token store as functions of store and clock | - (no method suspends) |
| `RelayRunner` (extends it and `ToolSurface`) | `Relay.run` over the broker, with policy, clock, cancellation and restarts, for the tools | admission, gate and write-ahead record are one step, the ending of the work another |
| `TwoStepConfirmation` | what ADR 0009 promises, with no store, clock or runner | abstract specification |
| `AuditChain` | the chained sink, its file handler, rotation, crashes, `verify_chain` | lock and fill in, reopen, write, advance are four steps |
| `ToolSurface` | each tool wrapper with a policy text as a function of its call; `_advance_line` | - (pure; its inputs are constants) |
| `Utf8Cut` | `_utf8_cut`, used by `recv` of `SessionRegistry` | - (pure) |
| `OAuthStore` | the provider and the approval CLI over four files | a load or a save of one file |
| `SeccompFilter` | `build_filter`, its assembler, and the kernel that runs the program over a system call | one BPF instruction |
| `SeccompMonitor` | launcher, supervisor thread, `stop`, detached server, and the kernel's side of the listener | one handshake message, one notification, one step of `stop` |
| `LocalChild` (extends it) | `run_command`/`run_script` or a PTY session around one child and its job | what the coroutine does between two awaits |
| `InstallerTransaction` | the journalled install with what is and what is not yet on stable storage | one target copied, removed or restored, one sync, one rename |
| `AuditEvidence` | log files, logrotate, the verifier, the sync wrapper | one file read, one file written, one rename, one push |
| `MC...` | the instances and symmetries for TLC | - |
| `SshPoolProofs`, `SessionRegistryProofs`, `RelayRunnerProofs`, `AuditChainProofs`, `OAuthStoreProofs`, `LocalChildProofs`, `InstallerProofs`, `AuditEvidenceProofs` | the invariants and theorems of the module they extend | - |

How data is abstracted. Connections, futures and cache entries go by the name of
the call that dialled them (a call dials at most once). Time is nondeterministic
where only "idle too long" matters (pool, registry) and a counter where deadlines
are compared (broker). Of a session's output the model knows how many bytes there
are and which of them begin a character (`Starts`); as bytes enter the ring buffer
at its end and leave at its front, its length says which of them it holds. An
argument word of a system call is the set of its flags, or of the name of the option
that it is; `"other"` stands for every bit, number and option that the program does
not name, which are all alike to it, as it only compares with what it names. A token is named after the
call that minted it. What the policy's patterns match is a parameter. The hash
chain of a record is the sequence of the records it covers, that is, the hash is
taken to be free of collisions. The dictionary order of the broker's store, which
its stable sort and its search both follow, is kept as a sequence number.
A registration, an authorization and a token request of the OAuth provider go by
the name of the client, code or pair of tokens they make; its clock is a counter.
A child has a leader and one job. The contents of the installer's targets are
version numbers, "torn" or absent. In the evidence a record's hash and timestamp
are one growing number (the clock does not step back), a rotation meets at most
one run of the verifier, which is daily against hourly, one verifier runs at a
time, a pass of rsync is one step, and a half-written `.gz` refuses the run. In
`ToolSurface` a text is the sequence of its lines and timeouts and output limits
are left out: `ssh_keyscan` and `ssh_check` do not put their timeout into the key.
A joined text is the concatenation of its parts; what separates them is left out,
so `ProbeSeesRun` is about the words of a text and not about where they stand.
`RelayRunner` goes by the operation's name for its key; that the tools' keys tell
operations apart is `KeyBindsOperation`.

Code outside the repository is modelled by how it is used and marked external in
`PROJECT.json`: `asyncio.Lock` (first come, first served, no suspension when
free), task cancellation, asyncssh's connection loss, the child of a transport,
the clock, and Python's buffered text stream under `logging.FileHandler`, which
keeps what a failed flush could not write and may write part of a line; the
kernel's seccomp listener (a notification of a dead process disappears, a closed
listener refuses later calls), signals and reaping, the terminal's line
discipline, the page cache, and the MCP SDK's revocation handler.

Operators named `Faulty...` are plausible mistakes in the operator behind them.
No specification uses them. Replacing the operator by its faulty form makes TLC
find a violation of the property that `PROJECT.json` pairs with it; this shows
that each property depends on the code it is about.

## 3. Runs

Passing runs.

| Run | Instance | Shows |
|---|---|---|
| `connect` | 3 runs, a `close_all`, 2 targets, cache of 1 | `SingleFlight`, `NoConnLeak`, `CapExceededOnlyByPins`: dials are shared, no connection is lost to cancellation or cached behind `close_all`; under fairness `WaitersAnswered` |
| `pins` | a session, 2 forwards for 1 slot, a `close_forward`, a `close_all`, accept-new, contended lock | `SlotIffOpen`, `PinsCoverHolders`, `ForwardsAccounted`, `HolderNotEvicted` |
| `life` | 3 spawns for 2 places, a recv | `NoOrphan`, `SessionsBounded`, `SweepSparesWaiters` (and `_waiters` is exact) |
| `stream` | 1 session, 3 recv calls, buffer of 3, characters of 1, 2 and 3 bytes | `NoLostWakeup`, `BytesConserved` (and the end of a session is the last thing read); `CharactersWhole`: a result ends inside a character only if the rest had not arrived, or if it is `max_bytes` of that character alone; under fairness `TeardownCompletes` (and answers the recv calls that wait) |
| `gate` | 4 calls, 2 clients, 2 operations of one policy text and one call of another kind, store of 2, guarded mode, write-ahead record, a restart | `TypeOK`, `ExecutionConfirmed`, `TokenSpentOnce`, `ArmedSurvives`, `TrailComplete`; `ImplementsGate`: `RelayRunner` implements `TwoStepConfirmation`; `KeyBindsOperation`, `ProbeSeesRun`: the wrappers keep what `RelayRunner` takes for granted, that an operation is its key and that the policy sees all of it, a line typed in pieces included |
| `chain` | 2 threads, 4 records, 3 faults, 2 crashes, 2 rotations | `ChainIntact`; `LossNoticed`: a lost record shows in the chain or in the health of the sink |
| `oauth` | a new and an old client, a code, 3 token pairs, a probe, one command, one crash or damaged file | `GrantUsedOnce`, `ApprovalGate`, `ReplayDetectable`, `RevokedStaysDead`, `LockdownHolds` |
| `child` | an executor call or a PTY session, monitored or not, one job, 3 notified calls against a cap of 1, 2 faults; every notified system call and one other, on either kind of architecture, with any flags in the word that decides and in the words beside it | `ObservesOnly`: notified calls go ahead, a lost start is reported, the trail has every answered call; `NobodyLeft`; `FilterExact`: what is notified is what ADR 0006 lists, and the program never runs off its end; under fairness `CallsAnswered` (and the listener is released), `CallEnds` (and so does a close) |
| `deploy` | 2 installs of 2 targets, 3 failures; 3 records, 1 retained rotation, 1 mishap, 1 approval | `Recoverable`: whole, or recorded with an intact snapshot; under fairness `RecoveryCompletes`; `GapRefused` (no gap and the whole retention window), `HonestAccepted`, `RemoteNeverRolledBack` (and the anchor is published last) |

Runs that end in a counterexample. Each states what a document, a comment or a
test of the repository says, and shows a behaviour of the code that differs; the
quotations are in `PROJECT.json`.

| Run | Property | Behaviour |
|---|---|---|
| `reject` | `RejectionFinal` | the server loads `tokens.json`, `--auth-reject` removes the client's tokens and reports success, the server saves its copy: the tokens are back. The command in turn may save a copy that it loaded before the server used a code or revoked a token of another client; `GrantUsedOnce`, `RevokedStaysDead` and `ReplayDetectable` are about behaviours in which it has not (`overwritten`) |
| `group` | `GroupKilled` | the command has ended, its job keeps the output open; at the timeout `getpgid` of the reaped leader fails and the job is not killed |
| `stall` | `HonestAccepted` | every hourly run adds an entry for the active log; at the limit of the checkpoint file the boundary of the last pruned archive is dropped, and an honest history is refused. `deploy` has the same property pass with a file that does not fill |

Five more disagreements show when the constants or the properties of a run are
changed, and have no run of their own:

- In the instance of `pins` an owner cancelled a second time, while its handler
  waits for the contended lock (`sshpool.py:493`), ends with its slot occupied by
  an unresolved future. `WaitersAnswered` is checked in `connect`, where the lock
  is never contended.
- A pin leaks there as well: a `close_forward` cancelled in `wait_closed` has popped the
  handle and keeps the pin (`sshpool.py:838`); `PinsCoverHolders` says only that
  no pin is lost.
- `InUseNotEvicted` fails with a spawn beside a run: `open_process` pins its
  connection only when the PTY is open (`sshpool.py:634`).
- `LossReported` fails in `chain`: after a failed write and a restart the next
  record takes the lost one's place and `--verify-audit` accepts the log
  (`audit.py:627`). `LossNoticed` is what holds within one process.
- `NoCharacterSplit` fails in `stream`: when the reader has delivered only the first
  byte of a character, the whole buffer fits and `recv` takes it
  (`sessions.py:78`); the next result begins inside the character, and both halves
  are decoded to U+FFFD. The test's heading (`tests/test_audit_lows.py:142`) says
  "session_recv must not split a multibyte character"; the test and the docstring of
  `_utf8_cut` have the whole character in the buffer. `CharactersWhole` is what holds.

`NoConnLeak` would fail under contention as well (the owner of a dial
passes its check, queues behind `close_all` and caches its connection
afterwards); `__main__` calls `close_all` only after the loop has ended, so the
server does not reach it.

### Bounds

The bounds are in the configurations. Three tasks for one target suffice for an
owner, a waiter that retries after the owner's cancellation, and a successor in
the slot; two targets and a cache of one make every dial an eviction; two forwards
for one slot give the only contended lock. Three sessions for two places let a
spawn suspend in its sweep while another takes the place it freed. Buffers of
three bytes, taken two at a time, overflow and split; of the characters, of one, two
and three bytes, the first fits beside the next, the second fills a read and the
third exceeds it, and the ring may drop any part of them. Four calls are a challenge,
its confirmation, its execution and one competitor; a store of two with four
calls evicts. `OneSideCall` allows one call beside the gate's own operations in a
behaviour: such calls touch neither the store nor each other's records, so two of
them show nothing that one does not. `OneStranger` gives the second client one call,
which may be any of the challenge, the confirmation or the execution. The tools
get two words, a host list over the cap and one with a bad name, an inventory host
with everything set and one that is not listed, and histories of four keys with a
kept line of three: a field left out of a key or a text shows with two values of
it, and a line that is too long with one key more than is kept. Four
records over three processes give a loss, a restart and records on both sides of
it. In `oauth` one old and one new client, a code and three
pairs give a rotation, its replay and a competitor for the same grant, with time
for every lifetime and for the grace period to pass; pairs that nobody has used
are interchangeable. `OneDisturbanceLate` lets time run to its bound only in
behaviours that do not have both a mishap and a command. In `child` three calls against a cap of one are an event, the
overflow and one after it. The filter is run over everything: all flag words, and all
system calls that its reference or its table names and one that they do not, with the
reference written down from ADR 0006 and the comments on the table, not from the
table. The call and the filter share no state, and a behaviour of `child` is one of
either with the other at rest. In `deploy` two targets make a mixture, two installs an
old record and a new one, three failures a power loss during the recovery from a
kill; one retained rotation makes every rotation a prune, and three records fill
three files. `ApprovedLate` explores approvals from the second rotation on, when
an archive has been pruned. A cap that the code does not have (`MaxTime`,
`MaxBoots`, `MaxProduced`, `MaxRecords`, `MaxFaults`, `MaxCrashes`,
`MaxRotations`, `MaxCalls`, `MaxMishaps`, `MaxCommands`,
`MaxInstalls`, `MaxFailures`, `MaxApprovals`) only bounds how long a behaviour is.

Deadlock checking is off where the calls of the instance are finite and all of
them may end. In `connect` and `pins` it is on,
and `Quiesced` is the only step of a pool whose calls have all ended.

### Fairness

`SshPool!FairSpec`: weak fairness of the steps that the event loop or
`connect_timeout` brings about. Peers that answer without a time limit, sessions
that end and calls that arrive are not fair. `SessionRegistry!FairSpec`: weak
fairness of the teardown's two steps (the loop runs ready tasks; `aclose` is
bounded, ADR 0012), of a resumed `add`, of the close of a refused transport and of
a woken `recv`. The timer of `recv` and the exit of the child are left out, so
that the liveness results do not rest on them. `LocalChild!FairSpec`: weak
fairness of the coroutine (its waits have timeouts), of the supervisor and the
detached server's thread, of the launcher before exec, of the join, of reaping
and of a process that SIGKILL has reached. A process that ends by itself, a job
that closes its output and faults are not fair. `MCDeployment!Spec`: weak fairness
of the steps of a running installer and of the operator who runs `--recover`.

## 4. Proofs

Checked by TLAPS for every value of the constants, under the named assumptions of
the modules (finite sets of calls, `None` outside them, bounds natural numbers,
the kinds of calls disjoint). Each proof module states its inductive invariant as
a conjunction of named parts; TLC checked the invariants on the instances of the
runs before they were proved. The last step of every theorem of the form
`Spec => []P` is that the invariant implies `P`.

| Module | Theorem | States |
|---|---|---|
| `RelayRunnerProofs` | `TypeCorrect`, `ConfirmationGate`, `SingleUse`, `TrailHolds` | `TypeOK`, `ExecutionConfirmed`, `TokenSpentOnce`, `TrailComplete` |
| | `ArmedTokensSurvive` | the action property `ArmedSurvives`, and that the store stays within `MaxPending` |
| | `Refinement` | `ImplementsGate`: the runner implements `TwoStepConfirmation` |
| | `KeysBind`, `ProbesSee` | `KeyBindsOperation`, `ProbeSeesRun`, for all texts, hosts, targets, inventories and histories |
| `SshPoolProofs` | `SlotsAgree`, `SingleFlightHolds`, `PinsHold`, `HoldersKeepTheirConnection`, `ForwardsHold` | `SlotIffOpen`, `SingleFlight`, `PinsCoverHolders`, `HolderNotEvicted`, `ForwardsAccounted` |
| | `CapHolds` | the action property `CapExceededOnlyByPins` |
| | `NoLeak` | `NoConnLeak`, assuming `~AcceptNew` and `Forwarders = {}` |
| `SessionRegistryProofs` | `NoOrphanHolds`, `CapHolds`, `WakeupsHold`, `SweepIsSafe`, `BytesAccounted` | `NoOrphan`, `SessionsBounded`, `NoLostWakeup`, `SweepSparesWaiters`, `BytesConserved` |
| | `CharactersKept` | the action property `CharactersWhole`, for any characters, buffer and limit |
| `AuditChainProofs` | `ChainHolds`, `LossesNoticed` | `ChainIntact`, `LossNoticed` |
| `OAuthStoreProofs` | `GrantsSingleUse`, `RevocationHolds`, `ApprovalGateHolds`, `ReplaysDetected` | `GrantUsedOnce`, `RevokedStaysDead`, `ApprovalGate`, `ReplayDetectable` |
| | `LockdownTheorem` | the action property `LockdownHolds` |
| `LocalChildProofs` | `NobodyLeftHolds`, `ObservesOnlyHolds` | `NobodyLeft`, `ObservesOnly` |
| `InstallerProofs` | `RecoverableHolds` | `Recoverable` |
| `AuditEvidenceProofs` | `EvidenceInvariant` | the inductive invariant behind the next three |
| | `GapsRefused` | `GapRefused` |
| | `RemoteStands` | the action property `RemoteNeverRolledBack` |
| | `HonestRunsAccepted` | `HonestAccepted`, in behaviours in which the checkpoint file drops no entry (`Room`) |

The arguments:

- **Runner.** `ExecutionConfirmed` says something of calls and not of the store, so
  it is not inductive. `Inv` adds `StoreBacked` (each entry agrees with the
  challenge that minted it: operation, client, deadline, life of the process; an
  armed entry has a confirming call of that client; tokens are unique),
  `SpentGone` (a spent token is in no entry) and `NothingBefore` (nothing was
  admitted after now, an idle call has spent nothing), with one lemma per way the
  store changes. That `consume` finds an entry when one matches needs a least
  sequence number (`NatHasLeast`). `ArmedSurvives` needs that the store is never
  over its bound: one plan then evicts at most one entry, and the entry just
  planned is unarmed, so the first to go is never an armed one. The refinement
  maps an entry to its challenge; the steps that do not touch the store are
  stutters.
- **Tools.** The key of a call is the pair of its policy text and its audited
  arguments, and what is run is determined by the two field by field: the audit of
  a target names host, user, port, key, trust and jump as the pool resolves them
  (`SameTerms`), so two calls of one key dial alike. Each text contains the words
  that reach the executor (`JoinedWords`). For a line typed in pieces, what `send`
  keeps is the end of what was typed since the last reset, whatever came before
  (`SinceJoined`, `EndingJoined`), so the text judged contains every line that the
  terminal then submits (`LinesJudged`), up to the bound on what is kept.
- **Pool.** `SlotInv` is `SlotIffOpen` with the types of its variables and three
  facts about program counters: a call that has not started owns no future, a call
  in `connect` has a key, and a connection is discarded only over a resolved
  future. `PoolInv` adds that a holder's entry is pinned (an unpinned entry has
  no holder, so an eviction spares them all), that what is cached was never
  evicted, and that `older`, the order of `last_used`, is a strict order of the
  cached entries. From the order, `CapHolds` gets an oldest unpinned entry
  whenever the cap would be exceeded. `NoLeak` is about the pool whose lock is
  never contended; the assumptions are those under which the code has the
  property (section 3 says how it fails otherwise).
- **Registry.** `Life`: where a session is in its life determines what its child,
  its reader and its record of removal are, and the reader is over exactly when
  the session is closed. `Attached`: a `recv` that waits or has answered has a
  session. For `CharactersWhole`, `CutFacts`: a cut that leaves something is at the
  start of a character, or at the limit with none beginning in the three bytes before.
  A character has at most four bytes, so a result that ends inside one that has
  arrived is `max_bytes` of that character (`TakeIsWhole`).
- **Audit chain.** `Serial`: only the holder of the lock carries a record, the
  newest, with the anchor's fields. `Lines` and `Anchor`: every record, on disk or
  not, names in its chain all earlier records of its process. A log that verifies
  names nothing that is not in it (`AcceptedHasAll`, by the least line that would),
  hence the first half of `LossNoticed`. `Fresh` and `Kept`: a process that is not
  degraded has left no line unfinished, so a record of its own can only vanish
  behind a line torn by a crash, and then stands in a line that is not JSON with
  only records that have predecessors behind it. `Honest` carries `ChainIntact`.
- **OAuth.** `Mutex`: a request is in a locked section exactly while it holds the
  lock. `CodesOwned`, `TokensOwned`: a record on disk, or in any copy that somebody
  is about to save, belongs to a request that has finished. `Spent`, `Dead`: a
  used grant and a revoked token are in none of these copies. `Accepted`, `Gated`:
  every copy and every acting client is accepted, and until `approvals.json`
  exists only the old client is registered. The attempt to prove `GrantUsedOnce`
  showed that a `reject` of one client may bring a used code or token of another
  back. The instance of `oauth`, in single-client mode, does not reach it; with
  `SingleClient = FALSE` and one more pair TLC finds it. The properties now say so.
  For `ReplayDetectable`, `Family`: in every copy of the tokens, the grant of a
  refresh token has a marker that lives as long, or `MaxSpent` others of the client
  do, and so has the grant of a marker. A rotation extends the markers it keeps to
  the life of the new pair (`RotatedFamily`); a line of rotations of any length
  follows marker by marker (`LinesMarked`).
- **Local child.** Who is left is decided at the kill or at the wait for the
  leader (`Ending`: a doomed or dead leader starts no job). The monitor does not
  interfere because of where the notify descriptor is at each stage of launcher
  and supervisor (`Stage`).
- **Installer.** `Places`: what each place of the transaction guarantees.
  `Vouched`: what a record vouches for is the host as it was. `Settled`: when a
  power loss could take the record, the host's content is on stable storage.
- **Evidence.** `Disk`: the files hold ascending records, and names that are missing
  between two files leave room for a record each. `Chain`: what a record says of its
  predecessor is true of those that are there, and what lies between the two was
  missing when the server resumed. `Accounted`: a record is on the host, lost, or
  copied and older than everything on the host. `Reading`: what a run has read fits
  what it has still to read, though logrotate renames and prunes meanwhile and a
  file may be read under two names. `GapRefused` then goes from the least record
  behind a gap to the record that it names (`NoGap`), and counts names for the
  retention window (`WindowWhole`). `Publishing`: between comparison and push the
  anchor is one that may be published and names a record that has been copied. For
  `HonestAccepted`, `Honest`: without a mishap records are numbered from one, what
  is on the host is an end of them, the boundary in front of it was seen unless it
  was pruned unseen, and what was seen has its checkpoint; a run that logrotate does
  not disturb then reads every file (`AllRead`), its oldest segment has its
  checkpoint (`HeadAccepted`) and every other continues the one before
  (`SeamsAccepted`). `Room` is needed where the checkpoints are written and nowhere
  else: it is what `stall` violates, and it holds throughout `deploy`.

Only model-checked, and why:

- the liveness properties (`WaitersAnswered`, `TeardownCompletes`, `CallsAnswered`,
  `CallEnds`, `RecoveryCompletes`): fairness and `ENABLED` are out of the
  prover's reach;
- `FilterExact`: it is about one concrete program, and the run executes it for all
  its inputs; there is no parameter to generalise over.

## 5. Not modelled

The regular expressions of `patterns.py` and `redaction.py` and the wording of
notices are text functions; `config.py`, `verifier.py` and the CLI read and
report; `metrics.py` counts; the rehearsal, CI and monitoring scripts drive
containers and APIs. In the modelled parts: token checks and forward-spec
parsing, byte limits of `run`, prompts for secrets (`awaiting_secret`), the
unchained audit mode, the CEF and LEEF formats, `tail`, the canonical addresses
that widen a policy text, the rehashing of legacy OAuth records, the PTY's
`write`, `read_loop` and `resize`, the output budget and the concurrency of
`ssh_fanout` and `ssh_check`, the MCP resources and prompts, the probe for seccomp
support.

## 6. Plan

1. Done: the modules of section 2, the runs of section 3, the proofs of section 4.
2. Proofs: `NoConnLeak` with `accept-new` for calls that are not cancelled in
   `persist`; `HonestAccepted` with a weaker `Room`, in which the boundaries of
   archives that are still on the host may be dropped, as the next run enters them
   again.
3. Models: the PTY's `write` against `aclose` and the sweep; `ssh_fanout` as a
   parent of pool calls; two `session_send` calls for one session; `tail` beside a
   rotation.
