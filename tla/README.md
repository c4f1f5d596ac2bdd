# A formal model of kagura-memory

`kagura-memory` is the Node.js client of Kagura Memory Cloud: client classes, a
`kagura-memory` command line and a `kagura-memory-mcp` proxy.  Most of it turns one
call into one request.  What is hard is the state that outlives a call and is shared,
and the commands that take several steps: the credentials file that every process of a
user reads, refreshes and rewrites, the lock file that guards it, the MCP session a
client keeps open, the one browser login of a proxy, uploads and setups that fail half
way.  This project models that in TLA+, checks it with TLC and proves the main results
with TLAPS.

Paths are those of the package (`auth/credentials.ts` is `src/src/auth/credentials.ts`
in `PROJECT.json`).

## Inventory

| Component | State it keeps | Operations | Hard because | What makes it correct |
|---|---|---|---|---|
| File lock, `auth/filelock.ts` | `credentials.json.lock-v1` and the owner record in it; the `.lock` marker of older clients | `acquireFileLock`, `release`, `withFileLock` | separate processes, several system calls per operation, crashes, a deadline, manual recovery | one owner at a time; no lock is stolen or deleted by another; every waiter is answered |
| Shared credentials, `auth/credentials.ts`, `refresh.ts`, `login.ts` | `credentials.json`, `.revocations-v1`, and per process a state cache and a promise mutex | `getAuthHeader`, `forceRefresh`, `refreshProfile`, `login`, `setDefaultProfile`, `deleteProfile`, `deleteCredentialsFile`, `saveConsentProfile` | refresh tokens work once; a rotation and its save are two steps; a consent takes minutes outside all locks | no token is sent twice; the file stays refreshable; logout is final; no update is lost |
| `auth` commands, `cli/run.ts` | none of their own | `auth login, refresh, use, token, logout` | logout reads, revokes and deletes at three moments | what is logged out does not come back |
| Device flow, `auth/deviceFlow.ts` | the locals of one poll loop | `authorizeDevice`, `pollForToken` | interval, `slow_down`, `Retry-After` and expiry combine | polls keep the server's pace and end |
| Proxy login, `mcp/auth.ts` | `oauth`, `loginAttempt`, `loginAttempted` | `getAuthHeader`, `forceRefresh`, `authenticate` | requests that need a login together, other processes that log in meanwhile | one browser login per process, only in need; every request ends |
| `KaguraClient` session, `client.ts` | `sessionId`, `sessionOpening`, `sessionEpoch` | `initializeSession`, `jsonRpcResult`, `close` | concurrent calls, an expired session, `close` during a handshake | one handshake for all callers; a retry is sent once |
| Proxy transport, `mcp/transport.ts` | `session`, `protocol`, `initialize`, `recovery` | `forward`, `recover`, `send` | one recovery for many requests, 401 and 404 retries, server requests during a recovery | one reply per request; a session is kept until it is refused |
| Proxy loop, `mcp/run.ts`, `mcp/lines.ts` | `pending`, `barrier`, the unfinished line | one task per input line | ordering of `initialize`, a bound of 128, abort, chunks that end anywhere | no request is dropped or overtakes the handshake; messages do not depend on chunks |
| Credential resolution, `auth/resolve.ts`, `config.ts`, `cli/credentialSource.ts` | none: it reads the environment and two files | `resolveAuth`, `loadConfig`, `pairWorkspaceCredential` | five sources for three values, and others change them meanwhile | one source for key, server and workspace |
| Uploads and imports, `filesClient.ts`, `cli/commands/files.ts`, `resource.ts` | none after the call | `upload`, `--remember`, `importRows` | several requests, each of which may fail before or after the server acted | one terminal event that says what is known |
| Confirmed commands, `cli/commands/workspace.ts` | none | prompt, then one request | the user takes minutes to answer | the request acts on what the prompt named |
| Secrets, `secrets/`, `cli/commands/secret.ts` | the key store; versions and grants on the server | `enroll`, `put`, `grant`, `rotate`, `revoke`, `delete` | read the registry, then write, in requests of their own | versions are readable by those they were granted to, and nobody else |
| `setup claude`, `cli/commands/setup.ts` | entries of three scopes, `.mcp.json`, `.kagura.json`, `.gitignore` | `runClaude` | a chain of files and CLI calls that may stop anywhere; earlier setups of another scope | success takes effect; a failure loses nothing in silence; keys stay out of commits |
| `setup codex, hermes, openclaw`, `cli/commands/setup.ts` | the harness's own configuration, `AGENTS.md` | `applyPlan` | scans that miss entries, exit codes that say nothing | what it reports is what is there |
| Memory updates, `cli/commands/memory.ts` | none | `update-memory --details-patch`, `--merge-details` | servers that know, refuse or ignore a patch, and are upgraded | what it reports is so, and a patch is not undone |
| Child processes, `cli/exec.ts` | signal handlers while one runs | `execFile` | exit, close, timeout and signals in any order | nothing is left running |
| Lists, `client.ts` | a cursor and the ids returned | `listAgents` | the cursor is an offset over a list that changes | nobody is listed twice |
| Everything else | none | request builders, parsers, renderers | text only | compared with recorded Python output by the tests |

The proxy and the clients call the credentials layer for an `Authorization` header
before every request and call `forceRefresh` after a 401.  The credentials layer calls
the lock around every read-modify-write and calls the OAuth endpoints inside it (a
refresh) or outside it (login and consent, which wait for a person).  Processes meet
only in the files, the lock file, the revocation record and the server.

`PROJECT.json` lists the hazards of each part at its line, with the properties that
would catch it.

## Modules

| Module | Models | Uses |
|---|---|---|
| `LockService` | what the lock promises: acquire, release, abandon, retire | |
| `FileLock` | `auth/filelock.ts`, one action per system call | refines `LockService` |
| `TokenServer` | the OAuth endpoints as the code relies on them, and the clock | |
| `Credentials` | the shared credentials of several processes | `TokenServer`; `LockService` for the lock |
| `MCCredentials`, `MCCredentialsScenarios` | its instances | `Credentials` |
| `McpSession` | the session of one `KaguraClient` and its concurrent calls | |
| `McpProxy` | the run loop and the transport of `kagura-memory-mcp` | |
| `DeviceFlow` | `authorizeDevice` and `pollForToken` | |
| `ProxyLogin` | `ProxyAuth`, the requests that use it, its one login | `DeviceFlow` |
| `CommandCredentials` | the resolution of credentials, as operators over sources that change | |
| `FileCommands`, `MCFileCommands` | uploads, imports, confirmed and data commands | `CommandCredentials` |
| `SecretStore`, `MCSecretStore` | one secret and the registry of keys; a private key's custody | |
| `ClaudeSetup` | `setup claude` at both scopes | |
| `HarnessSetup` | `setup codex`, `hermes`, `openclaw` | |
| `MemoryUpdate` | `update-memory` over four eras of servers | |
| `ChildProcess` | `execFile` | |
| `Paging` | `listAgents` | |
| `MessageFraming` | `readStdioLines` and `readMessages` of the proxy, and what a stream says as a whole | |
| `MCCommands` | the last six, one at a time | `ClaudeSetup` ... `MessageFraming` |
| `FileLockProofs`, `CredentialsProofs`, `McpSessionProofs`, `McpProxyProofs`, `ProxyLoginProofs`, `FileCommandsProofs`, `SecretStoreProofs`, `CommandProofs` | theorems | the module each is named after; `CommandProofs` those of `ClaudeSetup`, `HarnessSetup`, `MemoryUpdate`, `ChildProcess`, `Paging` and `MessageFraming` |

`Credentials` uses the abstract lock, never the lock file: `FileLock` is shown to
implement `LockService`, so what is checked of `Credentials` needs no lock-file states.
`ProxyLogin` likewise takes from `Credentials` that other processes change the file only
under the lock, and models them as one step each.

### The lock protocol

`FileLock` follows one `acquireFileLock` after the other for each client.  `pc` says
which system call comes next: `check` (look for a legacy marker), `open` (create with
`O_EXCL`), `created` (write the owner record), `recheck`, `held`, `release` (read the
record), `unlink`.  `lockFile` is the client whose file is at the path, so that a file
created later at the same path is told apart, and `written` says whether it carries
the record.  The random owner record is the client itself.  The deadline is a flag
that may be raised at any moment of the wait: the code compares clocks only when the
open has failed.  A client may die anywhere (`Crash`), the record may be impossible to
write, the unlink may fail, older clients may make their marker at any time, and the
operator may remove the lock (`Retire`), after stopping every client when `StopFirst`
is TRUE (docs/compatibility.md, "Migration and crash recovery").

### Shared credentials

A *task* is one call of the library.  The tasks of a process share `mem` (the state
cache) and `mutex` (the promise chain); all tasks share the file, the revocation
record, the lock and the server.  A grant is a number that stands for the access token
and the refresh token issued together, so that age and novelty can be compared without
strings.  Steps end where the code awaits or makes the next system call on the disk:

    GetAuthHeader / ForceRefresh / RefreshProfile    the stale token is captured
      -> queued     EnterMutex                       the mutex is ours
      -> lock       RefuseRefresh | AdoptRotated | SendRefresh | LockTimesOut
      -> sending    ServerRotates | AnswerLost | RefreshFails | ScopeRefused
      -> answered   Reload                           the second read of the file
      -> loaded     SaveRefresh | RefreshNotSaved

Login, `auth use`, logout and the save of a consent go from `lock` to `loaded` (`Load`)
and to a save; logout writes the revocation record on the way (`marked`).  A consent
leaves the mutex and the lock (`ScopeRefused`), waits for the person, and comes back
for the lock with the pair on file it began from.

`excused`, `answer`, `undisturbed` and `removed` are history: who cannot know that a
refresh token is dead, which rotation answered which rejection, whether a profile on
file is still the one a consent began from, and which profiles a logout has taken out
of the file.  No guard reads them.

### The client's session

`sessionId`, `sessionOpening` and `sessionEpoch` are the fields of `KaguraClient`; 0 is
`null`.  Handshakes are numbered as they begin, and the session a handshake opens has
its number, so that the promise in `sessionOpening` and the id in `sessionId` can be
compared with what a caller holds.  `phase` follows a handshake:

    unused -> sent -> granted | refused -> settling -> settled

`granted` and `refused` are answers that `openSession` has not yet seen, `settling` ends
with the `finally` of `initializeSession`.  A caller goes

    idle -> tick | waiting        Call: it has a session, or waits for a handshake
      -> sent                     Resume: the request names the session it was given
      -> answered | failed | expired
      -> tick | waiting           Retry, once after an expired session
      -> idle                     Return

`tick` is the turn that `await` takes even when there is a session: the fields may
change in it.  An answer arrives in a turn of the event loop of its own, when what
earlier answers set off is over (`MicrotasksDone`).  Without this rule TLC finds a
caller whose answer overtakes the `finally` of the handshake that opened its session,
which Node.js does not allow.  A 404 about the session comes only for a session the
server has dropped, and, as `mcpSessionExpired` relies on, before the call is run;
a server that rejects a session it still holds would lose that session, and that is not
modelled.  `began` and `dispatched` are history: the epoch a call began in, and how
often the server has run it.

### The proxy

A process of `McpProxy` is the task that `runProxy` starts for a message of the host, or
`Recovery`, the handshake that a 404 sets off.  `session`, `known` and `Recovering` are
`McpTransport`'s `session`, `initialize` and `recovery`; `sess` is the session a message
was sent in, which `send` takes once.  `pc` follows a process:

    none -> barrier                Read: the message waits for an earlier handshake
      -> queued | sent             Forward: it waits for a recovery, or goes out
      -> released -> sent          ForwardRecovered
      sent -> sent                 Unauthorized: the token is refreshed, once
      sent -> expired -> resend    NotFound, Recover: it waits for the recovery
      resend -> sent               Resend: once, in the new session
      sent -> streaming -> done    SessionOpens | RequestRuns; Initialized | RequestAnswered
      sent -> done                 Delivered: a notification or a reply
      ... -> failing -> done       Breaks, and whatever else throws; Fail answers the host

A cancellation and a reply go out at once, as `runProxy` and `forward` let them; a request
over the limit is answered and done in `Read`.  The server may answer 404 to anything
that names a session, whether it has dropped it or holds it still (`NotFound`; `http.ts`
says that some do), and may ask the host something in the stream of an answer (`Ask`),
which then ends only after the host's reply arrives in the same session, or with the
deadline.  The end of the input (`CloseInput`) aborts what is under way and silences `Emit`.  As in
`McpSession`, an answer arrives when what earlier answers set off is over.

The host sends `initialize` first and once, `notifications/initialized` at most once,
cancellations and other notifications at any time, and replies only to what it was asked.  `notified`, `ran` and `replies` are history: in which
sessions the initialized notification is over, how often the server has run a message,
and how often the host was answered.  A connection may break before or after the server
has run the request.  A server that runs a request without a session is allowed
(`sess` 0): after a failed recovery the transport sends without one.

### The proxy's login

`ProxyLogin` composes the requests of `mcp/transport.ts` with `ProxyAuth` and the device
flow of the one login they may begin.  A pair of tokens is a number (0: no profile);
`live`, `accepted` and `fresh` are the pairs whose refresh token is honoured, whose access
token is accepted, and whose access token has not reached its expiry on the client's
clock.  A request goes

    start -> mutex -> lock -> sending     Call, EnterMutex, TakeLock: a refresh
      -> login                            Authenticate: it begins or joins the login
      -> post -> start                    Post: a first 401 forces one refresh
      -> post -> done                     the retry, answered or rejected

`login` is `allowed`, `running` (`loginAttempt`) or `spent` (`loginAttempted`, which the
code never resets).  When the login ends, every request that waited for it gets its
outcome in the same step (`Settle`).  `again` says whether a header waited for it in the
catch of `getAuthHeader`: one that began without a profile has the catch still ahead, and
a pair that has expired after the login leads it to `authenticate()` a second time.  `DeviceFlow` counts in units of five seconds;
the person decides at any moment or never, and the endpoint gives any answer that fits.
`due` is the earliest next poll that the server's answers allow, kept apart from the
client's own arithmetic, and `latePolls` counts the polls after the code's end.  Other
processes refresh, log in, log out and spoil the file, and the server revokes, as
`World`.

### Commands of several requests

`CommandCredentials` names a key, a server and a workspace by the source they come from,
so that a mixture of two sources can be told: `ResolveAuth`, `LoadConfig` and
`PairWorkspaceCredential` are operators over `env`, `config` and `creds`, which
`ChangeSources` changes while a command runs.  In `FileCommands` a command resolves
once (`Start`) and then takes two steps per request: the server acts (`Reserve`, `Put`,
`Confirm`, `Remember`, `IngestBatch`, `Operate`), and the answer arrives or does not
(`...Answered`, `Unanswered`).  `ends` is the sequence of terminal events the command
emitted, with what each says; `acted` is, per command, every credential a request went
out with.  All uploads carry the same bytes, so that deduplication (a 409 that names
another upload's file) happens.

### Secrets

A key pair is a member of `Keys` and stands for its fingerprint; `row` is the status of
its registration and `shown` the public key its row displays, which need not be its own
(a registry that lies).  A command reads the secret (`got`), then the rows, then writes a
version, in requests of their own, beside other commands and changes of the registry.  A
version records the value, who can open it and who it was granted to.

### Setup, updates, children and lists

These share no state, and `MCCommands` runs one of them per behaviour.  `ClaudeSetup`
follows `runClaude` through its files and CLI calls at both scopes, any number of times,
each of which may fail or be interrupted, and lets somebody else edit the files
(`touched`).  A write may leave a file empty or half written, before the key or after it
(`BadJson`, `BadMcp`).  `HarnessSetup` has the scan that may miss an entry, the apply, the
reading back and the `AGENTS.md` export, which writes a block, takes an earlier one out, or
fails before its write or after it.  `MemoryUpdate` has a server of one of four eras (it
ignores, refuses, knows, or declares the patch), which may be upgraded between two
calls, and others who edit the memory.  `ChildProcess` has a program and a helper it may
leave behind.  `Paging` has agents registered and deleted between two pages.

### Framing

`MessageFraming` reads one stream, the host's lines, an SSE body or a JSON body, of which
the bytes are chosen at the start and the ends of the chunks on the way; it may end
anywhere.  A byte is one the code tells apart: CR, LF, the field name `data:`, a part of
the awaited reply, any other.  A step is one round of a loop: a chunk comes (`Receive`),
one line is cut off and read (`StdioLine`, `SseLine`), no line is left in what has come
(`StdioRest`, `SseRest`), the stream ends (`EndOfStream`).  The reader keeps what the code
keeps between two rounds (`skipLF`, `discarding`, the buffer, the event so far).

What the stream means is said of the whole, without chunks or a reader: a line (`Line`) and
the data of an event (`Payload`) are sets of positions of the stream, `Lines` and
`Messages` are the ends of the lines and of the events that are messages, and a frame
`Spells` such a set if it has its bytes in their order.  The decoders of
UTF-8 are a library, and characters are not cut.

## What the runs check

| Run | Instance | Properties | Shows |
|---|---|---|---|
| `lock` | 3 clients; one crash, one recovery, one marker; 50 thousand states | `MutualExclusion`, `OthersRespected`, `ImplementsService`, `WaiterAnswered` | exclusion, nobody's file or marker is stepped on, the abstract lock, and an answer for each waiter |
| `credentials` | 2 processes, the first with two tasks, 2 calls each, in one of three workloads (below); 2.3 million states | `NoReplay`, `FileStaysRefreshable`, `DefaultExists`, `NoResurrection`, `OneRotationPerRejection`, `NoLostUpdate` | the mutex and the lock serialise refreshes, what is left after a failure, and writers of different profiles |
| `credentials_consent` | 3 calls: widening, `auth token`, logout, one failed save; 0.13 million states | `ConsentNeverOverwrites`, `EveryCallEnds` | a consent that others overtake; every call ends |
| `mcp_session` | 3 callers, 1 call each; one `close()`; the server may drop any session at any time; 0.7 million states | `RightSession`, `DispatchedOnce`, `NoOrphans`, `EveryCallEnds` | callers that share a handshake, lose a session together, retry, and are overtaken by `close()` |
| `mcp_proxy` | 4 messages, 3 sessions, one question of the server, 2 tasks before requests are refused; 2.1 million states | `OneReply`, `RunOnce`, `NoWaitCycle`, `InitializedFirst`, `KeepsSession`, `EveryTaskSettles` | messages that lose a session together, a handshake that is recovered, a question during a handshake, the end of the input at any moment |
| `proxy_login` | 2 requests, one outside event, one fault, codes that outlive the login's deadline or not; 0.45 million states | `OneLogin`, `PollsInTime`, `NeverAsksInVain`, `EveryRequestEnds` | one browser login for both, only in need, at the server's pace, and an end though nobody looks at the browser |
| `file_commands` | one command of any kind alone over four environments and three `.kagura.json`, or beside a second upload; 3 rows in batches of 2; one fault, one change by others; 1.1 million states | `ReportsTruthful`, `RightSource`, `ConfirmedTarget`, `EveryCommandEnds` | what a command reports is so, one identity, what the prompt named, and an end |
| `secret_store` | 2 commands, 3 keys, 2 values, 2 versions, one change of the registry; 3.4 million states | `RightReaders`, `CarriesReadersOver` | who can open what, when commands and the registry overtake each other |
| `cli_commands` | three setups of Claude Code with two faults and two edits, or one of another harness, one update, one child, one list of five agents, any stream of 6 bytes with messages of up to 2, with symmetric keys; 1.7 million states | `SuccessIsEffective`, `SetupAccounted`, `KeysKept`, `HarnessTruthful`, `UpdateTruthful`, `NothingLeftRunning`, `ListedOnce`, `FramesAsSent` | each tells what it did and leaves nothing half done untold; messages do not depend on chunks |
| `consent_replay` | two tasks of one process that widen or force a refresh, twice each, one failed save; the server may grant no refresh token | `NoReplay`, violated | finding |
| `remember_identity` | an upload with `--remember` and one `auth use` by another process | `RememberAsUploader`, violated | finding |
| `key_overwrite` | two callers of `enroll()` | `KeyKept`, violated | finding |

Every property of a passing run fails when one mapped definition is replaced by its
mutated form (the `mutants` of `PROJECT.json`; the mutated operators stand before the
definitions they replace).

Several properties are conjunctions of named parts, each with its comment in the module:
`OthersRespected` is `LegacyRefused` and `NeverDeletesReplacement`;
`RightSession` is `FreshSession` and `RetryOnAnother`; `ReportsTruthful` is `OneEnding`,
`TerminalTruthful` and `ImportCounts`; `RightSource` is `OneSource` and
`NamedProfileUsed`; `RightReaders` is `ReadableByGrants` and `OnlyApproved`;
`SetupAccounted`, `KeysKept`, `HarnessTruthful` and `UpdateTruthful`
have two parts each.

**Workloads of `credentials`.**  `Workloads` says what calls each task makes.  Long-lived
clients (`getAuthHeader`, `forceRefresh`, `deleteProfile`): all three tasks, 4 grants, 2
ageings, no fault.  The same by one task of each process: 3 grants, 1 ageing and 2 of:
failed save, lost answer, crash, damaged file, file put aside; the server may keep a
refresh token.  Commands of the CLI on two profiles (`refresh`, `login`, `use`, `delete`,
`deleteAll`), by one task of each process, with one failed save or damaged file.  The
action constraint `InScenario` cuts each at its own bounds, and the two alike tasks are
symmetric; the properties are safety properties, for which both are sound.

**Bounds.**  Three clients are enough for the lock: its races are between a holder, a
waiter that saw the old file and a newcomer.  Two tasks of one process meet on the
mutex and the cache, a third in another process on the lock and the file; two calls
each are needed because the second starts from what the first left in memory.
`MaxGrants` (4) lets the seed, and the rotation of each task, be different tokens;
`MaxAgeings` lets a token pass its skew window and its expiry.  `MaxFaults` 2 allows a
fault during the recovery from another one.  Two profiles are enough for an update of
one to be lost by a save of the other.  Three callers of a session let one reopen it,
one join and one come late with the 404 of the old one; `MaxHandshakes` (6) is never
the reason that a handshake cannot begin, since three callers begin at most two each;
one `close()` gives two epochs, the one before and the one after.  Four messages of a
host are the handshake and two requests that meet one recovery, or a question and its
reply; three sessions are two recoveries, the second of which finds the first over; two
pending tasks stand for the 128, since nothing depends on the number.  Two requests of
the proxy are the one that begins the login and the one that joins it, and three units
of time are past the login's deadline; lifetimes of 2 and 4 units put the end of the
code before and after it.  One command and one more upload are enough for a
deduplicated upload; three rows in batches of two are a full batch, a partial one and
the end.  Two commands on a secret with three keys are a reader, a revoked one and a
new one; two versions let one be replaced.  Three setups are one of each scope and a
repeat.  The theorems below need none of these bounds.

**Fairness.**  `FileLock!FairSpec`: a client's event loop runs (a weak fairness of
each client's steps) and the clock moves.  Nothing says that a lock is ever free:
`WaiterAnswered` holds because of the deadline.  `Credentials!FairSpec`: weak fairness
of what a call does once it has been made, which includes the end of a server's
answer (the 30 s deadline of `refreshAccessToken`), of a device code (it expires) and
of a wait for the lock (90 s).  `McpSession!FairSpec`: weak fairness of each call and of each
handshake once it has begun, which the event loop and the timeout of `post` justify;
none of `close()` and of the server's drops.  `McpProxy!FairSpec`: weak fairness of each
task and of what is sent, which the event loop and the 60 s deadline justify (login has a
deadline of its own); none of the host, of what the server answers and of the end of the
input.  `ProxyLogin!FairSpec`: strong fairness of each request's step and of the save of
the login, because a mutex and a lock may be taken by others in between (the promise
chain and the polling of the lock let everybody through in the end), weak fairness of
the answers, of the login's abort and of time; none of the person.
`FileCommands!FairSpec`: weak fairness of each command's steps, which end with the
timeout of a request; none of the faults and of the others.  No fairness is assumed of
callers, faults or the clock of tokens.

**Deadlock** is checked in every run but `cli_commands`, whose commands end and are not
started again.  `Rest` in `Credentials`, `McpSession` and `McpProxy`, and `AllDone` in
`ProxyLogin` and `FileCommands`, are the states in which nothing is under way.

## Findings

* **A consent can bring back a used refresh token** (`consent_replay`).  Its fallback is
  the token it began with; a refresh by another task of the same process may have used it
  up during the consent and failed to save, and the next refresh sends it a second time.
* **The memory of `files upload --remember` may be written as another account**
  (`remember_identity`).  The command resolves its credential a second time after the
  upload; the comment (`cli/commands/files.ts:139-142`) says that the memory is written by
  the identity that owns the workspace, which another process's `auth use` in between
  makes untrue.
* **Two `enroll()`s may both store a key** (`key_overwrite`).  The check and the store are
  two awaits; the comment above (`secrets/keyManager.ts:93-95`) promises an error, since
  the overwritten key orphans what was encrypted to it.

Each is a counterexample of TLC over the code's own steps.

## Known behaviours

What the code does and nothing in it says it does not; the models contain these, and no
checked property excludes them.

* `cmdLogout` reads the profile without the lock, revokes that token and then deletes the
  profile.  A refresh in another process in between leaves on file, and then deletes, a
  token nobody revoked (`LogoutRevokes` of `Credentials` says otherwise and is not
  checked; a server that revokes whole token families would make it true).
* While the file is behind after a failed save, `alreadyRotated` is not consulted, so two
  requests rejected with one token refresh twice.  `OneRotationPerRejection` excepts it,
  and likewise a token on file that expired by itself, which a refresh may replace
  whatever was rejected.
* `release()` reads the record and unlinks in two calls, so it can delete a replacement
  when a lock is removed by hand while its holder runs.  The documented procedure
  (`StopFirst`) stops the holders first.
* A host's reply goes out in the session of the moment, which may have replaced the one
  in which the server asked (`ReplyInItsSession` of `McpProxy`, not checked).
* A 404 to anything that names the session makes the proxy give it up and open another,
  also when the server still holds it and refused only what was asked; the session is then
  left to the server.  `KeepsSession` says that nothing else does.
* A `setup claude` of project scope that dies while it writes `.mcp.json` may leave the key
  in a file nobody can parse.  `closestMcpJson` ignores such a file, so a later setup of
  user scope succeeds and lists only `.kagura.json` in `.gitignore`.  `KeysKept` excepts
  this case (`OverlookedMcp`); a setup of project scope refuses the file instead.
* When the file of an `AGENTS.md` export cannot be read again for its size, setup reports
  that it was left unchanged and exits with 1, though the block has been written.
* When the recovery of the proxy fails after it dropped the session, later requests go
  out without one.  They are answered (`OneReply`), but not in a session.

## What is proved

`FileLockProofs` (for any set of clients and any bounds):

* `TypeCorrect`; `LegacyFailsClosed` (`LegacyRefused`), without further assumption.
* `OwnFile`, `Exclusion`, `OnlyOwnDeleted`, `OthersAreRespected`, `Refinement` assume
  `StopFirst`.  The inductive invariant is `TypeOK /\ OwnFileInPlace`: a client between
  its create and its release owns the file at the path.  `MutualExclusion` alone is not
  inductive, since nothing would keep a second client from creating a file; it follows
  because one path holds one file.

`CredentialsProofs` (for any processes, tasks, profiles, seeds, workloads and bounds):

* `TypeCorrect`.
* `DefaultAlwaysExists`, `NoUpdateIsLost` and `NothingResurrects` rest on `FileInv`:
  a task that has loaded the file holds the lock, its copy is still the file
  (`SnapIsFile`), the profile it read under the lock is the one on file
  (`ProfileRead`), it has a grant to save (`HasGrant`), and a refresh did not begin from
  a logged-out profile (`NotLoggedOut`), and a profile about to be removed is on the
  revocation record (`Recorded`).  Only the holder writes (`OneSaver`), which is
  where the promise of `LockService` is used.
* `GrantInv` adds whose the tokens are: a token is seen with one profile only (`Owned`),
  every token seen has been granted (`Issued`), and the grant that a task holds and has
  not saved is in no file, cache or other task (`Private`).  The theorems below need it.
* `ConsentOverwritesNothing` (`ConsentNeverOverwrites`): somebody who touches a profile
  during a consent leaves another pair on file than the one the consent began from, so
  `stillCurrent` refuses the save (`Waiting`).  It is the freshness of grants that
  excludes the old pair coming back.
* `RefreshTokensUsedOnce` (`NoReplay`) and `FileStaysUsable` (`FileStaysRefreshable`) have
  one invariant, `SoundInv`.  A pair is *good* for a process if the server takes its
  refresh token or the process could not learn of its end.  Each cached copy, and each
  copy that a task brings to the lock, is such that what the task would send after it
  has read the file is good, or its replacement is on its way to the file under the lock
  (`WouldSend`, `Good`, `Sound`): the file is good, or the copy is marked as ahead of it
  and is good itself.  Neither property
  is inductive: a failed save leaves the only working pair in one process, and only that
  the process knows which pair of the file it has used up keeps it from sending it again.
* Both assume `Answered`: if the server may omit a refresh token in its answer to a
  consent, then no call widens a scope.  Without it `NoReplay` is false; the excluded
  case is the finding `consent_replay`.  The instance of `credentials` satisfies it.
* `RejectedTokenRotatedOnce` (`OneRotationPerRejection`), without that assumption, from
  `OnceInv`: it says why a refresh has been sent (`SentFor`) and, while nothing fails, that
  a rejected token that has been rotated stays on file only until its replacement is
  written (`AnsweredOnce`), that the file is as the refresh read it (`StillPrev`), and that a
  profile that was never on file is in no cache (`NeverSeen`).

`McpSessionProofs` (for any callers and bounds):

* `TypeCorrect`.
* `NothingOrphaned`, `SessionsAreFresh`, `NothingRunsTwice`, `RetriesElsewhere` and
  `SessionsAreRight` follow from `IInv`.  `NoOrphans` is not inductive: a granted
  handshake would replace a session in use if two could be under way.  `Client` adds that
  at most one handshake of the present epoch is not settled, the one in `sessionOpening`
  (`SingleFlight`), and that there is no session while it has no answer (`Replaces`).
  `CallOK` adds what a caller holds: a handshake or session at least as new as its call,
  and after a 404 one whose handshake was settled and which stays dropped, so a retry
  cannot meet it again.

`McpProxyProofs` (for any number of messages, sessions and questions, and any limit):

* `TypeCorrect`; `OneAnswerEach` (`OneReply`) and `NothingRunsTwice` (`RunOnce`).  A
  message that has not been read has no task (`Fresh`), and a process has run nothing
  unless it is in the stream of an answer or about to fail (`RunOK`): `RunOnce` alone is
  not inductive, since a message in `resend` might have run.  `StepSafe` follows one
  process at a time: a step is of one process and may wake others, which neither answers
  nor runs their messages.
* `NobodyWaitsForHimself` (`NoWaitCycle`) follows from an order (`OrderInv`): a message waits
  at the barrier for an earlier one only, and the recovery, as any stream on which the
  server has asked, waits for replies only, which wait for nobody.  A set of messages has a
  first one (the numbers are well-founded), so none waits in a circle.
* `NotifiedBeforeUse` (`InitializedFirst`) and `SessionIsKept` (`KeepsSession`) follow
  from `SessionInv`: an initialize of the host that is not over has the proxy to itself
  (`OpeningOK`), a recovery begins without a session and announces the one it has opened
  before anybody who waited goes on (`RecoveryOK`), each of them is in the session the proxy
  has, and only the first session may be
  unannounced, while the host's own notification still waits or is on its way (`Ready`).

`ProxyLoginProofs` (for any requests, intervals, lifetimes and bounds):

* `LoginTypes`; `OneBrowser` (`OneLogin`): until the login begins there was none, and it
  never becomes `allowed` again (`LoginInv`).
* `PaceKept` (`PollsInTime`): the client's interval is the server's plus one increment for
  each `slow_down` (`Pace`), and a poll after the code's end is the last (`LastPoll`).
* `AskedOnlyInNeed` (`NeverAsksInVain`): the hard step is a refused refresh, after which the
  file might hold a pair that works.  It does not: the one request with the lock refreshes
  what the file holds, or the file holds a pair that is dead (`SendInv`), which after a
  failed save is the pair the copy in memory replaces (`TokenInv`).

`FileCommandsProofs` (for any commands, kinds, profiles, environments and bounds):

* `OneSourceAtATime` (`RightSource`) and `ActsAsConfirmed` (`ConfirmedTarget`) follow from
  `Sound`, what a command acts as while it works (`Bearing`) and has acted as (`Deeds`).
  `ChainOfOneSource` and `PairOfOneSource` are the facts about the chain of sources.
* `ReportsAreTruthful` (`ReportsTruthful`) follows from `Honest`: at each request, what the
  command has noted, what it has begun and what the server holds of its file agree (of a
  deduplicated upload: of the other's file), and every batch of an import so far was full
  and is accounted for.

`SecretStoreProofs` (for any keys, values, commands and bounds): `GrantsRead`
(`RightReaders`) and `ReadersCarriedOver`, from an invariant about what a command has read:
the recipients it is about to encrypt to have rows it has found to be active and to show
the key they stand for.

`CommandProofs` (for any bounds): `SetupIsAccounted`, `SuccessTakesEffect` and `KeysAreKept`
of `ClaudeSetup`, whose invariant says at each phase what the setup has already written,
and what it remembers of the entry it removed; `SetupsAreTruthful` of `HarnessSetup`,
`UpdatesAreTruthful` of `MemoryUpdate`, `ChildrenDie` of `ChildProcess`, and `ListsAreWhole`
(`ListedOnce`) of `Paging`: an agent that stayed and is no row yet is beyond the cursor
(`Ahead`), since a registration moves the others away from the start (`RegisterMoves`).

`FramesAreAsSent` (`FramesAsSent`), also there, is for streams, limits and chunks of any
length.  The property speaks of the moments when the reader waits or has ended, so it is
not inductive; `FramingInv` says of each moment which positions have been read:

* the host's lines (`StdioInv`): the frames are those of the lines that ended before
  `from`, the buffer spells the unfinished line up to there, or that line was dropped for
  its length and its null is the last frame (`Framed`, `Reading`);
* a stream of events (`SseInv`): the buffer is the input from some line's start on, `event`
  spells the data of the event that is open there, the frames are the messages up to there,
  and no line before was a fault or the reply, or the last one was and the reader has
  ended as it should (`Open`, `SseAt`, `EventsAt`);
* a JSON body (`JsonInv`): the buffer is the input so far.

A step moves the place to the next line's start, so what is proved of the operators is how
each set of positions grows by one line (`LineInside` ... `EndsNext`, `EmittedNext`),
and that the text put after another spells the two sets together (`Spells...`).  Nothing
there is an induction over data: a set of positions is compared as a whole, by cardinality.

The assumptions are the named `ASSUME`s of the modules, all of which TLC evaluates: names
are different, constants have their types, and two profiles do not start with one grant.

Every safety and action property of the passing runs is stated by a theorem.  Only
model-checked are the liveness properties `WaiterAnswered`, `EveryCallEnds` (of
`Credentials` and of `McpSession`), `EveryTaskSettles`, `EveryRequestEnds` and
`EveryCommandEnds`: liveness under fairness is out of the prover's reach.

## What is not modelled

Most lines of the package are not, because they keep no state: the request builders and
the response models of `client.ts`, `models.ts`, `pyModels.ts` and the REST clients
(some 12 thousand lines, one request and one answer each), the HTTP helpers and the
classes of errors (`http.ts`, `restBase.ts`, `errors.ts`: what a request can end with is
an outcome in the modules of its callers), the conversions that follow Python's
(`losslessJson.ts`, `pydantic*.ts`, `python.ts`), parsing, rendering and `doctor` of the
CLI, and the scanners of TOML, YAML and JSON5 in `setup.ts`.  They map text to text, and
a model over characters would be the code again.  The tests compare them with recorded
Python output.

Of the credentials: the JSON form of a profile, scopes and workspaces, the 0600 modes,
the temporary file of `atomicWriteJson` (a rename is one step), expiry as a number
(a token is fresh, inside the 300 s skew, or expired), and the second request that
logout sends for the access token.  A file that another program spoils is spoiled
between the locked sections, not inside one.  Of the proxy: the protocol version that
goes with the session, a server that gives out no session ids, lines that are no messages,
and requests that the host cancels (the proxy only
passes the cancellation on).  Of the device flow: the text of an invite and of the
code's page.  Of the commands: `secret exec`, which runs a child with the decrypted value
and keeps no state, the cryptography, the contents of files, rows and memories, the text of
harness entries and of the export, and every command that is one request.

## Plan

Done: the lock, the shared credentials, the session, the proxy and its login with the
device flow, the resolution of credentials, uploads, imports and confirmed commands,
secrets, setup, updates, children, lists and the framing of messages, with the theorems above.

The theorems cover every safety and action property of the passing runs.

Left: that `ProxyLogin`'s refresh implements the one of `Credentials` for a single task; and
the parts that the list above says are not modelled.
