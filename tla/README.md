# Verification of anago

anago is a self-hosted WireGuard hub: `anago server run` keeps a state file, a
`wg` interface, an HTTPS API and an ACME certificate; commands on the hub change
the same state file; devices join, sync and leave over the API. This directory
holds TLA+ models of that program, the TLC runs that check them and TLAPS proofs
about them. Source paths below are relative to `src/crates/`.

## The system

| Component | State | Operations | Talks to |
|---|---|---|---|
| Server state (`anago-core/src/state.rs`, `code.rs`, `subnet.rs`) | `codes[]`, `peers[]`, TLS, ACME and Cloudflare settings | issue a code, `add_peer`, `remove_peer`, stamp `last_seen`, record a renewal | everything on the hub, through the store |
| Store (`anago/src/store.rs`) | `state.json`, `state.lock` | `read`, `lock`, `Guard::commit` | file system: flock, atomic rename |
| HTTP API (`api.rs`) | none of its own; one thread per request | `POST /join`, `GET /peers`, `DELETE /peers/{name}` | store, applier |
| Applier (`wgapply.rs`, `wg.rs`) | `last_applied` in memory, the config file, the kernel interface | `apply` | `wg`, `wg-quick` |
| Server process (`serve.rs`, unit of `systemd.rs`) | listener, renewal task | start, serve, stop, restart | all of the above |
| Commands on the hub (`code.rs`, `rm.rs`, `ls.rs`) | none | `anago code`, `anago rm`, `anago ls` | store, an applier of their own |
| Renewal schedule (`acme.rs` `tick`, `Renewals`, `renewal_loop`; `state.rs` `Tls`) | failures, backoff, CA cooldown, what the failure was against | tick, failed, succeeded, settings changed | state file (read), issuance |
| Issuance (`acme.rs` `renew`, `serve.rs` `renew_once`, `renew.rs`, `tls.rs`) | issue lock, account file, certificate pair, Cloudflare token, TLS settings, the pair being served | sign in, order, commit account, save pair, load, record, present, refresh | CA, Cloudflare, store |
| Challenge (`acme.rs`, `cfapi.rs`, `dnsprobe.rs`) | port 80, the TXT record of the name | listen, publish, wait, withdraw, sweep | CA, Cloudflare, name servers |
| Private files (`fsutil.rs`) | temp, backup and final names | `write_private`, `write_private_pair`, locks | file system |
| Device join (`join.rs`, `client.rs`) | claim markers, `device.json`, wg config | claim, send, finish, undo | HTTP API |
| Device sync (`sync.rs`, `anago-core/src/sync.rs`) | `device.json`, wg config, interface, sync lock | ask, decide, apply, write back | HTTP API, `wg` |
| Timer and units (`timer.rs`, `systemd.rs`, `launchd.rs`, `service.rs`) | unit files, enabled timers | install, uninstall | service manager |
| Init (`init.rs`) | everything on a new hub | `server init` | DNS, CA, store |
| Command line and paths (`args.rs`, `cli.rs`, `main.rs`, `paths.rs`) | none | from arguments and environment to a command and its files | a person |
| Pure code (`json.rs`, `proto.rs`, `token.rs`, `render.rs`, `qr.rs`, `x509.rs`, `dnswire.rs`, `wgconf.rs`) | none | text to text | its callers |

What is hard here: several threads and several processes work on one file, one
config and one kernel interface; each change is committed in one critical
section and applied in another, so a crash, a command or another request may
come between; `last_applied` is one process's memory of something every process
may change; clocks step back; a lost HTTP answer leaves the hub and the device
disagreeing; the certificate, its key, the account and the record of them are
four files and two writers; what a failed command wrote has to be taken back in
an order in which a second failure or a kill may strike. `PROJECT.json` lists
each of these hazards at its line, with the properties that cover it.

What makes each component correct:

* state and store: no lost update, no address, name or code given out twice, a
  refused operation changes nothing, a code is spent exactly when it admits a device;
* API, applier, commands: the interface ends up at, and never goes back behind,
  the state of the file; every request ends; no two applies share their files;
* renewal and issuance: a certificate is renewed before it expires, the CA's
  limits are kept, no pair is ever half replaced, nothing is recorded that is
  not served or that belongs to settings since changed;
* challenge: a record stays until the CA has looked and not longer, and nobody
  else's is touched;
* join and sync: a device either ends with a working config or says what the
  hub still has; a failed apply is tried again;
* init, timer, private files: whole or not at all, and what is left is told;
* text: what is written is read back as it was meant, by whatever reads it.

## The modules

| Module | What it models |
|---|---|
| `ServerState` | The data of the state file and the functions `code.rs`, `subnet.rs` and `state.rs` compute on it, as constant operators. |
| `Registry` | The abstract specification of the hub: each operation on the state file as one atomic step. |
| `Hub` | The detailed specification: server threads, commands and the starting server over the flock, the state file, the config file, `last_applied` and the kernel interface. |
| `Issuance` | The renewal task and `server renew` over the issuance lock, the account file, the pair of certificate and key, the TLS section of the state and the listener, with the CAs' books. |
| `Tokens` | The Cloudflare token that `server renew` finds, writes, replaces and takes back. |
| `Renewal` | The schedule: when the loop looks, orders, backs off and waits for a CA. |
| `Challenge` | HTTP-01 and DNS-01 with port 80, the TXT record, its sweep and the wait for it. |
| `Device` | `join`, `join --export` and `sync` of several processes on one device, against a hub over a lossy network. |
| `Initialize` | `server init`: checks, A record, guarded issuance, the published files, the service. |
| `Timer` | Installing, unwinding, removing and checking the sync schedule on systemd and launchd. |
| `Files` | Every way `fsutil.rs` puts one file in place, a half of a pair included, system call by system call. |
| `Commands`, `Advice`, `Places` | From a command line to a command; the lines a person is advised to type; where files are looked for. |
| `Decisions` | What an answer of the hub or of Cloudflare leads to. |
| `Documents`, `Formats`, `Names`, `Schedules` | JSON and the schemas written in it; DNS, X.509, HTTP, WireGuard and QR text; codes, names, tokens; units, plists and crontab lines. |
| `Registry_proofs`, `Hub_proofs`, `Issuance_proofs` (with `Tokens`), `Initialize_proofs`, `Files_proofs`, `Challenge_proofs` (with `Renewal`), `Device_proofs`, `Timer_proofs` | Inductive invariants and theorems. |
| `MCHub`, `MCIssuance` | Model values, initial state files and symmetry sets. |
| `MCRenew` | `Issuance` or `Tokens`; `MCSetup`: `Registry`, `Initialize`, `Timer` or `Files`; `MCParts`: `Challenge`, `Renewal`, or one input of a function. |

`Registry` extends `ServerState`; `Hub` extends `ServerState` and instantiates
`Registry`. `Advice` extends `Commands`, since a line that is advised must be
one that the parser takes. `Issuance` stands beside `Hub`: it shares the file
`state.json` with it but not a field, and both sides write only their own fields
under the state lock, on a fresh read, which is what `Implements` shows for a
guard. `Device` has the hub's promise, as `Registry` states it, reduced to what a
device sees of it.

The modules that `MCRenew`, `MCSetup` and `MCParts` bring together share no
variable, and a behaviour there is one of them from its first state on: the
choice `which` is made in the initial state.

### ServerState and Registry

`codes` is the sequence `codes[]`, since `add_peer` takes the *first* entry
with a string. `peers` is a set, since a device is found by name or token only.
A token stands for the token hash and the public key together: every join draws
a fresh one of each. `Status`, `ExpiresAt`, `IsAllocated`, `Verdict`, `Spent`
are `status`, `expires_at`, `allocate` and the three questions of `add_peer` in
their order. `Issue` takes its issue time as a parameter: `anago code` reads the
clock (`main.rs:90`) before it waits for the lock. `SetClock` lets the clock step
either way. The history variable `joined` remembers every registration so
that properties can speak of removed devices; nothing reads it in a guard except
the draw of a token, which stands for "256 random bits do not repeat".

### Hub

Each process has a program counter:

    idle -> lock -> guard -> relock -> plan -> act -> idle

`lock` waits for `Store::lock`; `guard` holds the flock and a copy of the file;
committing writes the copy and drops the flock; `relock` is the second
`Store::lock` of `apply_to_interface` and `remove_locally`; `plan` is in
`WgApplier::apply` holding the flock; `act` is between the plan and the end of
the `wg` command. The starting server goes straight to `plan`, from an unlocked
`Store::read` (`serve.rs:76`).

| Action | Code |
|---|---|
| `ReceiveJoin`, `ReceivePeers`, `ReceiveRemove`, `TypeCode`, `TypeRm` | the part of a handler or command before the lock |
| `Acquire`, `AcquireFails` | `Store::lock`, flock and read in one step: nobody writes the file without the flock |
| `Refuse` | an error returned with the guard in hand; the guard is dropped uncommitted |
| `CommitJoin`, `CommitPeers`, `CommitRemove`, `CommitCode`, `CommitRm`, `CommitFails` | the change and `Guard::commit` |
| `PlanSkips`, `Plan`, `Act`, `ApplyFails` | `write_config`, `plan`, `syncconf`/`wg-quick up`, the record in `last_applied` |
| `Start`, `Crash`, `Interrupt` | `serve::run`, a kill of the server with its requests, a kill of a command |
| `Outage`, `SetClock` | `wg-quick down` or a reboot; the wall clock |

A `wg` command that reports a failure may have had its effect (`ApplyBreaks`,
third disjunct), and a killed process may leave the command it started with or
without effect. `write_private` is atomic (shown in `Files`), so a failed write
leaves the old file. A crash loses `last_applied`, every thread and every flock.

Assumptions about the environment: `OperatorWaits` says that nobody types a
command between the start of `server run` and its listener; the run `hub_start`
shows what happens otherwise. Tokens do not repeat. `wg syncconf` and `wg-quick up` take
exactly the config on disk.

### Issuance

One process is the renewal task of `server run` (`Timer`), the others are runs of
`server renew`. Their locals are the record `run[p]`, with the program counter

    idle -> try -> sign_in -> order -> account -> key -> cert -> record -> present
                     \__________\________\_______\_____\______\-> undo (`server renew`)

| Variable | Code |
|---|---|
| `tls` | `State::tls`: source, the paths it names, directory, contact, account, issue time |
| `files` | the account file and the two halves of the pair `anago` writes |
| `theirs` | the version of the pair a manual hub's paths point at |
| `served` | `Listening`, what new handshakes get; empty while the server is down |
| `issuing` | `issue.lock`, which is tried and never waited for |
| `run`, `reply` | locals of `renew_once` and `renew::run`; what the run reported |
| `certs`, `accounts` | the CAs: who issued each certificate, every account with its contact |
| `reported` | history: an error or warning said that the files do not match, or a kill fell between the renames |

| Action | Code |
|---|---|
| `Tick` | a turn of `renewal_loop`: `serve::refresh`, and the choice to renew |
| `Type` | `server renew` up to the lock: it reads the state and plans *before* it tries it |
| `Lock`, `LockForCommand`, `Busy` | `FileLock::try_acquire`; `Artifacts::watching` |
| `NotOurs`, `Register`, `SignIn`, `WrongAccount` | `acme::renew` and `sign_in` with `registration` and `belongs_to` |
| `Order`, `CaRefuses`, `CaLimits` | the order at the CA |
| `KeepAccount`, `SaveKey`, `SaveCert`, `WriteFails`, `RenameFails` | `Pending::commit`, the two renames of `write_private_pair`, its undo |
| `Moved`, `Commit`, `Present` | the witness, `Guard::commit` after `tls::load`, `Listening::present` |
| `PutBack`, `PutBackFails` | `Artifacts::drop`, a file at a time |
| `Crash`, `Interrupt`, `Start` | a kill at any step; the server starts only with a pair that loads |
| `EditToManual`, `LoseAccount`, `Certbot` | changes made by other hands, which take no lock |

Abstractions. Certificates and accounts are numbers in the order the CAs make
them, and a key carries the number of its certificate. That a certificate is due
is a free choice: the schedule is `Renewal`. The two reads of `tls::load` are one
step, and the proof of the name is part of `Order`: it is `Challenge`. A write
that fails before its rename replaced nothing (`write_private`); the `.tmp` and
`.bak` files that `write_private_pair` can leave beside the pair are not in `files`, so
`AllOrNothing` is about the three files themselves (see `Initialize` for the others). A run of `server
renew` that fails goes through `undo` if it watched its files; the renewal task
has nothing to put back.

### Tokens

A DNS-01 hub renews with a token in a file its state names: the operator's
(`--cf-token-file`) or one a command wrote. `hub` is the state file with its TLS
settings and Cloudflare block, `secret` the token files, `home` the zone the
domain is in, `holder` the issuance lock, `task` the runs. A command reads the
state, takes the lock, finds the token and the zone, writes its file, orders and
commits last; the witness at the commit compares only `tls`. `litter` marks the
cases the code leaves a file behind on purpose or for want of a better moment:
`--cf-token-file` replacing a token of anago's (`renew.rs:391-392`), a run that
had kept a token and found the state moved (`renew.rs:442`, `561`), a kill.
Bounds: two terminals of one command each, one tick, one fault, one move of the
domain to another zone.

### Renewal

`loop.pc` is where `renewal_loop` is: it looks (reads the state file), decides
(`tick`), starts an attempt, or sleeps. `renewals` and `failing` are the two
`Renewals` of the loop, with count, not-before, what the failure was against and
the CA's cooldown; `waits` and `streak` are histories that remember what the CAs
and the loop's own failures asked for, whatever the loop has since forgotten.

| Action | Code |
|---|---|
| `LookAgain`, `LookFails`, `Wake` | the top of the loop, `tick`, `settings_changed`, `sleep_for` |
| `BeginAttempt`, `NotBegun` | `renew_once` with the state it reads again under the lock; the lock or the account in the way |
| `Refused`, `NotRecorded`, `Renewed` | the outcomes of the attempt: `failed` with `ca_cooldown`, `succeeded` |
| `CommandRenews`, `CommandSwitches`, `EditToManual` | what other hands do to the settings in the meantime |
| `Restart`, `TimePasses` | the memory of the loop is lost; time |

Three facts are hypotheses rather than checked; the first two are `LifetimesAssumption`.
A certificate lives longer than the seven days of `RENEWAL_LEAD_SECS`: the loop
continues without sleeping after a success, so a shorter one would be ordered again
at once, for ever. It is not due before an attempt and any wait a CA names are over:
a failure under settings that a command replaced between the look and the attempt is
held against those that are gone, the next look forgets the wait with them, and what
keeps the CA from being asked again too soon is that the command's certificate is
fresh. And the hub's clock is not months ahead: `serve.rs:303` takes the issue time from it, and
a certificate that is past its expiry when it arrives loops in the same way.

### Challenge

Two hosts prove one name at once: a hub, and the machine that is to replace it.
`zone` is the TXT records at the challenge name, by id, writer and age; `run` the
issuance of each host with its phase; `port80` its listener; `orphans` the
records no run guards any more, each for a reason (a person was told, a kill, a
lost answer). The sweep lists first and deletes one by one, with the age read
once before the run; the wait looks at each nameserver, settles, and gives up
or goes on blind as `next_step` says. Time passes by `Advance`, which no phase
outlives.

Hypotheses: the hosts' clocks agree (one ten minutes ahead would sweep a live
record); a look at a nameserver takes no time (how its budget is shared out among
the addresses is `AddressesShare` of `Formats`); a domain is one authorization, so
a run publishes one value; a comment is not edited between a sweep's listing and
its delete. `ChallengeAssumption` has `LongestUse < Lifetime`: the
sum of a run's time limits, one request per record to sweep among them, stays below
`CHALLENGE_LIFETIME_SECS`. The code has 600 s against 60 s of polling, 5 s of settling and
90 s of validation, which leaves 445 s for the requests: ample when they are answered, but
not when many stale records are swept and each delete takes the 10 s to connect and the
30 s per read that `client.rs:30-33` allow. The code does not enforce the sum; the
properties of the module are claimed where it holds. A name with a full page of records refuses to
publish before it sweeps, so litter is never swept there. The warning that DNS could
not be checked is lost if the validation then fails (`acme.rs:1448-1470`).

### Device

| Variable | Code |
|---|---|
| `conf`, `device`, `out` | the WireGuard config, `device.json`, the file of `--out`: absent, a claim (`CLAIM_MARKER`), somebody's, or what an attempt wrote with the settings of a version |
| `kernel` | the interface |
| `procs` | the commands: `join::run`, `join --export`, `sync`, each with its lock |
| `unspent`, `registered`, `version`, `net` | the hub and the messages on their way |
| `mishaps` | history: how an attempt ended that left something behind |

    join:  check -> claim_conf -> claim_device -> send -> sent -> save_conf -> save_device -> activate
                                                             \-> undo -> undoing -> drop ...
    sync:  sync_lock -> ask -> write_conf -> syncconf -> record

A request or an answer may be lost, a request may arrive after its sender gave
up (`Lose`, `HubJoins`, `HubRemoves`); a process may be killed anywhere (`Kill`);
each write, `wg` command and request may fail; people clear a file, place one,
swap the file of `--out`, bring the interface up or down, remove the device on
the hub, and move the hub (`Move`). An attempt draws one key and gets one token,
so its number stands for both.

Hypotheses: `sync` does not take the join's lock, and a join that replaces both
files *during* a sync is left out (the hub must list the device that sync works
for where it was); unlinking one's own file does not fail; a foreign file appears
only where nothing is, and a foreign config has no private key.

### Initialize

Two runs of `server init` on one machine, with every combination of flags. A file
is told apart by who wrote it. `run[r].had` is what was there when the guard was
armed, `candidates` what the guard removes, `created` what `publish` removes.
The steps are those of `init.rs`: refuse for free, lock, point the A record
(`PointDns`), `Watch`, `Order`, the account, the pair, `LoadPair`, then
conf, token, state with the state file last; `Rollback` and `Sweep` are
`publish`'s undo and the guard's drop; `Install` is the service. Between any two
steps people put files in place or move them aside (`Place`, `MoveAside`), and
any run may be killed.

The pair is `write_private_pair` call by call, over the paths it names and their
siblings `key.tmp`, `cert.tmp` and `key.bak`: two halves prepared (`Prepare`),
the key that was there copied aside (`BackUp`), two renames (`WriteKey`, `WriteCert`), the
copy removed (`TidyPair`). `PrepareFails` removes what was prepared *before* and leaves its
own sibling absent, as it was or half written; `RenameFails` is the undo of the
second rename, and `UndoFails` an undo that does not work, whose message names
the copy (outcome `torn`). The removals the code ignores the result of
(`let _ = fs::remove_file`) succeed in the model; a removal that fails there too
is a second failure nobody is told of.

Noticed while modelling, without a run: (a) a DNS-01 hub whose state file was
moved aside orders a certificate and then fails on its own old token file, against
`init.rs:639-642`; (b) a write that fails in `acme::renew` after the order is
finalised is reported as an ACME error (`init.rs:662`); (c) the guard also sweeps
credentials a person puts in place after it was armed (`init.rs:984`), a moment
the model leaves out of `Place`.

### Timer

`units` are the schedule's files, `manager` what systemd or launchd knows (units
read, enabled, loaded), `cmd` the locals of the one command that runs, with the
steps done, to come and stuck. `InstallSteps` and `Rewind` are the lists of
`timer.rs`. `Hand` is a person enabling, stopping or deleting something, or a
reboot. Only one command runs at a time: the code has no lock for it, and two
installs at once could share the temporary name of `write_system`. A launchd bootstrap
that failed and loaded nothing is always told as half undone, since the bootout
then fails; a dangling `enable` symlink is not seen by `is-active`.

### Files

Two writers in one directory use any of `write_private`, `write_system`,
`create_new_private`, the two of a `DirHandle`, and a half of a pair
(`pair_half`: `prepare_private` and its rename), one system call per action:
clear the temporary name, create with `O_EXCL`, `fchmod`, write in two parts,
`fchown`, `fsync`, rename or link, unlink, sync the directory. Each may fail; a
run may be killed anywhere and its process id come back; a power cut undoes what
was not synced (`disk` is the directory as it is known to survive, and a file
without `fsync` loses its contents). Writers that share the `.tmp` name hold a
lock of their caller's, which is the code's own rule. A half of a pair whose write or
sync fails leaves its `.tmp` (`HalfFails`, `fsutil.rs:256-262`): `NothingElse`, a
part of `FilesWhole`, excepts it. The two halves together, with the backup and the undo, are in
`Initialize`, and the renames and their undo in `Issuance`.

### Text and decisions

These modules have no state: their definitions are functions, and `MCParts`
evaluates each property over every input of a bounded set. Where a reader of the
text is in the repository, a property goes through the writer and the reader;
where it is not (systemd, launchd, cron, a QR scanner, a shell), the reader is
modelled from its manual.

| Module | Properties |
|---|---|
| `Commands` | `NothingIgnored`: every word of a line has an effect or an error; `OrderFree`: the order of flags does not matter; `EndIsEnd`: what follows `--` is a word; `IntervalExact`: an interval is what was typed, or refused, saturation included |
| `Advice` | `OutputComplete`, `RenewalAdvice`, `SetupAdvice`, `ScheduleAdvice`, `RejoinAdvice`: a line that is advised is accepted by `Commands` and does what it is advised for; `ExportHeard`, `WaitTrue`, `TimeSaid`, `RoutableExact`, `TableAligned` |
| `Places` | `FoundAgain`: who joined finds the files again with and without sudo; `PlacesApart`: no two files share a path; `SourceTrue`, `ListsAgree`, `RemovalTold`: what `ls` and `rm` read, print and report |
| `Decisions` | `SyncSettles`: applying a decision and asking again finds nothing to do, and an answer that does not parse changes nothing; `RecordPointed`: the A record ends at this hub or somebody is told; `ZoneAnswers`: the zone that is found is the closest |
| `Documents` | `DocumentHonest`: a state, a device file or a body that is written is read back equal, and an edited one is equal or refused; `TextHonest`, `StringHonest`: the same for JSON values and escapes |
| `Formats` | `AnswerHonest`: only the answer to this question, from this server, counts; `AddressesShare`: the addresses of a host share one timeout; `DateExact`, `NoOtherDate`; `CodeReads`; `KernelGetsAll`, `ClientConfigKeeps`, `DumpRead` |
| `Names` | `CodeTyped`, `DrawnEvenly`, `NameKept`, `SegmentKept`, `TokenExact`, `ChallengeExact`, `NameOnWire`, `EndpointOnly`, `RequestWhole` |
| `Schedules` | `UnitTrue`, `PlistTrue`, `CronTrue`, `PeriodTrue`: the scheduler starts exactly the program and arguments that were named |

The lengths of `Names` are constants, so that a limit is met by a short text: 2
characters a group of a code, 3 of a token, a name of 3, a thumbprint of 2, a DNS
label of 2 and a name of 6 bytes, ports below 60; the alphabets hold one member
of each class the code tells apart. `Documents` has a depth of 2 (64 in the code),
`Formats` two jumps and two datagrams.

Hypotheses. `Places`: a person who moved `XDG_CONFIG_HOME` and whose sudo drops it
is not found again, and excluded. `Advice`: `OutputComplete` is about hubs with the
default API port, since the join line of `server init` (`init.rs:278-291`) and of
`anago code` (`code.rs:66-74`) names no `--api-port`; a `server renew` line with a token flag
is refused on a hub that has no use for it, as the code says. `Documents`: `json.rs:40-45`
promises that every value is read back, and one nested deeper than 64 is
refused; a hand-edited state file with two names that canonicalise to one is
loaded as two devices (`state.rs:560`). `Schedules`: an apostrophe means to systemd
what systemd.syntax(7) says.

## The runs

| Run | What it shows | States | Bounds |
|---|---|---|---|
| `hub_api` | two threads and `anago code`: applies share nothing, interface equals file when quiet, no rewind, no false success; every request ends and the interface catches up | 247 796 | 3 requests, 1 crash, 1 outage, from a hub with one device and one code |
| `hub_cli` | a thread and a command: refinement of `Registry`, an honest `anago rm` | 415 632 | 5 requests, 1 crash or interrupt, 1 failure, from the empty file |
| `hub_stale` | **violated**: quiet, but the interface differs from the file | - | two devices, 2 threads, `anago rm`, no failure |
| `hub_start` | **violated**: the starting server rewinds the interface | - | `anago rm` during the start |
| `hub_failure` | **violated**: an apply reported as done that was skipped | - | one failed command |
| `issuance` | a manual hub keeps its pair; what is recorded is of the recorded CA; a torn pair was reported; a failed `server renew` leaves no trace; the token stays where the state names it; the listener ends up with the pair in force | 1 237 921 | the task and a terminal, 1 command, 3 certificates, 2 accounts, 1 failure, 1 kill, 1 change by hand; for the token, 2 terminals and a tick, 2 zones, 1 fault, 1 move |
| `ca_move` | **violated**: a hub's own account is never refused | - | a hub at the staging directory, one `server renew --acme-production`, no failure |
| `device` | one registration behind both files; nothing half joined; no registration nobody knows of; `device.json` never ahead of config and interface; others' files kept; a device in service catches up | 1 108 796 | 2 processes, 2 attempts, 2 versions of the hub's settings, 2 faults, 2 things people do |
| `sync_revert` | **violated**: a sync that ends well leaves the config on what the hub told it | - | 1 attempt, 1 fault, the hub moves and moves back |
| `setup` | no shadowed code, one device per code, redemption in time, a code is spent exactly when it admitted a device; a hub is there whole or not at all; a failed run leaves nothing but a sibling of the pair; others' files kept; a failed install tells what is left, a reported one is true, a removal repairs; a private file is whole, private and durable | 1 976 929 | 2 codes, names and tokens on a subnet with one host, so that the second join finds it full until a removal; TTL 2, clock 0..2, `MaxInt` 3, so that a code can expire, be redeemed in its last second, and saturate; 2 runs of `server init`, 2 CAs, 2 faults, 1 kill, 2 things people do; the same for one schedule of each kind; 2 writers, 2 process ids, 1 error, 1 kill or power cut |
| `init_litter` | **violated**: a failed `server init` leaves nothing behind | - | 1 run of `server init`, 1 fault, nobody else |
| `parts` | a live record stays and others' records too; a challenge ends clean; the schedule is kept and the certificate renewed in time; command lines, decisions, documents and formats over about 180 000 inputs | 880 103 | 2 hosts, 1 nameserver, 3 record ids, 1 fault; 2 CAs, clock to 25, 2 failures, 1 change; inputs as listed in `MCParts` |

In every run each bound is a constant of the `.cfg`, or of the `INSTANCE` that the
MC module makes, and enters a guard of the model.

Two threads and one command are enough for each interleaving the properties of the hub are
about: they concern pairs of processes (a lost update, a reordering of applies,
a shared scratch file), and a third actor, the starting server or the
interrupted command, is present as well. Five requests allow a join, a
removal of the same device and a further change in between. For the
issuance, two certificates beside the first let a command overlap with a renewal
on each side. One failure is enough there for a failed rollback too, since a refused
account, the CAs' limits and settings that moved start one without spending it.
On a device, two attempts are a join that fails and the next one that meets its
leftovers; two faults are an answer that is lost and an undo that fails.
In `setup`, two codes and two names on a subnet for one device let a join be refused for its name,
for want of an address and for its code, and a freed address be given away again; two
runs of `server init` meet at each step, and two faults are a
step that fails and an unwinding step that fails after it. Two hosts with three record
ids let one be swept, one be live and one be new. The renewal has two CAs, so that
a wait at one must not be kept at the other, and enough time for every failure the
bounds allow before the certificate is due again. What a bound cuts off for
`Registry`, `Hub`, `Issuance`, `Tokens`, `Renewal`, `Initialize`, `Files`, `Challenge`,
`Device` and `Timer` is left to the proofs.

`CHECK_DEADLOCK FALSE` is set where the system may really stop: a hub killed
between the two renames of the pair cannot start until somebody orders another
one, and the budget for that may be spent (`issuance`, `ca_move`); the bounds of
`device`, `sync_revert`, `setup` and `parts` run out with nobody at a terminal, and a function
has no step. `SYMMETRY` is used in two safety runs only (`hub_cli`, `setup`), over
values the model only compares; where an initial state names one of them, its
permutations are initial states as well.

### Fairness

* `hub_api` (`FairSpec`): weak fairness of each process's own steps and of `Start`.
  The threads are OS threads and tokio workers, the kernel hands a released flock
  to a waiter, and the unit of `systemd.rs` restarts the server (`Restart=on-failure`).
  Weak fairness of `Acquire` suffices because the number of requests is bounded:
  a waiter is overtaken finitely often. Nothing is assumed about requests,
  crashes and outages. `Converges` is checked without failures, since the program
  does not retry an apply by itself: after one, the interface differs
  from the file until the next request or restart.
* `issuance` (`Fairness` of `Issuance`): weak fairness of each process's work, of `Tick` (the
  loop sleeps an hour at most) and of `Start`. Commands, kills, failures and edits
  happen or do not. `ServedCatchesUp` is `<>[]`: the CAs' limits (`MaxCerts`) make the
  renewals finite, after which the listener must settle on what the settings name.
* `device` (`FairSpec`): processes run, the hub answers what reaches it, and the
  timer keeps starting `sync`. Losses and failures are bounded, so a repeated sync
  succeeds in the end, which is what `CatchesUp` is about.
* `parts` (`Fairness` of `Renewal`): the runtime polls the renewal task, an attempt ends
  (each call has a timeout), time passes. `RenewedInTime` is conditional on the clock having
  time left for all the failures and waits that may come (`Longest`).

`hub_cli` and `setup` check safety only and state none.

## What the runs found

1. **A stale `last_applied` hides a needed apply** (`hub_stale`, `wgapply.rs:55`).
   `anago rm` applies through an applier of its own, so the server's
   `last_applied` no longer names what the kernel runs. If the file then returns
   to the text the server remembers, the server's applies are skipped and
   reported as done, and a removed device stays reachable.
2. **The starting server applies an unlocked snapshot** (`hub_start`,
   `serve.rs:76`). An `anago rm` that commits and applies between the read and
   the apply is undone in the kernel.
3. **`last_applied` survives a failure** (`hub_failure`, `wgapply.rs:234`).
   The comments say a failure leaves `None`; the code keeps the previous text. A
   `syncconf` that took effect but reported failure is then mistaken for one
   that did not.
4. **A hub cannot move to another CA** (`ca_move`, `acme.rs:1701`). `server renew
   --acme-production` puts the new directory into the settings before it asks
   `registration` whether the recorded account is at a different one, so the
   answer is always no, and the old CA's account is then refused. For the same
   reason `update_contact` (`acme.rs:361`) compares the new address with itself, and a new
   contact is recorded but never told to the CA. The run starts on a hub at the staging
   directory and asks for the production one, the move `docs/DESIGN.md:943-944` describes.
5. **A failed sync can be forgotten** (`sync_revert`, `sync.rs:545`). The config is
   written before `wg syncconf`; if that fails and the hub then goes back to its
   earlier settings, `device.json` equals the hub, the next sync reports
   unchanged, and the config stays on settings the hub has abandoned.
6. **A failed `server init` leaves something behind** (`init_litter`, `fsutil.rs:256`).
   `prepare_private` does not remove the temporary it created when its write or sync
   fails, and neither does `back_up`; the guard of `init.rs:956-969` sweeps the
   account, the key and the certificate, not their `.tmp` and `.bak`. So
   `privkey.pem.tmp`, `fullchain.pem.tmp` or `privkey.pem.bak` outlives a run that
   failed, against `init.rs:654` "A failed run leaves nothing behind". What does hold, that
   it is one of these at most and nothing else, is `NothingLeftBehind` in `setup`.

Smaller disagreements between the code and its comments that no run shows are
named where the module is described, above.

## The proofs

All of them are checked by TLAPS, for every value of the constants that the named
assumptions of the module allow.

`Registry_proofs`. None of the invariants of interest is inductive alone.
`DevicesDistinct` needs that tokens in use are in `joined`; that codes admit one
device each needs that a `joined` code has a spent entry and that strings have one entry
(`NoShadowedCode`), for otherwise `IsPosition` could find another entry; the
redemption times need the issue times below the expiries, which is where the
saturation of `ExpiresAt` enters (`MaxTime < MaxInt`). Their conjunction is
inductive (`IInv`), and the theorems are its parts; the action property `HistoryKept`
follows from it step by step. `TypeCorrect`, `DevicesAlwaysDistinct` and
`AuditTrailKept` are proved and not part of a run. That tokens do not repeat is an
assumption, a guard of the draw (`FreshTokens`), and no property restates it.

`Hub_proofs`, first part. `HInv` says who holds the flock by program counter, that a holder's
copy is the file, that requests and tokens in flight are well-formed and fresh.
`GuardAlwaysCurrent` is its central part. `HubImplementsRegistry` shows that each
commit is the atomic operation of `Registry` on the file (using that the
committed copy *is* the file) and every other step a stutter or a clock step.
Through it every property proved of `Registry` holds of the file of `Hub`.

`Hub_proofs`, second part: the interface. `ApplyAlone` holds under `OperatorWaits`. The other
three (`QuietHubCurrent`, `AppliesTruly`, `InterfaceNeverRewound`) hold under
`Calm == OperatorWaits /\ "rm" \notin CliOps /\ MaxFailures = 0`, for any number of
threads, requests, crashes and outages. Each conjunct of `Calm` is needed: `hub_start`,
`hub_stale` and `hub_failure` are the counterexamples without it. The
strengthening is `Interface`: an apply in progress wants the file as it is and has
written its config (`ActReady`), the starter's copy is current (`StarterCurrent`),
an interface that is up runs what `last_applied` says (`LastIsKernel`), and an
interface behind the file has an apply on its way (`Settled`).

`RemovalsTold` needs `OperatorWaits` only. The apply of `anago rm` is a process of its own
that remembers nothing, so it always runs a command; what that command loads is
the config on disk, which between the plan and the command is that of the file
(`WrittenCurrent`). Without the hypothesis TLC finds a counterexample: the starting
server overwrites the config from its older copy between the two.

`Issuance_proofs`, for every set of terminals, CAs and contacts, and every bound
(`ProcsAssumption`: the task is not a terminal; `CAsAssumption`: the production
directory is a CA; `BoundsAssumption`: the bounds are natural numbers). None of
the safety properties is inductive. Their strengthening `IInv` has seven parts: `TypeOK`; `Held`, that exactly the run past
the lock holds it; `Purpose`, that a run orders under the settings it read (with
its flags applied); `InHand`, that its account and its certificate are of the CA of
those settings; `Booked`, the two properties of the settings; `Paired`, what the
files look like at each program counter; `Undoing`, what a rollback has put back
so far. The proof first says what each action does to the locals and the files
(the lemmas `...Effect`), then has one lemma per part with one step per action,
and the lock (`Alone`) disposes of every other process. `RecordedTruly` is where
the witness matters: `Commit` records on the settings only if they are those the
run started from, so `InHand` speaks of the settings that are recorded.
`RollbackComplete` follows from `Undoing` at the last of the three files.

`Issuance_proofs`, last part, is about `Tokens` (`TokensAssumption`: the tick is not a
terminal, there is a zone, and "none" is no zone). `TokensKept` holds for any commands, zones,
faults and moves of the domain. `KInv` says that a run past the lock is alone
(`AtWorkAlone`), that it has a use for its token (`HasUse`), that the token it goes on with
is the one it was given and is there to be read (`Sourced`), that what it would put back
is what the state may name, and is there from the file written until the commit or the
undo (`Undoable`), and that a token at anago's own path is named or some
run is about to see to it (`Accounted`). At the commit the witness carries the
plan over: the settings are those the run read, so what `Disposition` said of them is
what the commit does.

`Initialize_proofs`, for any set of runs and CAs and any bounds, has two layers. `IInv`, about
the files a hub consists of, has seven parts: `Shape`; `Locked`, one run inside at a
time; `NoHub`, no state file of a run while one is inside and has not installed;
`Owned`, a run's files are in what it will take back or were there before;
`Guarded`, what it will take back it did not find; `Progress`, what is written by
each program counter; `Whole`, the property itself with the fact that a hub's
account is somebody's. `HubStaysWhole` is `Progress` at `WriteState`, and that nothing
but a person's `MoveAside` touches the files afterwards; `OthersAlwaysKept` is
`Guarded` at every removal. The second layer, `LInv`, is about the pair and leans on the first:
`Tidied` says which of the siblings may be a run's own by where it is, and that one
is left at most once it has failed; `Paired` says which half is a run's own, so that a
rollback finds both halves of one run or an outcome `torn`. `FailureLeavesNothing`
is `Owned` at the end of the sweep with `LInv` beside it.

`Files_proofs`, for any number of writers and process ids, any errors and cuts
(`FilesAssumption`). `FInv`: live writers use different temporary names (`Temps`), a
writer's file is where it put it (`Placed`) and has the mode, owner, contents and
durability its step says (`Progress`), the target holds nothing less than a
finished file (`GoodTarget`), and one link at most was made by a creator
(`Links`). `AlwaysWhole`, `AlwaysPrivate`, `NothingLeft` and `OneMakes` are the four parts of
the run's `FilesWhole`, and `FilesStayWhole` puts them together. `AlwaysPrivate` is about
modes; the owner of the target is in `AlwaysWhole`. `NothingLeft` is about what a writer
that returned leaves, with the half of a pair excepted.

`Challenge_proofs`, for any hosts, name servers, finite set of record ids and time limits
with `LongestUse < Lifetime` (`ChallengeAssumption`). `LiveKept` is a statement about time
and not inductive. `Timely` bounds the age of a run by what each phase may have used: the
order, one request per record to sweep (`Cost`), the publication, the wait and the settling,
the call to the CA, its validation. So a run is under `Lifetime` while the CA may look
(`Young`); its record is as old as it is (`Kept`), what another run means to sweep is older
than `Lifetime` (`Swept`) though it listed it earlier, and no two runs hold one id (`Held`):
`SweepsNoneLive` puts them together. `Named` and `Ports` are the parts of `NothingKept`,
`Looked` and `Timely` those of `WaitBounded`. `OthersAlwaysStay` follows because whatever is
swept or held has a time in its comment.

`Challenge_proofs`, second part, is about `Renewal`: `ScheduleAlwaysKept` says for any CAs, accounts,
lifetimes, waits and delays what `ScheduleKept` checks for a few. `TimesAssumption` says what is
a number, `LifetimesAssumption` is above, and `PowersAssumption` that doubling reaches
`RETRY_CAP` before the code stops doubling (15 minutes times 2^16 is more than a day),
stated of the failures the bounds allow, since the prover knows nothing of powers. In
`RInv`, `Scheduled` says that a failure is held against one attempt, on a certificate from before it,
at the CA whose wait is remembered. `Linked` ties the loop's memory to the settings on
disk, whoever wrote them: a memory that is against them is what their failures have
earned (`Earning`), and a wait their CA asked for is in it or over before they are due
(`Covered`). `Looping` says what a loop that sleeps or orders had read, and that the
settings are still those, up to the challenge, or those of a command of this very
second (`JustIssued`). `SettingsChanged` keeps exactly the memory that is against what is on
disk (`Forgets`); with `Doubling`, that the count the code saturates gives the delay of the
real one, the parts of `ScheduleKept` are claims about `RInv` at the start of an attempt and in
a sleep.

`Device_proofs`, for any number of processes, attempts, names and codes and any faults
(`DeviceAssumption`: the bounds are natural numbers, there is a name and a code).
The argument of `IInv`: a join past its check has the two names to itself
(`Reserved`), and a sync works only beside a device file (`Read`), so a join and a sync,
which share no lock, never write at once; `PairMatches` and `NothingHalfJoined` are then
claims about one writer. For `NoSilentOrphan` the network has to be tied to the attempts:
a request to join is the only message of its attempt, the hub does not list that attempt
yet, and its sender waits or its loss was noted (`Asked`); a refusal or a deletion that
is on its way speaks of nobody who is listed (`Carried`). `RecordedAlwaysApplied` has the
hypothesis `~Reverts`, the hub's settings only move on, under which versions order
what a process knows, has written and has loaded (`Timed`). `OthersFilesKept` goes
action by action. Under `~Reverts` a second invariant, `Fresh`, gives `FineUnlessReverted`:
what `sync_revert` finds needs a setting that goes back.

`Timer_proofs`, for any set of kinds of scheduler and any number of faults, kills and
interventions (`KindsAssumption`, `TimerBoundsAssumption`). `TInv` ties the machine to
the list of steps still to do: in an install (`Installing`) what is done is what the list
has lost; in an unwinding (`Unwinding`) each step is undone, named in `stuck`, or still in the
list (`Told`, `Quieted`, `Reread`); in a removal (`Removing`) a stop that was refused
while something ran means that systemd had no file of the timer (`Halted`).
`FailureAlwaysTold` and `ReportsAlwaysTrue` are those at the end of the list, and
`RemovalAlwaysRepairs` is `Halted` at the report.

Of the functions that the runs evaluate on small inputs, three are proved for every input,
each beside the component it serves. `SyncAlwaysSettles` (in `Device_proofs`) is
`SyncSettles` of module `Decisions` for any device.json with its fields, any answer and any
roster: `decide` is taken apart by its cases, and what a rewrite recorded is judged a
second time. `ZoneAlwaysAnswers` (in `Challenge_proofs`) is `ZoneAnswers`, for any domain and
any list of zones: the zones over a domain are those whose name is a candidate, at the place
their length says, so the first candidate that is not absent is the longest. Both need
the first place at which something is found, which `FirstFound` takes from the
well-foundedness of the natural numbers (`WFMin`, whose parameters are sets).
`AlwaysFoundAgain` (in `Files_proofs`) is `FoundAgain` of module `Places`, for any person,
password database and environment that `sudo` leaves, a path being a list of any names. It
has a hypothesis that the run's inputs keep silently: the person's home, and the
directory the person moved, are not in root's home. Without it the claim that nothing is put
there is false, since the code takes the password database at its word.

Only model-checked: liveness (`Answered`, `Converges`, `ServedCatchesUp`, `CatchesUp`,
`RenewedInTime`), which needs reasoning about `ENABLED` that the prover does not
have; and the functions of `MCParts`
(`CommandsHeard`, `DecisionsSound`, `DocumentsHonest`, `FormatsHonest`), but for the three
above: most of them are recursive, or select from a sequence (`RecordPointed`), and what
such a definition computes for every input is out of the prover's reach.
`RecordedAccountAccepted` and `FineMeansCurrent` do not hold.

## What is not modelled

* Requests that outlive the listener at a shutdown: the process ends with them as
  in `Crash`.
* The Windows service manager and the Windows half of `fsutil.rs` and `service.rs`; the
  installation of the hub's own service is one step of `Initialize`, and cron is
  advised but never written by the program, so it is in `Schedules` only.
* The messages of ACME and of the Cloudflare API, TLS, HTTP beyond the request line
  and the reading of a response: they are the CA's and Cloudflare's promises in
  `Issuance` and `Challenge`.
* The codewords and masks of the QR encoder, which are arithmetic over a field;
  the drawing of its modules is in `Formats`.
* The wording of help, errors and logs.
* X.509 and DER beyond the validity of a certificate.

What a next step could add: `Device` over `Registry` itself, so that several
devices share a hub; the interface theorems of `Hub` under a retry that the code does not
have yet.
