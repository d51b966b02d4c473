# OpenIMZO in TLA+

OpenIMZO is a native macOS replacement for E-IMZO, the agent that lets web
sites ask a person in Uzbekistan for a digital signature.  It listens on
127.0.0.1 (a plain and a TLS WebSocket), answers about sixty functions called
by web pages, keeps key files in the formats of the original, and asks the
person through panels of its own.  The core is a set of Rust crates
(`src/crates/`), the shell is Swift (`src/macos/OpenImzo/`), the two meet in
`openimzo-ffi`.  The repository has almost no tests (a self-test of the ciphers): what its code promises is in its
comments, and those are what this project states as properties.

This directory holds TLA+ models of the concurrent parts and of the pure
algorithms, TLC runs over small instances, and TLAPS proofs of the invariants that matter most.  `PROJECT.json`
lists the runs, the code each definition stands for, the mutants each property
was seen to catch, the hazards, the findings and the theorems.

## 1. Inventory

| Component | State it keeps | Operations | What is hard |
|---|---|---|---|
| **UiBroker** `openimzo-rpc::ui` | a semaphore of 8 waiting places, a FIFO mutex (the turn), three deadlines | `serialized`, behind the five `ask_*`/`confirm_*` calls | every site's calls contend for one person; each wait has a deadline of its own; a dismissed dialog may hang |
| **UiDelegateAdapter and panels** `openimzo-ffi::delegate`, `MacUiDelegate`, `RequestPanel` | `current_request`; `activePanel`, its window and continuation | `ask_*`, `dismiss` -> `cancel`; `present`, the person's answer, `forceCloseActivePanel` | two worlds with a queue between them; the Rust future is dropped while the Swift one goes on; `cancel` ignores its id |
| **Origin gate** `openimzo-rpc::origin` | verified keys, recorded answers, failed lookups, a turnstile per domain | `decide`, `register` (the `apikey` function), `forget_site`, `sites` | check, await, act; pruning of turnstiles; memory and file written in separate steps |
| **Sites store** `openimzo-ffi::engine::SitesStore` | `sites.json` | load, save a key, save an answer, forget | rewritten in place; the process may end at any moment |
| **Engine** `openimzo-ffi::engine` | the current `ServerHandle`, the listener status | `start`, `stop`, `status`, `update_settings`, key operations | overlapping calls; status learned from events that lag |
| **Server** `openimzo-server::run, ws, http` | the shutdown watch, the tasks of a run | `Server::start`, `ServerHandle::stop`, `upgrade`/`serve` | one watch for all runs; a receiver made too late never hears |
| **Shell** `CoreEngine`, `EventPump` | the status shown, keys, sites, activity, settings | launch, refreshes, the pump, `prepareForQuit` | subscribes late; reads and assignments cross |
| **Dispatcher** `openimzo-rpc::dispatch` | language per origin, observer | `call`, `sweep` | the gate is awaited between reading the settings and the call |
| **Sessions and cached passwords** `openimzo-keys::session`, `plugins::keystore` | sessions and passwords with expiry, at most 4096 | put, get, update, remove, remember, expire, sweep, `open_with_password` | a dialog is awaited between reading a setting or a password and using it |
| **Key discovery** `openimzo-keys::discovery` | none | disks, lists of keys, the path of a named key | a file is reached through more than one disk and listed once |
| **Key files** `plugins::pfx`, `plugins::ytks`, `keystore` | files in the keys folder | load, unload, save, change password, convert, finish an enrollment | temporary file, sync, rename or link; no backup is kept; existence checked long before the write |
| **Enrollment** `plugins::pki` | pending enrollments, one hour each | step 1, step 2, sweep | both steps await; step 2 removes by id |
| **Random seed consent** `plugins::randseed` | consent per origin, a turnstile | `get` | check, await, act |
| **TLS material** `openimzo-server::tls` | certificate, key and a lock file shared by processes | load or generate | a stale lock; two processes at once |
| **Event stream, log** `openimzo-ffi::events` | a broadcast channel of 256 | `events`, `next`, log forwarding | a slow receiver misses events and is not told |
| **Signing and certificates** `plugins::pkcs7`, `pkcs10`, `x509` | none of their own | documents, requests and certificates made and verified over a session | which key signs, and what over |
| **PKI formats** `openimzo-pki` | none | BER to DER, PKCS#12 and YTKS-2 stores, CMS, certificates, requests | one value has many encodings; two formats of one key must agree |
| **Cryptography** `openimzo-crypto` | none | curve arithmetic, signatures, key encodings; ciphers and hashes | exceptional points, scalars at a boundary, five ways to write a private key |
| **Settings and history, windows, updates, CLI, static pages** | view state, preferences | layout, download, start-up | little |

How they meet: a WebSocket connection (`ws::serve`) hands one request at a time
to `Dispatcher::call`, which awaits `ApikeyService::decide` for every gated
function; `decide` and the key functions ask the person through `UiBroker`,
which calls `UiDelegateAdapter`, which calls into Swift on the main actor.
`Engine` owns the server and the dispatcher; its status and the activity reach
the shell as events.

What makes each part correct, in a sentence:

* *UiBroker*: at most one dialog, in order of arrival, permits balanced on every
  path, and every call returns whatever the delegate does.
* *Panels*: at most one panel, for the call with the turn or one whose cancel is
  on its way; a late cancel never takes down another request's panel; panels of
  finished calls come down.
* *Origin gate*: one call per domain past the turnstile, nobody asked twice, nothing on
  record but what the person's own panel brought about, memory and store in agreement,
  every call decided.
* *Engine, server, shell*: no run of listeners out of reach, no connection deaf to
  a stop, a status that comes to agree with the sockets, and a quit that returns.
* *Sessions*: an expired session or password is never used, the limit holds, a
  password is remembered only while the person allows it.
* *Key files*: at every crash point the old or the new key is readable; a save
  never replaces a key somebody else has just saved.
* *Enrollment, consent, TLS material*: a second step uses the first step's own
  key and nobody replaces it; a seed goes only to a site the person allowed; whatever a
  crash left, every process comes to serve with a certificate and a key that
  belong together.
* *Discovery, formats, cryptography*: what is listed can be opened, what is
  written is read again as the same key, what verifies was signed, and what the
  program signs verifies.

## 2. Modules

| Module | Models | Composes |
|---|---|---|
| `UiBroker` | `serialized`, step by step, with its deadlines | |
| `OneDialog` | the abstract promise of the broker | implemented by `UiBroker` |
| `UiPanels` | the adapter, the main actor and the panels | extends `UiBroker` |
| `OriginGate` | `ApikeyService`, `SitesStore`, restarts | |
| `EngineLifecycle` | `Engine::start`/`stop`, `Server`, its tasks and events, connections | |
| `ShellStatus` | launch, `EventPump`, views, quitting | extends `EngineLifecycle` |
| `Sessions` | the session store, one operator per method | |
| `OpenPassword` | `open_with_password`, its callers, and what runs beside it | extends `Sessions` |
| `KeyFile` | everything that writes a key file, down to the steps of both writers, and power cuts | |
| `DurableFiles` | the abstract promise of the writers | implemented by `KeyFile` |
| `Requests` | enrollment and random seeds, with turnstiles, sweeps and the setting | |
| `TlsMaterial` | processes that load or generate the listener's certificate | |
| `Ecc` | curve arithmetic, signing, verifying | |
| `Encodings` | SPKI, PKCS#8 in its styles, signature and seed encodings | extends `Ecc` |
| `Ber` | BER parsing and canonical DER | |
| `KeyStores` | PKCS#12 and YTKS-2 stores and their conversions | |
| `Discovery` | disks, lists of keys, named paths | extends `KeyStores` |
| `Cms` | signed data, made and verified | |
| `Certificates` | temporary chains, requests, certificate checks, and the functions on a session | extends `Cms` |
| `Algorithms` | every input of a bounded set through the parts above but `Ber`, with the references | instances of `Encodings`, `Discovery`, `Certificates` |
| `Canonical` | the same, and BER to DER with its reference | extends `Algorithms`; instance of `Ber` |
| `UiProofs`, `OriginGateProofs`, `EngineProofs`, `OpenPasswordProofs`, `KeyFileProofs`, `RequestsProofs`, `TlsMaterialProofs` | theorems | extend `UiPanels`, `OriginGate`, `ShellStatus`, `OpenPassword`, `KeyFile`, `Requests`, `TlsMaterial` |
| `AlgorithmsProofs` | theorems | extends `Algorithms` |
| `MC*` | instances for TLC: model values, symmetry | |

Operators whose names have the form `Action_Variant` are mutants: a plausible
bug in the code, kept beside the definition it distorts, used by no
specification here.

### UiBroker and OneDialog

A call of `serialized` goes through *idle, waiting, granted, asking, dismissing,
done*.  Its waits are the semaphore (`Refuse` when `try_acquire` fails), the
mutex (`JoinQueue`, `TakeTurn`, `GiveUpWaiting`), the delegate's future (`Reply`,
`AskTimesOut`) and the dismissal (`Dismissed`, `DismissTimesOut`).  tokio's mutex
is fair and hands itself over: releasing it makes the head of the queue its owner
before that task has run, which is the phase *granted*; `ahead` is the order of
the queue.  A mutex that is free is taken in the first poll, so
`EnterFreeTurn` neither queues nor shows a permit missing.

Time is in ticks.  `Tick` happens only when no deadline is due and no woken call
has yet to run (maximal progress): a wait ends at its deadline, not at an
arbitrary later moment.  The constants of `ui.rs` are 90 s, 60 s and 5 s; the run
uses 4, 2 and 1 ticks.  All that matters is their order and that
`REQUEST_TIMEOUT + DISMISS_TIMEOUT < TURN_WAIT_TIMEOUT`, which is
`PatienceAssumption`.

`OneDialog` leaves out time, permits and dismissals: calls get the dialog one at
a time, first come first served, and the dialog never idles while someone waits.
`ImplementsOneDialog` is the refinement.

### UiPanels

What Rust asks of Swift is a message in `mainQueue`, handled in order and as late
as you like.  Swift starts a task per foreign call, which alone would promise no
order; an `ask` and the `cancel` that may follow it are a deadline apart, as are a
`cancel` and the next `ask` unless the cancel was answered, and the main actor runs
what was enqueued first.  Where even this is in doubt the properties say so:
the mutant `Cancel_Overtakes` breaks `CancelHitsItsOwnPanel`.
`RequestFinishBox.finish` resolves once (`Resolve`).  A panel's answer reaches Rust
in a later step than its window closes (`answers`), so an answer may cross a
deadline.

### OriginGate

Each phase of a call is one critical section or one await of `decide`.  Whether a
key verifies and whether the vendor's server answers is left to chance
(`Lookup`), `Register(c, o)` is a call of `apikey` that named the domain of `o`,
and `DialogEnds` is what `UiBroker` returns, `Err` standing for time-out, busy and
no user interface.  A panel that is closed, by its title bar or by quitting, has an answer
of its own in the model, and what `decide` is told of it is the cancellation value of
`MacUiDelegate`, `Deny` (`Outcome`).  `given` records what the person has really answered,
a closed panel among it as `Closed`, to be compared with `decisions`; `overlapped` records that a save and a `forget_site`
ran at the same time.  `developerMode` is an argument of `decide`, read once.
`Restart` may come between any two steps; a file torn in the middle of a write
does not parse and reads as empty.  A write the system refuses is only logged by
the code; it is not modelled.  `DomainOf` (`host_of`) is a constant.

### EngineLifecycle and ShellStatus

A *run* is what one `Server::start` spawned, named by the call that made it: the
two listeners and the sweeper, each with its own progress.  All runs share one
`watch` channel.  A receiver hears a change by version, whatever the value, so
`told` (and `connTold`) is the set of those with a change to hear, and `shutdown`
is the value, which only connections look at.  `SpawnRun`'s reset of the watch is
itself a change, heard by whatever is left of older runs.  `Bind` needs the port
free of our other runs and may fail at any time (the original E-IMZO, the
system).  After the signal, axum closes the plain listener and waits for its
connections (`draining`); the TLS listener returns at once.  Events are handled
one at a time by `Forward`, any time later.  The channel holds 64 events, more
than can be pending here, and a receiver that lags still sees the latest ones.

`ShellStatus` adds the app: the launch task, in the order of
`retryConstruction`, the pump that reads the status after every event, views that
read it when they appear, and a quit at any moment.  A quit is the race of
`prepareForQuit`: one task awaits `engine.stop()`, the other sleeps, and the first to fire
the flag resumes the continuation (`Racers`, `Fires`); the other one comes to its end
later, or never, if a client keeps the plain listener draining.  The app makes one call of
`start` and one of `stop`.  Reading the status and assigning it are separate
steps, because `status()` may probe TLS for five seconds in between.  The channel
to the shell drops events when its receiver lags, and `next` takes the rest
without a word (`EventDropped`).  `heard` says that the pump's latest read came
after the latest change it could know of; `ShownIsTrue` asks for the truth only
once it has heard, since nothing in the code reads the status again otherwise.

### Sessions and OpenPassword

Every method of the store holds its mutex once, so `Sessions` states each as the
map it leaves (`AfterPut`, `AfterRememberPassword`, ...), and the actions of
`OpenPassword` are built from these.  Eviction at the cap is a choice among
`Survivors`, because sessions that expire at the same instant are told apart only
by the order of a hash map.  A deadline without a password says nothing in the
code; the model writes it 0.

A call is a slot in which one call runs after another.  Its phases are the
stretches of `open_with_password` and `change_password` between two awaits or two
locks; whatever it read in one may be stale in the next.  Reading the setting
commutes with the look-up before it, so `Begin` does both.  A file is the password
that opens it, with the history of those that ever did (`opened`); its keys are
left to `KeyFile`.  Besides the calls: pages load and unload keys, the sweeper
ticks, and the app toggles the setting, clears the cache and changes a password
by itself (`ChangePassword`).

### KeyFile and DurableFiles

A call is one of nine handlers: `change_password` and the two saves of either
plugin, `save_temporary_pfx`, step two of an enrollment, and the engine's change of
a password and conversions.  `pc` goes through the stretches between its awaits
and then through the system calls of `overwrite_key_file` or
`create_key_file_exclusive`; whatever is read on the way (`bytes`) may be stale
when it is written.  Any await and any step of the disk may fail (`Fails`).  `disk` is
what programs see and `onDisk` what a power cut may leave: an entry renamed or
linked is durable once its directory is synced, and behind it stands a torn
content unless the temporary file was synced first.  A content names its key, the
key its certificate is for, and its writer.  Handlers of one process write
temporary files of random names, so these are not shared.

`DurableFiles` has no steps of writers at all: contents appear whole, an
acknowledged write stays.  The refinement maps `files` to `disk`, `pending` to
`onDisk` and `acked` to the calls that replied `ok`; temporary files map to nothing.

### Requests

A call is one request of `enroll_pfx_step1`, `enroll_pfx_step2` or `randseed.get`,
in phases between two awaits or locks.  A generated key pair has the name of the
call that made it, and so has a turnstile, so that one pruned and made again under
the same key is told from the old one.  A map's entry is in use while a call holds
a clone of it (`InUse`, `strong_count > 1`).  Expiry, both sweeps and the setting
happen at any moment.  `answers` and `wrote` are history for the properties; in `answers`
a panel that was closed is told from one that was refused, which `consent` cannot do.

### TlsMaterial

The processes share a directory, the two names, the two temporary names and the
lock.  A pair is a number, so a certificate fits a key when the numbers agree; a
generation takes the least number that nothing holds, which is why there is no
bound on generations and yet TLC sees finitely many states.  The age of the
lock has three values, absent, there, older than `LOCK_STALE_AFTER`.  A lock
without a holder grows old by itself (`LockAges`); everything else that goes
wrong is counted by `MaxFaults`: a killed process, a power cut, a write that
fails, a holder slower than the limit.

### Algorithms and the modules it instantiates

`Algorithms` has a task and its answer: `Init` chooses any input of a bounded set,
one step computes what the code computes, and the invariants compare that with
a reference.  None of these parts has state of its own.  Data is small where the
code is uniform in it: three curves of order 5 and 7 with three-bit scalars for 256
bits, octets below `Radix` 4 for 256, model values for names and
passwords, and a signature that carries its key and what it is over in documents
and certificates.  DER is left out except in `Ber`, whose inputs are octets.  What the other
modules need to know of it are two operators that are constants: `Encoded`, the octets of a
private key's structure, since the GOST style of `from_pkcs8_der` takes whatever octets are there
for a scalar; and `Der`, a certificate's place in the order of the encodings.  `sign` puts the
chain into a set, which has that order and refuses a certificate that is there twice, so
`Cms` has sets of certificates and of signers, and the certificate a signer names is the
least of that name, which need not be the one `sign` was given first.  What a signature is over is octets
without a tag: a content may be the very octets of attributes, and the run offers such a
content with and without the attributes beside it.  The
references are: multiplication by repeated addition and the equation of a signature
over all nonces (`IsSignature`); the key a program wrote, in each style; the DER
of a value, defined from the value and not from its encodings (`DerOf`); the store
before it was written and converted; the file system itself; and what was signed
by whom.

What makes a curve one to sign with is said by `IsSigningCurve` in `Ecc`: its points
are the multiples of its base point, the projective formulas of `ec.rs` add as chords and
tangents do whatever the two points are, and numbers below the order have inverses.  These are
facts of number theory about the curves of the standard, which have prime fields, prime
orders and no point of order two; here they are the assumption `CurvesAssumption`, which TLC
evaluates in full on the three curves of the run.  `Canonical` adds
the tasks of `Ber`, whose operators call each other; it is a module of its own so that
theorems about everything else need not reach a recursive operator.

## 3. Runs

Each run finishes within four minutes on two cores.

| Run | Instance | Shows |
|---|---|---|
| `panels` | 4 calls, 2 places, deadlines 4/2/1 | of the broker: `OneDialogAtATime`, `PermitsBalance`, `GivesUpOnlyAfterAnotherTurn`, `ImplementsOneDialog`, `EveryCallReturns`; of the panels: `NoStackedPanels`, `PanelIsForTheTurn`, `CancelHitsItsOwnPanel`, `PanelsComeDown` |
| `origin_sites` | 2 calls, two origins of one domain and one of another, one `forget_site`, one restart, MAX_GATES 0 | `OneAtATimePerSite`, `NothingAskedTwice`, `RecordsComeFromThePerson`, `StoreMatchesMemory`, `EveryCallIsDecided` |
| `shell` | 1 launch, 1 quit, 1 connection, any number of view reads and dropped events | of the engine: `NoRunIsLost`, `ConnectionsHearTheStop`, `StatusIsTrue`, `CallsReturn`; of the shell: `ShownIsTrue`, `QuitReturns` |
| `password` | 1 call slot, 3 ids, 1 file, 2 passwords, cap 1, lifetimes 3/2/1, 3 attempts, clock to 3 | `KeptOpenedItsFile`, `NeverOverTheCap`, `EndedStaysEnded`, `KeptByLeave`, `ExpiredIsWiped`, `CallsReturn` |
| `key_files` | 2 calls of the nine handlers, a pfx and a yks path, 2 fresh pairs, hard links or none, 1 power cut | `IsDurable` (the refinement), `CertificatesMatch`, `ExclusiveNeverReplaces` |
| `requests` | 4 calls, 2 sites, 1 process identifier, MAX_GATES 0, MAX_ORIGIN_STATE 1 | `EnrollmentsAreNotReplaced`, `FinishedByItsOwnSite`, `SeedsGoToAllowedSites` |
| `tls` | 2 processes, 1 fault, any stored pair at first | `TheWinnersPairIsStored`, `EveryProcessServes` |
| `algorithms` | the inputs described above | `SignaturesAreExact`, `EncodingsAreExact`, `CanonicalFormIsUnique`, `ConversionsKeepKeys`, `EveryListedKeyOpens`, `VerifiedMeansSigned` |
| `origin_forget_race`, `origin_closed_panel`, `lifecycle_double_start`, `key_fresh_race` | smaller | one finding each (section 5) |

Why the bounds suffice.  Four calls are one served, two waiting and one refused
at the door.  Two calls of one site contend for its turnstile, and MAX_GATES 0
makes every new domain prune; that a pruned turnstile is never one in use, whatever
the number of calls, is the theorem `OneTurnPerSite` (and `NotReplaced` for the
turnstiles of `Requests`).  One `forget_site` and one
restart meet a call in every phase; a second of either would start from a state
already reached.  The app makes one call of `start` and one of `stop`; for any
number of them `RunsAreReachable`, `StopsAreHeard` and `StatusTellsTheTruth` are
theorems, and `lifecycle_double_start` looks at three.  One connection suffices because
connections do not touch each other.  In these models the numbers of calls,
forgets and restarts are the only bounds; every other value is finite in the code.

`OpenPassword` also bounds the ids that are ever drawn and the clock (`MaxTime`): a
clock that reaches the longest lifetime lets each deadline pass before, during and
after a call.  Three ids over a cap of one make a session evict another
while a call holds it, and again.  Lifetimes keep the order of the code:
`PASSWORD_TTL_TRANSIENT` (1 minute) < `PASSWORD_TTL_REMEMBERED` (6 hours) <
`DEFAULT_TTL` (24 hours).  In the run one call comes after another; what competes with it are the
loads and unloads of pages, the sweeper and the app.  Two calls that overlap, more files and
more passwords are covered by the theorems of `OpenPasswordProofs`, which hold for any
number of each, and not by the run; `ExpiredIsWiped` and `CallsReturn` have seen one slot.

Every safety property of the passing stateful runs is a theorem as well (section 4),
and so is every property of `algorithms` but `CanonicalFormIsUnique`; for those the
bounds only limit what TLC has seen.  They matter for liveness and for BER.

In `KeyFile` two calls suffice for every race of a check with a write, since a
third would race with either as they do with each other; one path of each format
suffices because handlers touch one target and one source.  In `Requests` one
identifier makes the two sites collide, and four calls are a first step, a second
step, and two more that get in their way.  In `TlsMaterial` two processes are one
with the lock and one without, and one fault leaves each intermediate state once.

In `algorithms` a tag's number has two octets at most for ten (`MaxTagOctets`) and seven bits for 64
(`TagBits`), in which the numbers of high tags wrap as those of 64 bits do, silently; a number that
wraps to that of a string or of a set is among the inputs.  The encodings' order (`Der`) gives each
certificate of a document a place of its own, so that of two of one name either may be the
signer's; sessions hold a chain,
none, or one with the same certificate twice.

Deadlock is checked for `OpenPassword` only, where the sweeper goes on for ever; in
the others calls are made once, so each system comes to rest.

Fairness.  `WF` is put on what the runtime, the main actor or the clock does, and
never on a person, a web page or the vendor: the runtime polls tasks whose wait is
over (`Poll`, `CallStep`, `TaskStep`, `ConnStep`, `Forward`), the main actor runs
what it was asked (`MainActor`, `LaunchStep`, `PumpStep`, `QuitStops`), time passes (`Tick`, and
`RacerEnds` of the sleep), and a task whose `stop` has returned resumes (`RacerEnds`).  In `OriginGate` weak fairness of a call's steps covers `Lookup` and
`DialogEnds`: the lookup ends by `LOOKUP_TIMEOUT`, and the dialog by
`EveryCallReturns` of the broker; the same holds of `CallStep` in `OpenPassword`, whose
`Sweep` is fair because the server's ticker runs as long as the server does.  In
`TlsMaterial` a process goes on and a server that could not start is started again
(`WF` of `Start` and `Step`), a lock grows old (`WF` of `LockAges`), and waiting is
bounded by `LOCK_WAIT_RETRIES`, hence `SF` of `GiveUpWaiting`, which the loop enables
again and again.  Faults, `EventDropped` and power cuts carry no fairness.  In
`EngineLifecycle`, `CallsReturn` excuses a call while the plain
listener drains, because nothing in the code makes a client finish; that is the
case `QuitReturns` is about: the continuation is resumed, and not a second time when the
other task of the race ends after all.

## 4. Proofs

Every invariant, action property and refinement that a passing run checks of a
stateful module is proved for every set of calls, sites, paths or processes and every
admissible value of the other constants, together with the type invariants, which
is why no run repeats those.  So is what the run `algorithms` checks, BER
to DER excepted, for every value of the constants of `Algorithms`.  The named assumptions are in the
modules that declare the constants.  A strengthened invariant was checked by TLC before it was proved.

* `UiProofs`, of the broker: `TypeCorrect`, `MutualExclusion`, `PermitsAreBalanced`,
  `Patience`, `Refinement`.  The invariant is `BrokerInv`: the turn's owner is
  exactly the call past the queue (`TurnInv`); the turn is never free while someone
  waits (`HandoverInv`), without which a release could skip the queue; nobody is
  behind a call that left (`AheadInv`); no timer outruns its deadline (`TimerInv`),
  which with `PatienceAssumption` gives `Patience`; and the permits equation, by
  cardinalities of finite sets (`PermitInv`): finitely many calls are admitted,
  however many there are.  From `BrokerAssumption` and, for `Patience` only,
  `PatienceAssumption`.
  Of the panels: `PanelsRunTheBroker` shows that the composed system is a
  broker, so that `BrokerInv` may be used of it; `PanelTypeCorrect`, `OnePanel`,
  `PanelOfTheTurn`, `CancelIsItsOwn`.  `PanelInv` says what the main actor's queue can
  hold: asks and cancels in turn, an ask followed by its own call's cancel unless it is
  the last message, which alone can be of a call still waited for (`QueueInv`); that
  the screen shows what the next message expects there (`WindowInv`); and whose
  answers are under way (`AnswerInv`, `CurrentInv`).  `cancel` may ignore its id just because
  of this order.
* `OriginGateProofs` - `TypeCorrect`, `OneTurnPerSite`, `AskedOnce`,
  `NothingElseIsRecorded`, `StoreAndMemoryAgree`, from `GateAssumption`.  `GateInv` says that
  a turnstile a call holds is the one in the map for its domain (`HeldIsInMap`): pruning
  keeps what is held.  That an undecided origin stays undecided while a call is past
  the second check (`UndecidedInv`) needs the turnstile: only its owner records.
  `AnswerGiven` and `StoredGiven` tie a pending answer and the file to what was given.
  `StoreInv` is what makes `StoreMatchesMemory` inductive: at every step, not only at
  rest, memory is the file less what is still to be forgotten and with what is still
  to be saved, unless a save and a `forget_site` have overlapped.
* `EngineProofs`, of the engine: `TypeCorrect`, `RunsAreReachable`, `StopsAreHeard`,
  `StatusTellsTheTruth`, from `LifecycleAssumption`.  The first three are inductive given
  the types.  The last needs `StatusInv`: without an overlap one run at most is not over
  (`OneRun`), and the status, once the events under way are handled, is what the listeners of a
  run that nobody has told to end have bound (`StatusComesTrue`); what a queue of events makes of the status is said by
  the last event about a listener (`Coming`), so that no recursion is needed.
  Of the shell: `ShellRunsTheEngine`, `ShellTypeCorrect`, `AppNeverOverlaps`,
  `ShownStatusIsTrue`, from `ShellAssumption` too.  `ShellInv` says that the app starts
  once (`OneStart`), which rules an overlap out, and what each reader has read and is
  still to hear (`ReadsInv`).
* `OpenPasswordProofs` - `TypeCorrect`, `KeptOpened`, `NoneRevives`, `OnlyByLeave`,
  `CapHolds`, from `SessionsAssumption` and `OpenAssumption`.  The invariant joins
  three parts: every entry is typed and its password has opened its file (`GoodMap`);
  a call's session, if still in the map, is for the call's file, and a password
  about to be remembered has opened it (`GoodCall`); histories hold the current
  password (`GoodFiles`).  `GoodCall` is what makes `KeptOpened` inductive: a typed
  password is kept two steps after it was tried, when the file may have changed again.
  All operations of the store but two only take away (`Thins`), which one lemma
  shows for all of them; `LoadKey` and `Remember` are treated by hand.  The cap needs
  the cardinalities of finite sets.
* `KeyFileProofs` - `TypeCorrect`, `FilesMatch`, `ExclusiveKeeps`, `Refinement`, from
  `FilesAssumption`.  `KeyInv` is about what a power cut may leave, not only what is there:
  every content in `onDisk` is whole and its certificate fits (`DiskInv`), because what a
  writer is about to name is whole, fits, and has been synced (`WriterInv`).  That is also what
  the refinement needs at a power cut, and at the step that syncs the directory and
  then acknowledges.
* `RequestsProofs` - `TypeCorrect`, `NotReplaced`, `FinishedByItsOwn`, `SeedsAreAllowed`,
  from `RequestsAssumption`.  The argument is that of the origin gate: a turnstile in use is
  the one in the map and has one owner (`TurnInv`), hence what its owner has checked stays
  true while it awaits (`UndecidedInv`), until it records.
* `TlsMaterialProofs` - `TypeCorrect`, `WinnersPair`, `WinnersPairSurvives`, from
  `TlsAssumption`.  As long as no lock was taken for stale, one process generates, and what it
  has written so far is in the directory and nothing else is there for a power cut to
  bring back.  `WinnersPairIsDurable` is stated here and checked by no run.  The type
  invariant needs that there always is an unused pair: finitely many numbers are in use.
* `AlgorithmsProofs` - `SpecSignaturesAreExact`, `SpecEncodingsAreExact`,
  `SpecVerifiedMeansSigned`, `SpecConversionsKeepKeys`, `SpecEveryListedKeyOpens`.  The
  specification has one step, so the invariant `Inv` is short: the task is one of those asked
  (`Asked`) and the answer is what the code computes for it (`Replied`).  The work is
  in theorems about the operators, which hold for every input and not
  only for the tasks:
  * Curves: `LadderMultiplies`, `VerifiesExactly`, for every signing curve, scalar, hash and
    pair of numbers.  The ladder keeps two neighbouring multiples at each bit; a signature is
    accepted exactly when the equation of the standard has a nonce for it, also when
    the hash is a multiple of the order.
  * Encodings: `PrivateKeyInEveryStyle`, `TlvIsReadAgain`, for octets of every radix above
    three, scalars of every width and values of every length.
  * Stores: `StoreIsReadAgain`, `ConversionsKeepStore`, `ListedAliasesOpen`,
    `OpensUnderItsPasswordOnly`, `YtksIsReadAgain`, for stores of every size.  A PKCS#12 file
    does not say which certificates belong to a key, hence the hypotheses: keys have names and
    identifiers of their own, a key's leaf is not in the chain of an earlier one, each
    certificate of a chain is the only one that can follow the one before (`Readable`), and
    keys differ once identifiers are lost in YTKS-2 (`Convertible`).  Section 5 says what becomes of
    stores that do not meet them.  The stores of the run do, which `SpecConversionsKeepKeys` shows.
  * Discovery: `ListedOnce`, `EveryKeyIsListed`, `ListedIsNamed`, for every file system (the
    first asks that a directory be a sequence of names, so that a disk can be told from
    its `DSKEYS`).
  * Documents: `AcceptedWasSigned`, `SignedIsAccepted`, `VerifiedChainWasIssued`,
    `RequestVerifiesAsBuilt`.  What `sign` made is accepted if the chain has no certificate
    twice and no other one with the leaf's name (`IsSigningChain`): the set forgets which was
    the first.  A good verdict means a signature over the octets of the content, or over attributes
    that name it; which of the two the signer says himself, by having attributes or none.

  From `CurvesAssumption`, `EncodingsAssumption`, `EncodedAssumption`, `DerAssumption`,
  `StoresAssumption`, `NamesAssumption` and
  `AbsenceAssumption`; the last three say that a model value for "none" or "failed" is none of the
  values it is told from, the two before that encodings are octets and have an order.  What is computed step by step is written as a recursive
  function, and induction over its steps is a proof by the least counterexample: the library
  gives that `<` on the naturals is well founded and that a set of them has a minimum
  (`Induction`, `InductionUpTo`); that such a function exists, and that two of one step agree,
  are `RecursionUpTo` and `RecursionIsOne`.

  These are theorems of `Algorithms!Spec`.  The run checks `SpecWithBer` of `Canonical`, whose
  further tasks none of the five looks at.

Only model-checked:

* Liveness (`EveryCallReturns`, `PanelsComeDown`, `EveryCallIsDecided`, `CallsReturn` of the
  engine and of passwords, `QuitReturns`, `ExpiredIsWiped`, `EveryProcessServes`), which is
  outside the prover's reach.
* `CanonicalFormIsUnique`.  The parser and the encoder of BER follow the nesting of what they
  read and so are recursive operators, which cannot be reached from a module with theorems.

## 5. Findings

1. *A forgotten site may come back* (`ForgottenStaysForgotten`).  `forget_site`
   clears memory and the store in three lock scopes, `register` and `allow` write
   memory and store in two; a save that lands last revives the site at the next
   start.  Without an overlap the two agree (`StoreMatchesMemory`).
2. *A second start may take a server down* (`StartLeavesARunningServer`).  `start`
   judges by the listener status, which lags behind the sockets.
3. *A fresh key may replace a key file* (`FreshNeverReplaces`).  `save_pfx` and
   `save_ytks` look for the target, await the dialogs and the encryption, and then
   call `overwrite_key_file`, which replaces what came to be there meanwhile.
4. *A panel that is closed is a refusal on record* (`OnlyChosenRefusalsStay`).  The doc of
   `decide` says that a cancelled dialog records nothing, but a permission panel that is closed
   answers `.deny` (`MacUiDelegate.swift`), which reaches `decide` as `Ok(Deny)` and is kept
   for the rest of the process.  The panel for a random seed is closed the same way: its `false`
   becomes `Consent::Deny` and is recorded, where `randseed.rs` says that a cancellation is cached as
   nothing.  In `Requests` this is the answer `closed` of `SeedAnswered`, and
   `SeedsGoToAllowedSites` says what holds all the same: a refusal on record comes of a panel
   about that site that was refused or closed.

Seen while modelling and not listed as findings:

* The shell subscribes to the engine's events after it has loaded everything else,
  and `next` skips what a lagging receiver lost; in both cases nothing asks for the
  status again until the next event.  Two reads of the status may also cross.
* A password typed while remembering was on is kept after it is switched off, and a
  wrong cached password expires whatever is cached by then, also a newer one.
* `change_password` writes the store it read before its dialogs, and the second step of
  an enrollment removes it by its identifier after its awaits.
* `update_settings` applies and saves outside the lock, in any order.
* A process that took the TLS lock does not look again whether a pair has come to be,
  and a lock taken for stale may be a newer one; pairs that do not match are made
  again at the next start, which is `EveryProcessServes`.
* The unused bits of a constructed bit string are those of its first segment, where
  the last one's would count.
* Files with the extension in capitals or a stem that starts with a dot are listed and
  cannot be named in a request.
* Two certificates of one subject, or two entries of one key pair, are confused by
  the reader of a PKCS#12 store, and an empty alias is lost.  A YTKS store without
  keys opens under the read-only password.
* A key of one family is accepted with the name of the other family's curve.
* The certificates of a document are sorted when it is made; if two of them have one issuer and
  serial number, `verify` judges by the first in that order, not by the one that signed.
* A signature over attributes is also one over their octets: given as the content, without the
  attributes, they verify.  The verdict names the content it was given, so nothing but what was
  hashed is called signed, and CMS itself does not tell the two apart.
* A tag's number of more than 64 bits wraps, silently, and may then be taken for a string's or a set's.
* The check of a chain compares only signatures, and `create_pkcs7` replies with a
  document even when the session's certificate is another key's.
* A start that spawns its run between another call's taking the handle and its
  signal has its listeners closed by that signal, and a late `Stopped` resets the
  status of the new run.  The shell never overlaps a stop with a start, so
  `StatusIsTrue` leaves that case out (`overlapped`).

## 6. Plan

Done: the broker and its panels, the origin gate and store, the lifecycle and the
shell's status, the sessions and their passwords, the key files and their writers,
enrollment and random seeds, the TLS material, and the algorithms.

Proofs done: every safety property of the stateful modules, and of the algorithms all
but `CanonicalFormIsUnique`.  Left: that `OneDialog` and `DurableFiles` by themselves
give what their callers rely on, and a definition of BER without recursive operators.

Not modelled, and why:

* Block ciphers and hashes (bit-level; the repository's self-test has vectors),
  and `zeroize`, which leaves no trace in a value.
* Names of certificates, their views, the QR form of a key and the texts of errors:
  formatting.
* The table of functions with its arities and the languages of sites: constants and
  look-ups.
* HTTP routes, embedded pages, device tokens, log forwarding: input and output
  without state that anything here depends on.
* Preferences and the app's history files: a lost write is accepted there.
* Windows, layout, the update checker, the installer of trust: platform calls.
* The command line: it starts the same engine without a user interface.
