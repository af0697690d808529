# TLA+ verification of atv

`atv` is a one-shot command line client for the Android TV Remote v2 protocol:
each invocation opens a TLS connection to a TV, follows the TV's messages until
it knows whether the screen is on, perhaps injects keys, prints one JSON object
and exits. This directory models that behaviour in TLA+, checks it with TLC on
small instances and proves the central properties with TLAPS for every value of
the constants. Paths below are relative to the repository.

## 1. Inventory

| Component | State | Operations | Where |
|---|---|---|---|
| Session handshake | `power`, `active_features` | `handle` | `src/session.rs:21-89` |
| Session commands | connection, `got_any`, `tries`, `changed`, `attempt`, deadlines | `read_power`, `status`, `press_power_once`, `set_power`, `set_power_with_wake`, `wait_for_port`, `send_keys`, `send_app_link` | `src/session.rs:132-512` |
| TLS client | the client certificate | `from_credential_dir`, `connect`, `peer_cert_der` | `src/tls.rs` |
| Pairing | `awaiting_code` | `PairingFlow::handle`, `compute_pairing_secret`, `pair` | `src/pairing.rs` |
| Credential store | `cert.pem`, `key.pem` | `ensure_identity`, `ensure_paired`, `resolve_credential_dir` | `src/identity.rs`, `src/config.rs` |
| Framing | none (bytes of the stream) | `write_message`, `read_message` | `src/framing.rs` |
| Discovery | the map of devices found | `discover` | `src/discover.rs` |
| Wake-on-LAN | none | `parse_mac`, `magic_packet`, `send_magic_packet` | `src/wol.rs` |
| Command line, output, errors | none | parsing, `emit`, `exit_code` | `src/cli.rs`, `src/output.rs`, `src/error.rs`, `src/main.rs` |

Interaction: `main` dispatches to one function. `pair` uses the credential
store, the TLS client, framing and `PairingFlow`; every other TV command uses
the store, the TLS client and framing through `read_power`, and
`SessionHandshake` for each message. The client is a single thread; everything
concurrent is outside it: the TV, which acts on keys, sends, closes, sleeps and
wakes on its own, the network, the clock, and other users of the same TV. Two
`atv` processes share only the credential directory and the TV.

What is hard here:

- *The power key is a toggle.* `on` and `off` are built from "read the state"
  and "press if it differs", with up to four attempts, each on a new connection.
  A press too many undoes the command; a press too few leaves the TV dark.
- *Observation and action race.* The state is read, then a second passes before
  the key is sent; after the key, frames from before the key are still unread.
- *Everything fails silently.* TVs ignore keys sent too early or during
  shutdown, a write to a closed connection can succeed, a rejected certificate
  only shows under the first read because `connect` does not wait for the TLS
  handshake.
- *Timeouts at two levels.* A socket timeout per read and a deadline per loop;
  a loop that has only the first can be kept alive by chatter.
- *Errors of later attempts.* A retry that fails must not hide an earlier press.
- *Streams without marks.* A frame is found by the length in front of it: one
  byte too many or too few, and everything behind it is read wrongly.

What makes each component correct:

- Session commands: the report (`power`, `changed`, error kind) agrees with what
  was done and seen; presses are bounded; no retry undoes a press; every command
  ends; Wake-on-LAN is a last resort; the TV gets the keys of `key` in order and
  without a gap, all of them unless it closes the connection first.
- Session handshake: features are intersected over all configures, and no command
  goes on to inject keys unless the TV was told the mask in force.
- Pairing: success only after the TV accepted the certificate that the run
  presented.
- Credential store: the two files are the halves of one identity, a paired
  identity stays, and after a crash `pair` can repair what is left (which the
  code achieves in all cases but one).
- Framing: `read_message` inverts `write_message` up to its limits, however the
  bytes are split, delayed or cut off, and never past them.
- Discovery: the browse ends when its timeout does, and lists every device that
  answered in time, under its latest name.

`PROJECT.json` lists the hazards with the line where each bites and the property
that watches it.

## 2. Modules

| Module | What it is |
|---|---|
| `Handshake` | Pure operators: `SessionHandshake::handle` and the small decision functions of `session.rs`. Feature masks are sets of bits. |
| `Negotiation` | The two loops that call `handle` on one connection, for any messages and with replies that may fail to be written; history of what the TV offered and what it was told. |
| `Session` | One invocation of status / on / off / key / launch against one TV, with the clock; the properties. |
| `PowerCommand` | What status, on and off promise of a TV, without connections, messages or time: the abstract specification. |
| `SessionRefinement` | The refinement mapping from `Session` to `PowerCommand`, as the property `KeepsPromise`. |
| `Framing` | `write_message` and `read_message` over one direction of a connection, byte by byte, with delays, cuts and noise. |
| `Channel` | What framing promises: a queue of whole messages, received in order until one is refused, late, or the connection has ended: the abstract specification. |
| `FramingRefinement` | The refinement mapping from `Framing` to `Channel`, as the property `KeepsMessages`. |
| `Discovery` | `discover`: the browse loop against the mDNS daemon's queue and the clock. |
| `CredentialStore` | `cert.pem` and `key.pem`, and the steps of `ensure_identity` and `from_credential_dir` on them, one file-system call at a time. |
| `Pairing` | Any number of `atv pair` runs on that store, each with its own connection to the TV: `PairingFlow::handle`, `pair`, crashes, and the TV's side. |
| `Enrollment` | What `pair` promises of the machine and the TV, without files, messages or crashes: the abstract specification. |
| `PairingRefinement` | The refinement mapping from `Pairing` to `Enrollment`, as the property `KeepsIdentity`. |
| `MCNegotiation`, `MCSession`, `MCPairing`, `MCFraming` | Values of the constants for TLC. (`Discovery` needs none: its constants are sets of model values.) |
| `NegotiationProofs`, `SessionProofs`, `SessionPowerProofs`, `SessionDeliveryProofs`, `SessionRefinementProofs`, `PairingProofs`, `FramingProofs`, `DiscoveryProofs` | Theorems and proofs. |

`Session` and `Negotiation` both extend `Handshake`; `Pairing` extends
`CredentialStore`. Each of the three refinement modules extends its component and
instantiates the abstract specification over expressions of its variables; the
MC module and the proofs both extend that module, so what TLC evaluates and what
TLAPS proves are the same definitions. The inductive invariants stand in the
proof modules that need them.

### How Session corresponds to the code

`pc` is the blocking call the thread is in:

| `pc` | Code |
|---|---|
| `open`, `connect`, `handshake` | the three stages of `read_power` |
| `pause` | the sleep before an inject (`KEY_INJECT_GRACE`, `KEY_INTERVAL`), and the write after it |
| `await` | the confirmation loop of `press_power_once` |
| `backoff` | the sleep between two attempts of `set_power` |
| `settle` | the sleep after the last inject of `key` / `launch` |
| `wake`, `poll`, `pollpause` | `send_magic_packet` and `wait_for_port` |
| `done` | the output is printed |

An action is what the thread does between two blocking calls. `Fail(kind)` and
`EndAttempt(changed, observed)` are the two ways `press_power_once` returns to
`set_power`; they contain the loop condition, the swallowed error of a retry,
the `match` of `set_power_with_wake` and the final output. `tries` counts
completed attempts, so `tries > 0` in `Fail` is the `Err` arm inside the loop
and `tries = 0` is the `?` of the first attempt. `AwaitRead` does not look at
the result of `handle` except for `power`, as the code, which ignores errors and
failed replies there; `HandshakeRead` ends the command on either.

Abstractions: a frame is one record; a frame whose body does not decode carries
a mark. Any read may be split by `Fragment`, which restarts the socket timeout,
because `read_message` performs several reads per frame. A write to an open
connection arrives; a write to a closed one fails (`InjectFail`) or is lost
(`InjectOk` with a closed `link`): then it counts as `written`, and the TV never
sees it. `acted` is the history of what the TV did act on, so that the two can be
compared. Time is counted in whole ticks and `Tick` may
not pass a client that can proceed, so code between blocking calls takes no
time. Errors of socket options and of the TLS configuration, and a write that
times out on a stalled but open connection, are not modelled: the messages are a
few bytes. The credential store is a constant of the command
(`paired`, `missing`, `unusable`).

The TV is external. It is built from what the code sends it and what the code,
its comments and the README report of measured TVs: it says `remote_start` with its
power state, on each connection once it is ready and again whenever it likes; it
pings, configures, sends errors or garbage (`Chat`); it ignores keys for
`EarlyWindow` ticks after `remote_start`; it may ignore up to `MaxDrops` power
keys; with `Faults` it may close, go silent, or leave the network, from which a
magic packet may bring it back with the screen on or off.

### How Pairing corresponds to the code

A member of `Proc` is one invocation of `atv pair`. Its `pc` is the step that
comes next:

| `pc` | Code |
|---|---|
| `idle` | the existence check of `ensure_identity` |
| `create`, `cert_write` | the two halves of `fs::write(cert.pem)`: truncate, write |
| `key_open`, `key_write` | `OpenOptions::open` and `write_all` of `write_key_file` |
| `load`, `load_key` | the two reads of `from_credential_dir` |
| `connect`, `exchange` | `connect`, the initial message, and the loop until `awaiting_code` |
| `code` | the prompt, `compute_pairing_secret` and the write of the secret |
| `ack` | the last read |
| `done`, `crashed` | the process is gone |

A file is `absent`, `empty` (created and not fully written) or belongs to the
run that generated it. `LoadError` is what `from_credential_dir` makes of a
pair of files; that a certificate beside a key of another identity is an error
is rustls' own check in `with_client_auth_cert` (external). A crash may come
between any two file operations, and a file operation may fail. A written file
is taken to be durable: the code does not sync, and a power loss that undoes a
finished write is outside the model.

A message is its status and the field that `handle` acts on. The typed code is
right, or wrong with a checksum byte that happens to fit (`SendSecret` sends a
secret the TV refuses), or rejected by the client (`RejectCode`: `pairing_failed` for
the code itself, `protocol_error` for a certificate or a key that cannot be read).
Nobody need ever type one: `read_line` has no timeout. The digest is
assumed free of collisions: only the right code gives the right secret. The TV
answers each message of the exchange once, adds the certificate of the connection to
`trusted` when the right secret arrives, and with `Faults` may refuse or close at
any time. On the connections in `Insistent` it may also ask or acknowledge again
(`TVRepeat`), instead of an answer or on its own, with up to `MaxWaiting`
messages under way. `Concurrent` says whether runs of `pair` may overlap.

### How Session implements PowerCommand

`PowerCommand` has five variables and four steps. `Press` is the write of a power
key, allowed only on a TV that is not in the state asked for and that no other
press is on its way to; `Act` is the TV taking or ignoring it; `Wake` is the
magic packet; `Report` ends the command: a failure has pressed nothing, a
success says whether it has pressed, and a state it claims to have seen is the
TV's. The mapping is short: presses are `Len(written)`, a press is under way
while `pending` is not empty, the report is read off `out` once `pc` is `done`,
and connecting, reading, waiting, retrying and polling are stutters. That `changed`
accumulates over attempts, that a retry's error is swallowed and that an
unconfirmed press reports an assumed state are all in `Report`.

### How Pairing implements Enrollment

`Enrollment` has three variables: the one usable `identity` of the machine, the
identities the TV accepts (`trusted`), and what each run has reported. `Generate`
makes an identity where there is none, `Accept` lets the TV accept the identity
there is, and `Succeed` needs it accepted. The identity is what
`from_credential_dir` would find (`StoredIdentity`): none while a file is missing,
unwritten or of another run. So the write that completes the key is `Generate`;
every other file operation, crash and repair, and every message but the
acceptance, is a stutter. That nothing replaces an identity, and that a TV is
only shown the one that stays on disk, is the absence of any other step.

### How Framing implements Channel

`Channel` is the connection as `Session` and `Pairing` model it: a queue of whole
messages (their `inbox`), and a reading that ends with a refused message, a
timeout, or the end of the connection (the cases of their `ReadError` and of
`Read`). The queue is `Unread`: the messages sent that end within the stream
(`Whole`) without those returned. A byte taken is a stutter, the last byte of a
body and its decoding are a `Receive`, and a cut in the middle of a frame takes the
frame out of the queue at once, though its first bytes are still read. Its remnant
may be refused for its length, or ends in `Eof`; that `Eof` is behind every whole
message is what a caller relies on when it takes the end of a connection for the
last word. With noise on the stream nothing is promised (`Garble`).

### How Framing corresponds to the code

`stream` is everything written to the connection, `pos` what the reader has taken,
`call` where `read_message` is: its loop over the length (`shift` is the loop
variable, `len` the value so far), its read of the body (`have` bytes so far), or
failed. The reader takes one byte per step; `ReadFail` is a timeout or the end of
the stream at any of them. Groups of seven bits are digits to the base `BASE`
(128 in the code), the bit 0x80 adds `BASE`, `<<` and `>>` are multiplication and
division by powers, `GROUPS` is 5. The writer's loop is a closed form: `Rounds`
is the number of its turns, `Varint` the bytes pushed. `Close` cuts the stream at
any byte not yet read. The callers call again after a success and drop the connection
after an error (`Call`), which is what makes a timeout in the middle of a frame
harmless: the mutant that reads on violates `InOrder`.

### How Discovery corresponds to the code

`events` is what the daemon's thread has queued, each with the second it was
queued in; `taken` is how many of them the loop has received. `Loop` is the loop
head, which computes what is left of the timeout; `Receive` and `ReceiveFails`
are the outcomes of `recv_timeout`; `Handle` is the `match`. The library's set of
addresses has no order, so `Preferred` leaves the choice among the IPv4
addresses open, and among all where there is none. The daemon may stop at any time; what is
queued by then can still be received.

## 3. Runs

Constants are scaled: what matters is their order (`CONFIRM_TIMEOUT` below
`CONFIRM_DEADLINE`, pauses short) and that each timeout takes at least one tick,
so that every frame can come before, at or after it.

| Run | Checks | Shows |
|---|---|---|
| `session_safety` | `TypeOK`, `PressAccounting`, `PressBudget`, `ReportIsTrue`, `AwaitBounded`, `KeyAfterGrace`, `WakeIsLastResort`, `NeverUndone`, `KeepsPromise`, `WakeBounded` | status, on, off (with and without `--mac`, with a missing or unusable store), three attempts, a faulty TV that chats pings, errors and garbage and fragments frames; every step implements `PowerCommand`. About 1.2 million states. |
| `session_persistent` | `PersistentOn` | A reachable TV that ignores two presses is on after at most three attempts, when `on` reports success. |
| `session_live` | `KeysDelivered`, `Termination` | One command of each kind, key sequences of one and two keys and an app link among them, under every loss, with a TV that pings for ever after `remote_start` and another user of it: each ends. A key / launch that reports success has written every inject, what the TV acts on has no gap, and if the connection is still open when the client drops it, the TV has acted on all. About 390,000 states. |
| `negotiation` | `ActiveIsAgreed`, `AgreedIsTold` | Any order of messages with six masks, including 0 and disjoint ones, before and after the key, with replies that fail. About 4,200 states. |
| `pairing` | `TypeOK`, `OneIdentity`, `UnusableIsTorn`, `PairedIsTrusted`, `PairedStaysUsable`, `KeepsIdentity`, `PairEnds` | Two runs of `pair`, one after the other in either order, with every crash, file error, refusal and lost connection, one of them on an insistent connection: one run that leaves a wreck or pairs, one that repairs or could spoil it; every step implements `Enrollment`. A run goes on to the prompt, or ends, and after the prompt it ends. About 360,000 states. |
| `framing` | `TypeOK`, `InOrder`, `RefusedForCause`, `KeepsMessages` | Two messages out of bodies of every length around the limits, two bytes of noise, timeouts and cuts at any byte; every step implements `Channel`. About 940,000 states. |
| `discovery` | `TypeOK`, `InTime`, `EveryAnswer`, `LatestName`, `Termination` | Three events of two services with two IPv4 and one IPv6 address at any time before, at and after the deadline, and a daemon that may stop. About 3.7 million states. |
| `pair_race` | `FirstPairWins` (violated) | finding 5 |
| `stale_observation` | `ObservationIsFresh` (violated) | finding 1 |
| `silent_tv` | `AuthRejectedMeansClosed` (violated) | finding 2 |
| `slow_power_key` | `OnIsIdempotent` (violated) | finding 3 |
| `endless_handshake` | `Termination` (violated) | finding 4 |

Bounds and why they are enough. `MaxInbox = 2`: the orders that matter are of a
stale frame and a fresh one, or chatter and `remote_start`. `Rate = 1` message
per tick keeps a tick finite without limiting a run. `MaxHello` bounds the
messages before `remote_start`, except under `Babble`. `MaxFragments = 1`: a frame in two parts.
`POWER_ON_ATTEMPTS` is 3 where the number of retries matters (first, middle and
last attempt) and 2 elsewhere; the code has 4. `MaxDrops` is one less than the
attempts in `session_persistent`, the largest value for which the property can
hold. The three attempts, the wake-up and each end of a connection all occur
(every action fires in the passing runs). `pairing` has two runs,
the least in which one run can spoil what another has left, and its members of
`Proc` are not interchangeable, as one is insistent; `pair_race` declares them
so (`SYMMETRY`). `framing` takes base 2, three groups and a limit of 5, so that
bodies of 0 to 8 bytes lie on both sides of each limit (5 and 6 at `MAX_FRAME`, 7
and 8 at the last group) and a byte of a body can be taken for a length; two
messages are the least for the second to be read from a wrong place. `discovery`
has timeouts of 0, 1 and 2 seconds on a clock that runs one further, and three
events, the least with one that is superseded and one that ends nothing.
The check for deadlock is off in `negotiation`, `pairing`, `pair_race`, `framing` and
`discovery`, where
everything may be over or the other side may say nothing more; it is on in the other
passing runs. The proofs below do not depend on any of these bounds.

Fairness (`FairSpec`): weak fairness of the client's thread, of the clock while
the client waits, and of the TV taking or losing a key it received. Nothing is
asked of the TV's messages, of the network or of the other user. The thread is
scheduled by the operating system and the clock runs, so the code justifies the
first two; the third only keeps a received key from stopping the clock, which
in the runs without `SlowTV` waits until the TV has acted. In `Pairing`, weak
fairness of each program that was started, except at the prompt (`AtPrompt`): there
`read_line` waits for a user who may never answer. Nothing is asked of the TV, so
elsewhere a run goes on by the TV's doing or by the socket timeout. `PairEnds`
accordingly says that a run comes to its prompt or to its end, and comes to its end once it
has left the prompt, and it has the end of the TV's insistence as a hypothesis, because the loop of
`pair` has no deadline: a TV that repeats itself for ever does hold it open. `Pairing`
takes a message as a whole. A frame in parts restarts the socket timeout with each
part, but has finitely many bytes (`MAX_FRAME`), so a trickle can hold up one read for
very long, not for ever. In `Discovery`,
weak fairness of the loop and of the clock, nothing of the daemon.

### What the violated properties show

1. *Stale observation.* `src/session.rs:422` says that any state seen after the
   key is a fresh observation. A `remote_start` that arrives during the grace
   period is unread at that point and is handled after the key. The proofs show
   that this is harmless for the toggle (`NeverUndone`) and for a confirmed
   state (`ReportIsTrue`) as long as nobody else uses the TV: a stale frame then
   shows the old state, which is never the wanted one. It can still be the
   reported `power` of a command that saw nothing else.
2. *Silent TV.* The README defines `auth_rejected` as the TV closing the session
   immediately; the code reports it for any failure of the first read, also a
   ten second silence, which the README's exit codes count as a timeout.
3. *Slow power key.* Re-reading the state makes a retry safe only if the TV has
   acted on the previous key by then. With a slower TV the second press undoes
   the first.
4. *Endless handshake.* The README gives a worst case of about 40 s for `on`;
   `read_power` has no deadline, so a TV that keeps pinging without ever
   sending `remote_start` holds the command open.
5. *Pair race.* `ensure_identity` checks for the files, generates an RSA key and
   writes. Two first runs at once both generate; the slower one replaces the
   identity of the faster, which the TV may have accepted meanwhile. The first
   run has printed `paired:true`, and its certificate is gone.

The README estimates the wait for a confirmation at "roughly 8 s" (lines 82-84):
the deadline plus one read timeout. That is exact for a frame that arrives whole; a
frame in parts has one timeout per part, and `AwaitBounded`, which is proved,
states the bound that then holds. It also says that after the magic packet the
client polls for "up to 15 s" (line 66). The budget is looked at before each poll
only, so the last poll and the pause after it come on top: 16.5 s, the bound that
`WakeBounded` states and `WakeEnds` proves.

One state of the credential directory is beyond repair by `pair`: a key file that
was created and not written. `UnusableIsTorn` states, and the proof shows, that
it is the only one; the code's own note at `src/identity.rs:90` says that the
existence check looks no further.

## 4. Proofs

| Theorem | Module | Statement |
|---|---|---|
| `TypeCorrect` | `SessionProofs` | `Spec => []TypeOK`, the bound of the retry loop included |
| `PressesAreReported` | `SessionProofs` | `Spec => []PressAccounting` |
| `PressesAreBounded` | `SessionProofs` | `Spec => []PressBudget` |
| `AwaitEnds` | `SessionProofs` | `Spec => []AwaitBounded` |
| `WakeEnds` | `SessionProofs` | `Spec => []WakeBounded` |
| `ReportsAreTrue` | `SessionPowerProofs` | `Spec => []ReportIsTrue` |
| `ToggleIsNeverUndone` | `SessionPowerProofs` | `Spec => NeverUndone` |
| `KeysComeAfterGrace` | `SessionPowerProofs` | `Spec => []KeyAfterGrace` |
| `WakesOnlySilentTVs` | `SessionPowerProofs` | `Spec => []WakeIsLastResort` |
| `KeysAreDelivered` | `SessionDeliveryProofs` | `Spec => []KeysDelivered`: what `key` / `launch` wrote against what the TV acted on |
| `OnPersists` | `SessionDeliveryProofs` | `Spec => []PersistentOn`, for a TV that sends no errors and nothing undecodable |
| `CommandsKeepTheirPromise` | `SessionRefinementProofs` | `Spec => KeepsPromise`, for status, on and off on a TV nobody else uses |
| `FeaturesAreAgreed` | `NegotiationProofs` | `Spec => []ActiveIsAgreed` |
| `FeaturesAreTold` | `NegotiationProofs` | `Spec => []AgreedIsTold`, replies that fail included |
| `PairingTypes` | `PairingProofs` | `Spec => []TypeOK` |
| `StoreHoldsOneIdentity` | `PairingProofs` | `Spec => []OneIdentity` |
| `UnusableStoreIsTorn` | `PairingProofs` | `Spec => []UnusableIsTorn` |
| `PairedIdentityStays` | `PairingProofs` | `Spec => []PairedStaysUsable` |
| `PairedMeansTrusted` | `PairingProofs` | `Spec => []PairedIsTrusted` |
| `RunsKeepTheIdentity` | `PairingProofs` | `Spec => KeepsIdentity`, for runs that do not overlap |
| `ReaderStaysInBounds` | `FramingProofs` | `Spec => []TypeOK` |
| `MessagesArriveInOrder` | `FramingProofs` | `Spec => []InOrder` |
| `LimitsFitTheWriter` | `FramingProofs` | `Spec => []RefusedForCause` |
| `FramesAreMessages` | `FramingProofs` | `Spec => KeepsMessages` |
| `DiscoveryTypes` | `DiscoveryProofs` | `Spec => []TypeOK` |
| `BrowseEndsInTime` | `DiscoveryProofs` | `Spec => []InTime` |
| `EveryAnswerIsListed` | `DiscoveryProofs` | `Spec => []EveryAnswer` |
| `ListIsUpToDate` | `DiscoveryProofs` | `Spec => []LatestName` |

Assumptions, all on constants: `CommandsAssumption` (clap requires a key),
`ChatAssumption` (the TV's chat contains no `remote_start` that lies about the
power; a plain `remote_start` is `TVStart`), `TimeAssumption` (attempts, backoff,
the pause after the last key and the read timeouts are positive, the other
pauses are natural numbers) and `EnvAssumption`. The last contains
`EarlyWindow <= KEY_INJECT_GRACE`, the measurement on which the grace period
rests (keys are lost for about 100 ms, the grace is one second). `Framing`
assumes that `MAX_FRAME` has at most five groups and that bodies are no longer
than a `u64` counts (`FramingAssumption`), and two facts about `^` that the
provers do not know (`PowersAssumption`); `Discovery` and `Pairing` only what
their constants are. TLC evaluates all of them in the runs. Three theorems have a
hypothesis of their own: `RunsKeepTheIdentity` considers runs that do not overlap
(`~Concurrent`; `pair_race` shows why); `CommandsKeepTheirPromise` considers status, on and off
(`PowerOnly`) on a TV that nobody else uses and that acts on a key in time
(`Undisturbed`); `OnPersists` a TV whose chat never ends a session. Where a
property itself begins with such a condition, the theorem is about that case.

The argument. None of the properties is inductive: each speaks of the end of a
command, while the danger lies in the middle. The proof modules of `Session` strengthen
them:

- `Phase`: which calls a command can be in and how far the loop of `set_power`
  is (`on` alone retries, `await` belongs to on / off, `wake` to a first attempt);
- `Presses`: keys written against completed attempts, one ahead in `await`, and
  `changed` true exactly when a key was written;
- `Keys`: the written injects are a prefix of the arguments;
- `AwaitClock`: time spent plus time left plus a socket timeout for every part
  still to come never exceeds the bound: a part or a tick only moves time from
  one term to another;
- `WakeClock`: the same for `wait_for_port`, where a poll that starts within the
  budget may outlast it by its connect and its pause;
- `Unheard`: a first attempt that is not connected has heard nothing, not even the
  end of a connection;
- `Wire`: when a connection exists, and that the TV's early window is over by the
  time the grace period is;
- `Pipeline`: where the client can be while the TV still holds a key: never in
  a handshake, so a new attempt reads a state that no earlier key will change;
- `Truth`: what the client knows against the TV's power: every unread frame of a
  handshake shows the present power, a client about to press has a TV that is not
  in the requested state, and at most one power key is ever in flight.

`ClientInv` (types, books, clock) holds for every environment. `Pipeline` needs
a TV that acts within the tick (`~SlowTV`) and `Truth` a TV nobody else uses
(`Undisturbed`); `slow_power_key` shows that the first condition is necessary.
`ToggleIsNeverUndone` then is one case analysis: the only steps that change the
power are a key in flight, which `Truth` excludes when the power is the wanted
one, and a wake-up, which only `on` causes.

`KeysAreDelivered` adds two parts. `Delivery`: what the TV acted on, followed by what it
still holds, is a part of what was written without a gap in between, and on an open connection
it is all of it. `Settling`: the pause after the last inject is not over while the
TV holds one. So a connection that is still open when the client drops it has lost
nothing. One that the TV closed before may have: a write to it can succeed
locally, and `send_keys` reports success for it, as the property says openly.

`FeaturesAreAgreed` and `FeaturesAreTold` rest on what `handle` does to the masks
(`HandleMasks`): a reply carries the mask it has just computed, and a mask only ever
shrinks. In `read_power` a reply that fails ends the session, so while the session lives the
last mask told is the one in force. `press_power_once` ignores a failed reply
(`src/session.rs:435`), so after the key the TV may hold an older mask, which can
only be larger.

`OnPersists` adds two parts for a TV that stays reachable (`Polite`). `Steady`:
once such a TV has been heard its certificate check is behind it, its
connections stay open, and what it says can be read, so no attempt after the
first fails. `Ledger`: every attempt so far has made one press, and while the TV
is off each of them was ignored or is in flight; the confirmation loop does not
end while one is in flight, because no time passes then. At the end the
presses are as many as the attempts, which is more than the TV ignores.

`CommandsKeepTheirPromise` goes through the actions. Most map to a stutter: they
leave the power, the presses, the key in flight and the report alone
(`HiddenStep`). For the others the invariant is exactly what the abstract guard
asks: `Press` may only be taken on a TV that is not in the state asked for and
has no press on its way (`Truth`, `Pipeline`), and the honesty of `Report` needs
`Presses`, `Truth` and one more part, `Definite`: an attempt that is over saw the
wanted state or pressed, and its report names a state.

`FramingInv` has two parts. `StreamInv` says where each message lies on the
stream. `ReadInv` says where the reader is in the message it is reading; in the
length, with n the number the writer encoded and k groups read,
`len + BASE^k * Rest(n, k) = n`, so when the last group comes `len` is n. That
the writer's `Rounds` exists is a least-element argument (`LeastNat`). The
invariant is about a stream without noise; nothing but bounds is promised of one
with it.

`FramesAreMessages` needs one part more, `Taken`: the reader is past what it
returned, so those messages are whole. `Whole` is a choice, and the proof pins it
down by both ends: it exists and is the largest number of messages that end in
the stream (`WholeExists`, `WholeLargest`, from a least element again), it is all
of them while the connection is open, and it does not grow when the stream is cut.
The step with content is the end of the stream: a reader that stands at the end
with its frame incomplete has no whole message behind it (`NothingWhole`).

`DiscoveryInv` says that an event still queued came in this very second, as the
loop takes events before it lets time pass (`Waiting`), and that what it has taken
is in the map under its latest name (`Listed`, `LatestName`).

The credential store has an invariant of its own, `StoreInv` in `PairingProofs`:
a run is alone, a key file is only there beside a certificate, and `OnDisk` says
what each step of a run knows about the files. That a run with a present
identity skips the writes is what keeps `cert = key`; that a run without a key
rewrites the certificate too is what keeps it after a crash. It holds when runs
do not overlap (`~Concurrent`), and `pair_race` shows why it must be so.

`RunsKeepTheIdentity` adds `Offered`: whatever is on its way to the TV comes from a
run whose certificate is the one on disk, a usable one, and a run that is not over
has reported nothing. `StoreSteps` and `ExchangeSteps` show which
steps touch the files and which touch `trusted`; only the write of the key turns
a store without an identity into one with, and nothing turns it back.

`PairedMeansTrusted` needs no such condition, but speaks of the runs whose
connection is not in `Insistent`. Any message with status OK passes
for the answer to the secret, so the danger is an earlier answer still unread
when the secret is sent. `OnWire` excludes it: in the exchange at most one
message is on the wire, in either direction, until a refusal closes the
connection; at the prompt nothing but refusals is left; and an acknowledgement
in the inbox of a run that waits for it means its certificate is trusted.

Only model-checked: `Termination` of `Session` and `Discovery` and `PairEnds`, as
liveness and ENABLED are outside the prover's reach. Every other property of a
passing run is a theorem. No module declares a RECURSIVE operator, and none
needs an induction over data: the loop of `read_message` is followed by an
invariant of its steps, the writer's loop is a closed form.

## 5. Not modelled, and the plan

What could still be added, the most useful first:

1. `Pairing` and `Session` composed over one store and one TV: an identity that
   is replaced between two commands. `Session` now takes the store as a constant,
   `Enrollment` is the abstract store that it could be read from.
2. `Session` over `Channel` instead of its own `inbox`: the two queues are the
   same in kind, but `Session` also counts time and partial reads.

Left out because they keep no state, and their cases are few enough for the unit
tests beside them: keycode parsing, `parse_mac` (which accepts a signed group such
as `+f`, as `from_str_radix` does), the magic packet's layout, the resolution of the
credential directory, the table of exit codes. Left out because the platform
decides: a `--timeout` so large that adding it to the clock overflows.

Left out for good: generated protocol types, JSON text and timestamps, logging,
and the cryptography of TLS and of the pairing digest.
