# A TLA+ model of OSDP-Embedded

OSDP-Embedded is a C library for both ends of the Open Supervised Device
Protocol: the controller (ACU) and the peripheral (PD, a card reader) on a
half-duplex RS-485 line. This directory models the protocol engines of both
ends, checks them with TLC on small instances, and proves some of what they
promise with TLAPS for every value of the parameters.

Paths below are relative to the repository.

## 1. The system

### Parts, state and operations

| Part | Code | State | Operations |
|---|---|---|---|
| ACU slot | `acu/src/acu.c` | per PD: `next_seq`, `waiting`, `pending_*`, `online`, `last_reply_ms` | `osdp_acu_register_pd`, `osdp_acu_send_command`, `osdp_acu_tick` (scan of the reply and offline deadlines, then drain, decode, `process_reply`) |
| ACU Secure Channel | `acu/src/acu_sc.c` | `sc_phase`, keys, nonces, `sc_session` | `osdp_acu_start_sc_handshake`, the CCRYPT, RMAC_I and secure-reply handlers, `terminate_sc`, events to the application |
| PD core | `pd/src/pd.c` | address, retransmit cache, `online`, `last_comm_ms`, TX buffer | `osdp_pd_tick`: offline check, drain, decode, `process_frame`, inter-character check; COMSET, KEYSET |
| PD Secure Channel | `pd/src/pd_sc.c` | keys, `session`, `got_chlng`, nonces | CHLNG, SCRYPT, operational frames |
| PD dispatch | `pd/src/pd_dispatch.c` | none of its own | library commands, the application's handler and its verdict, KEYSET hook, event on POLL, manufacturer messages, abort, status, capability, ACURXSIZE and KEEPACTIVE requests |
| Event queue | `pd/src/pd.c` 802-916 | a byte buffer of length-prefixed records | enqueue, dequeue (on POLL), clear, discard on communication loss |
| Stream decoder | `core/src/shared/stream.c` | `buffer`, `fill`, `pending_consume` | feed, next, pending, reset |
| Secure Channel core | `core/src/sc/` | `osdp_sc_session_t`: keys and the two rolling MACs | key schedule, cryptograms, wrap, unwrap |
| Frame codec | `core/src/shared/frame.c` | none | build, decode |
| Multipart, file transfer | `core/src/shared/multipart.c`, `pd/src/pd.c` 196-311, `pd_dispatch.c` 83-106, 208-230, 348-418 | `mfg_reasm`, `mfg_vendor`, `ft_*`, the application's buffers | push, iterate, early termination, abort, rebinding |
| LED and buzzer banks | `core/src/shared/led_state.c`, `buz_state.c`, `pd/src/pd.c` 994-1296, `acu/src/acu.c` 61-200 | slots with temporary and permanent state, the last value reported | apply, resolve at a time, refresh, handlers |
| Command and reply codecs | `core/src/commands`, `core/src/replies`, `core/src/sc/payload.c`, `core/src/dispatch` | none | build and decode payloads, pad, classify |
| Capability report | `pd/src/pd_pdcap.c`, `core/src/replies/reply_pdcap.c` | bound records, and through them every bound buffer | validate, check, bind, report |
| Buffer bindings | `pd/src/pd.c` 670-800 | five buffers and their capacities, `acu_rx_size` | bind, size a reply, size a fragment |
| Ports, bindings, tools | `ports`, `vendor`, `rust`, `tools` | | AES behind a vtable, FFI, mocks, an MCP server |

### How they interact

Each end is single-threaded and driven by its main loop, which calls `tick`.
The two ends share only the line. A controller tick first scans the deadlines,
calling `timeout_cb`, from which the application may send again before the
offline check of the same slot runs. It then reads the driver into the stream
decoder, decodes until nothing is complete, and routes each reply by security
block and handshake phase. A PD tick first checks whether it has gone offline,
then reads, decodes and answers each command at once; the answer may come from
the retransmit cache, the Secure Channel handlers, the library, or the
application through the dispatch. Callbacks run inside the tick.

### What is hard

Everything difficult here comes from the line and the clock: a reply that is
lost after the PD has acted, a reply that arrives after its timeout, two ends
whose MAC chains moved differently, one end restarting, a transmission that
stops half-way, an answer at sequence number 0, which both ends read as "start
over". `PROJECT.json` lists each hazard at its line, with the properties that
would notice it going wrong.

### What makes the parts correct

* Slot: nothing displaces an outstanding command; a reply answers the command it is
  reported with; a slot never stays blocked.
* Secure Channel: both ends agree on the keys; the chain survives any single
  loss followed by a repeat; the application knows whether it is protected; a
  dead session is noticed.
* PD: a repeated command is not carried out again and has one answer; a key rotates
  with its ACK; an address is left only after it was announced.
* Events: none forgotten, none twice, in order, none after an outage.
* Decoder: bounded, progressing, in order, and never confused for long.
* Transfers: what is handed up is one message as it was sent; success means it
  was handed up; losses alone do no harm; a steady sender gets through.
* Reader state: what is reported is what is shown; timers end on time; a verdict
  is all or nothing; the controller's mirror follows the reader.
* Capabilities: nothing is promised that the bound buffers cannot keep.

## 2. The modules

| Module | Models | Extends |
|---|---|---|
| `Wire` | frames, symbolic Secure Channel terms, `osdp_sc_session_t`, the line and its faults | |
| `Acu` | one slot of the controller | `Wire` |
| `Pd` | the peripheral | `Wire` |
| `Link` | both ends, the line and the clock; all their properties | `Acu`, `Pd` |
| `Rpc` | the abstract command service of the controller's API | |
| `Stream` | a sender, the stream decoder, a receiving tick, the inter-character timeout | |
| `Events` | the event queue over its byte buffer, polls, replies, outages | |
| `Multipart` | fragment codec, reassembler and iterator, as operators | |
| `Transfer` | file transfer, manufacturer messages and abort, behind the retransmit cache, with sending applications | `Multipart` |
| `Resolver` | what a light shows and a buzzer does at a time, as operators | |
| `Reader` | the PD's LED and buzzer banks, the controller's mirror, their callbacks | `Resolver` |
| `Codec` | every command and reply layout, one decoder, one builder, padding, classification, as operators | |
| `Caps` | buffer bindings, capability report, status and size requests, the sizes of frames | `Codec` |
| `MCLink`, `MCStream`, `MCEvents`, `MCTransfer`, `MCReader`, `MCCaps` | constants for TLC; `MCCaps` also the exchange that drives the codecs | |
| `LinkProofs`, `DeliveryProofs`, `ChainProofs` | theorems about `Link`, each module on top of the one before | `Link` |
| `StreamProofs`, `EventsProofs`, `TransferProofs`, `ReaderProofs`, `CapsProofs` | theorems about the module they are named after | |

Definitions named `Mut...` are faulty variants of the definition that follows
them (a missing guard, a lost reset, an off-by-one). No specification uses
them. Each one shows that a property notices that fault; `PROJECT.json` says
which.

### Link

An action is one step of a tick or one API call. A frame is handled only when
no deadline of its end is due, since the scan at the start of the tick would
have fired it. `in_scan` marks the gap in the controller's scan between the
timeout callback and the offline check: there, and anywhere between two steps,
the application may call the API.

* `SendCommand`, `StartScHandshake`, `RegisterPd`, `SetPdScbk`, `SetPdScbkD`
  are the API calls; `ReplyTimesOut` and `GoOffline` the two deadlines;
  `AcuReceive` routes a reply to `ProcessReply`, `HandleCcrypt`, `HandleRmacI`
  or `HandleScReply`.
* `PdBadCheck`, `PdNotOurs`, `PdRetransmit` and `PdFresh` are the ways of a
  received command; `PdFresh` goes through `HandleClear`, `HandleChlng`,
  `HandleScrypt` or `HandleOperational`, and to `Dispatch`.
* `PdGoOffline` is the PD's offline check and `PdRestart` a power cycle.

What is abstracted:

* *Cryptography.* A MAC, a cryptogram or a session key is the tuple of what it
  is computed from, so equal terms are equal bytes and nothing collides. The
  library sends only four bytes of each MAC; the model compares whole ones.
* *Time.* An age saturates just past its deadline, so a deadline is met or
  missed and nothing else is told apart. `ReplyTimeout = 0` means that one tick
  of the clock makes the deadline due.
* *Writes.* A write reaches the line whole or fails. On the PD a failed write may
  have sent some bytes, which refresh `last_comm_ms` and set `online`, or none,
  which leave both alone.
* *The application.* `Verdicts` is what its handler may answer. `GivesUp`
  says whether it may send something else after a timeout; with `FALSE` it
  repeats, as the API's documentation of retries asks. `ReplyFits` says whether
  replies fit the bound cache buffer.
* *History.* `log` (the MAC of every command issued, by its id), `runs`, `excused`, `delivered`, `tx`, `timed_out`,
  `app_secure` and `gave_up` (the application sent something else after a challenge
  timed out) record what happened, for the properties (and,
  for `tx` and `timed_out`, for the retry policy). A repeat that is
  byte-identical carries the id of the original.

### Stream

One receiver and one sender. A byte remembers the transmission and the place
it came from, which makes the integrity check exact: a buffer prefix passes if
it is one whole transmission in order. Frames are scaled down (one LEN byte,
one CTRL byte that announces a CRC), but keep the relations that matter: a
header is shorter than the smallest frame, a CRC frame needs one byte more
than a checksum frame, and a payload may contain a SOM. The clock assumes that
an end is ticked at least once per unit and that a tick takes less than one.
`Silence`, the gap after which a sender starts over, is several times the
inter-character timeout: each spurious `TRUNCATED` can cost a tick before the
abort.

### Events

The queue is the byte buffer of the code, cell by cell, so that the room check,
the record layout and the compaction are really exercised. The controller polls
with one sequence number until it is answered, as a slot of `Acu` does; there
is no Secure Channel. A tick of this clock stands for seconds, so no frame
survives one. Two losses are deliberate in the code and recorded in `dropped`:
an event longer than the scratch buffer, and one answered at sequence number 0,
which is never recognised as a repeat.

### Transfer

An *attempt* is one sending of one message, and a byte remembers the attempt
and the place it belongs to, so a message put together from two attempts shows.
A buffer is a function from the places written to the bytes there, so a copy
past its end shows in its domain. A steady sender (`Start`, `SendNext`,
`Resend`) fragments with the library's iterator, repeats what is not answered
and starts over when refused. Everything else a sender, a second application or
the PD's application may do is a `Stray` step, and counts against `MaxFaults`
together with lost frames and callbacks that do not say OK. `FileRefused`,
`FileTaken`, `MfgRefused`, `MfgTaken`, `HandleAbort` and `HandlePoll` are the
handlers, each with its reply and what the cache keeps of it (`Finish`). In
streaming mode the code keeps no buffer; the model keeps one on the
application's behalf, to say what it was handed. `pd_online` and the age of the
last reply decide when the cache is cleared, as in the code: only a PD that is
online can go offline, and only a reply brings it online again. There is no
Secure Channel, whose effect on repeats `Link` covers.

### Reader

A bank is a function whose domain is the slots in use. `PdCommand`,
`PdRetransmit` and `PdTick` are the three kinds of PD tick, each ending in the
refresh of both banks; `AcuSend` and `AcuRepeat` fill the mirror as
`osdp_acu_send_command` does, after the frame is written. `heard` is what an
application knows that only listens to its callbacks. Times are in units of
100 ms on a clock of `Turn` units, and the history starts just before it turns
over. `armed` and `time` are history: the time that really passed. The cache holds
the last command with its number, so a command that is given up and sent again with
the same bytes is a retransmit, and one at number 0 never is; `FirstSeqs` is where
the slot's numbers start. The history is far shorter than the offline timeout, and
the PD does not go offline.

### Codec and Caps

A layout is the list of a message's fields, whether they repeat, and what its
tail depends on. `Decode` and `Build` work on bytes, so endianness, signs and
lengths are the code's. `Caps` uses the sizes of the source (1440-byte frames,
16-byte cipher blocks, 8 bytes around a plain payload) and no scaled-down ones, because
its questions are about a byte more or less; its payloads carry an `extra` length
for bytes nobody reads. An action is an API call of the application in any
order (`SetBuffers`, `SetPdcap`, `SetMfgReceiver`, `SetStatusProvider`, `SetKey`,
...), a command (`Send`) or its repeat (`Again`); `Handle` follows
`handle_command_into_tx` from the gate through the dispatch to the built and
wrapped frame, any step of which may find that it does not fit. The application's
handler accepts or refuses; a verdict that is dropped in silence is in `Pd`, and the
route of a manufacturer command into a bound receiver in `Transfer`.

## 3. The runs

All runs check for deadlock, except those of `Reader` and `Caps`, whose histories end
when the bounds on commands and calls are used up.

| Run | Shows | Bounds |
|---|---|---|
| `LinkSession` | `TypeOK`, `ChainRecoverable`, `AtMostOnce`: a session over a bad line | one handshake, two commands repeated until answered, loss, corruption, BUSY, silent drops, one re-registration |
| `LinkPlain` | `ReplyAnswers`, `OneAnswer`, `AddressAnnounced`, `ImplementsRpc` | five commands, a full turn 0,1,2,3,1 of the numbers, COMSET with the application's override, two frames in flight each way so that replies are late and duplicated |
| `LinkRecovery` | `EventsTellPhase`, `EstablishedIsOnline`, and the liveness of `Unblocks`, `HalfOpenDetected`, `HandshakeResolves` | losses, one PD restart, commands given up |
| `LinkInstall` | `SessionAgreement`, `SecureReplyAnswers`, `DisplacedOnlyIfGivenUp` | from the default key, rotation, two handshakes, failing writes, commands and handshakes given up |
| `Stream` | `StreamTypeOK`, `DecodedInOrder`, `DecodeProgress`, `CleanFrameDecoded` | three transmissions, one fault, bursts of two and five bytes, an eight-byte buffer that is overrun, nested headers |
| `EventsPoll` | `BufferHoldsRecords`, `EventsInOrder`, `NoEventForgotten`, `OutageDiscards` | five events of two sizes, one too long for a reply, a nine-byte queue, two replies in flight |
| `Transfer` | `BuffersBounded`, `WholeMessage`, `FinishedIsDelivered`, `LossHarmless`, `AbortForgets` and the liveness of `Delivers` | two applications, messages of two and three fragments and one too long, two completed transfers, two faults of any kind |
| `Reader` | `HeardIsShown`, `TimersRunOut`, `MirrorAgrees`, `AckIsApplied` | three lights in banks of two, two buzzers in banks of one, two commands with repeats, one loss, two rebindings, numbers from 0 and across their turn, a clock that turns over |
| `Caps` | `PromisedFrameReceived`, `ReportSorted`, `ReplayGenuine`, `FragmentFits`, `CodecRoundTrip` | four API calls and two commands in any order, at the real sizes; every message layout with its field extremes |

The largest has about 3.7 million states and the slowest takes about two
minutes. The bounds are chosen so that the interesting case happens: a second
handshake in a session, a fifth command so that number 1 is used twice, two
replies in flight so that one is stale, a buffer that two frames overrun, a
queue that refuses an event by one byte, two attempts of equal length
under different vendor codes, a command that needs one slot more than the bank
has, a timer that spans the turn of the clock, buffers one byte around each
limit. Each property of these runs is broken by its `Mut...` variant within the
same bounds.

`LinkPlain` includes the refinement: with its history as witness, `Link`
implements `Rpc`.

### Where code and documentation disagree

Three runs check a sentence of the documentation or of a comment; TLC shows a
behaviour of the code that contradicts it. `PROJECT.json` quotes both.

| Run | The sentence | What the code does |
|---|---|---|
| `LinkKeysetNak` | a KEYSET that is not ACKed rotates nothing | it rotates when the handler answers NOT_SUPPORTED |
| `LinkBusy` | BUSY does not disturb a session | sent at sequence 0, it ends the session on the controller |
| `LinkSwallowed` (`RetransmitAnswered`) | a reply too big to cache is not cached, and the retransmit is processed fresh | the command is cached without a reply, and its repeat is swallowed (`pd.c` 561, 606) |

`OneAnswer` is what remains of the last promise: a repeat that is answered has the
answer of the first time.

### Known limits

What came up while modelling. The properties are stated so that they hold of
the code as it is; each of these is the case a property leaves out, and most
are noted at their hazard.

Link and events:

* A CCRYPT that comes after its challenge timed out sends SCRYPT over the command
  that the application sent instead (`acu_sc.c` 239, against `osdp_acu.h` 35), which
  then has neither reply nor timeout. `DisplacedOnlyIfGivenUp` says that nothing else
  displaces a command.
* An event enqueued while the PD is offline waits through the outage
  (`pd.c` 386, against `osdp_pd.h` 1244).
* NAK 0x01 in the clear ends the session on the controller, where the PD
  expects the corrupted command to be repeated (`acu.c` 254, `pd.c` 1461).
* A secure command that is given up instead of repeated leaves the chain broken:
  later ones are dropped in silence until the offline timeout ends the session
  (`acu.c` 467). `ChainRecoverable` covers the application that repeats.
* Silence in mid-handshake is not detected on a slot that was never online
  (`acu.c` 320); `HandshakeResolves` covers the slots that were.
* Without a Secure Channel, corruption can make a reply answer the wrong command:
  the slot takes the PD's NAK 0x01 for the reply and moves its number on
  (`acu.c` 262), and after two of them in a row a command with the bytes of the
  one three numbers ago is a repeat to the PD, which sends the old reply again
  (`pd.c` 590). `ReplyAnswers` is stated for a line that loses frames whole.
* A frame that arrives steadily is aborted when the new residue is as long as
  the one seen last (`pd.c` 427, `acu.c` 512).
* A decode loop can stop in front of a complete frame (`stream.c` 138).
* A byte dropped from a full buffer may start a complete frame (`stream.c` 81).

Transfers:

* A callback that drops a command without a reply, twice, leaves it in the cache of
  a PD that is already offline. Only an online PD clears its cache (`pd.c` 386), so
  every further repeat is swallowed, where `osdp_pd.h` 148 counts the cost of no
  answer as one reply timeout. `Delivers` names the state (`Swallowed`) as the one
  exception.
* A fragment at sequence number 0, or one longer than `cmd_cache`, runs again
  when its FTSTAT is lost, and is refused as out of sequence (`pd.c` 590, against
  `osdp_pd.h` 300). `LossHarmless` excludes it with `rerun`; `Delivers` does not.
* BUSY from `mfg_cb` comes after the message was reset, so the repeated last
  fragment is refused and the whole message has to be sent again
  (`pd_dispatch.c` 414). `Delivers` includes it.
* A refused `osdp_ABORT` has ended the transfer all the same
  (`pd_dispatch.c` 208).

Reader state:

* Nothing clears `temp_active`, so a colour whose timer has run out shows again for
  its length one turn of the clock after the command (`led_state.c` 76, against
  `osdp_led_state.h` 21), and a flashing permanent colour changes phase when the
  clock turns over. `TimersRunOut` is stated for one turn from the command.
* The mirror is left behind by a command that is given up, refused, or longer
  than its bank (`acu.c` 117); `diverged` marks those lights.
* A handler bound late is told of changes only, never of what is already shown.

Capabilities and sizes:

* The combined message size (function code 11) is checked when the records are
  bound. A receiver unbound or made smaller later leaves it in every report
  (`pd.c` 935), where `pd_pdcap.c` 217 wants no such promise advertised. No property is
  stated: for a receiver that stays bound it would only repeat the check.
* A cached report survives a rebinding of `rx_plain`.
* `acu_rx_size` bounds `osdp_pd_max_fragment_payload` only. The library's own
  PDCAP and status replies are not measured against it.
* A fragment cut before the channel changes may no longer fit, and is dropped.
* `osdp_pd_set_pdcap` accepts a function code twice.
* `OSDP_PD_BUF_MIN_LEN` is 8, where the smallest built frame with a CRC needs 9
  with its mark byte (`osdp_pd.h` 493).

### Fairness

`FairSpec` assumes weak fairness of the clock, of the controller's two
deadlines and of its receiving step: its main loop keeps calling
`osdp_acu_tick` and `now_ms` advances. Nothing is assumed of the application,
the PD or the line. In particular the line may lose everything, so a lost
session is noticed by timeouts alone.

`TransferFairSpec` assumes weak fairness of the sender's own steps, of its
repeat and of both ends' handling of a frame that is on the line: both main
loops run and the sending application does not stop. Losses, refusals and stray
steps are bounded by `MaxFaults` and otherwise free, so `Delivers` says that a
message gets through once they cease, from whatever state they left but one: an
offline PD that holds the command without a reply (`Swallowed`). Nothing is
assumed to keep a line or a callback good for ever.

## 4. The proofs

All theorems hold for every value of the constants that satisfies the `ASSUME`s
of the modules, so for every set of keys, commands, messages and faults, every
timeout, size and bound. Most say that an invariant of a run always holds. Few of those
are inductive as they stand; each section names the stronger invariant that is.

### Link

| Theorem | Establishes |
|---|---|
| `TypesHold` | `[]TypeOK` |
| `EventsAlwaysTellPhase`, `OfflineHasNoSession` | `[]EventsTellPhase`, `[]EstablishedIsOnline` |
| `SessionsAgree` | `[]SessionAgreement` |
| `SecureRepliesAnswer` | `[]SecureReplyAnswers` |
| `CommandsRunOnce` | `[]AtMostOnce` |
| `MovesAreAnnounced` | `AddressAnnounced`, if `"short" \notin Faults` and `Broadcast \notin Addresses` |
| `RepliesAnswer` | `[]ReplyAnswers`, if `Persistent` |
| `LinkImplementsRpc` | `ImplementsRpc`, if `Persistent` |
| `OneAnswerEach` | `[]OneAnswer` |
| `ChainsRecover` | `[]ChainRecoverable`, if `Steadfast` |
| `CommandsNotDisplaced` | `DisplacedOnlyIfGivenUp`, if `SingleFile` |

* `SlotInv` (for events and online state). That a session is only ever
  established together with the online flag depends on phase, session record
  and event agreeing before the step; that they keep agreeing depends on every
  path that ends a session going through the same reset. One lemma per API
  call, deadline and reply handler; other steps leave the slot alone.
* `KeysInv` (`KeysAlwaysKnown`, for `SessionAgreement`). Keys are terms over the
  nonce of the challenge they came from. The invariant says which nonces may
  occur where: challenges on the line are in the order of their nonces and none
  is newer than the slot's, the PD's keys come from a challenge that was sent,
  and RMAC-I on the line was made with keys the PD holds unless a newer challenge
  is under way. Only then does a reply that verifies prove whose keys were used.
* `LogInv` (`LogAgrees`, for `SecureReplyAnswers`). Every secure command on the
  line carries the MAC the log has for its id, and the MAC of every secure
  reply, on the line or in the cache, is chained on the logged MAC of the
  command it answers. Since a MAC is a term, a reply that unwraps under the
  slot's chain is chained on the pending command's MAC. The property compares
  logged MACs and not ids: two commands with equal MACs are the same bytes at the
  same place of the chain, and neither end can tell them apart.
* `OnceInv` (`OnceInvariant`, for `AtMostOnce`). A command that was carried out is
  *protected*: its copies on the line and in the slot are recognised by the cache,
  or by a MAC chain that has moved past them, for as long as there are any.
  This needs that the copies of one command are the same bytes and stay together on the line.
* `AddressedInv` (for `AddressAnnounced`): the slot writes only to addresses it
  may be registered for. The two hypotheses are the cases in which the code does
  move unannounced (see Known limits and the hazards).
* `RpcInv` (`RpcInvariant`, for `ReplyAnswers` and the refinement): with *n* commands issued,
  frames, replies and the cache belong to command *n* or *n* - 1, in that order, and
  carry the matching number; every ACK was earned by a run of the command. So a
  number that comes round again never meets a reply that old. `Persistent` says that
  the application repeats what is not answered (`GivesUp = FALSE`), registers the
  PD once, uses no Secure Channel and that the line loses frames whole.
  Under a weaker hypothesis the property is false: the known limits show how. The
  refinement is by one step simulation per action; `LinkPlain` is an instance of the
  hypotheses.
* `AnswerInv` (for `OneAnswer`): a conclusive reply on the line belongs to a command
  that is still *protected* in the sense of `OnceInv`, so as long as the reply is
  there no copy of its command can be carried out again and answered otherwise; and
  conclusive replies to one command, with the one in the cache, are the same bytes but
  for corruption. There is no hypothesis: verdicts, buffer sizes, faults and the
  Secure Channel are as they may be.
* `ChainInv` (for `ChainRecoverable`). The two rolling MACs are terms, so a place of the
  chain is a term too, and only finitely many of them can occur at a time. The
  invariant has three parts. `HandshakeInv`: while the slot waits for
  RMAC-I nothing of a session is on the line behind the server cryptogram, so a PD that
  has confirmed the handshake is still at the place its confirmation names.
  `SlotChainInv`: the command the slot waits for, or will repeat, is chained on the
  slot's inbound MAC, and its copies are the same bytes. `ChainedInv`: the ends are
  *even* (the PD's outbound MAC is the slot's inbound one, no reply to the present
  command exists) or the PD is *ahead* (its outbound MAC is that of the reply in its
  cache, which is chained on the present command); every other secure frame on the
  line is chained on a place the slot has left, so no end takes it. The property by
  itself says nothing while frames are under way, which is where all steps happen.
  The proof rests on `KeysInv`, `LogInv`, `OnceInv`, `SessionAgreement` and
  `EstablishedIsOnline`.

  `Steadfast` says that the application repeats what is not answered, that writes
  succeed, that replies fit the cache, that the PD does not go offline (and drop its
  cache) before the slot does, and that there is no COMSET, whose reply is
  not kept. Without any one of them TLC finds a counterexample at the size of
  `LinkSession`. Loss, corruption, late and duplicated replies, restarts and
  re-registrations are all allowed.
* `SingleInv` (for `DisplacedOnlyIfGivenUp`). `handle_ccrypt` does not look at `waiting`, so
  what keeps a late client cryptogram from displacing a command is its sequence number
  alone. The invariant says where the slot can be while the challenge or the reply to it
  is on the line and the application has not given it up: where it sent the challenge
  (`Challenged`), or one number further (`WentOn`), because a stale reply was taken for
  the answer. `SingleFile` says that the line carries one frame each way, which is what a
  half-duplex line does; it bounds the stale replies ahead of the cryptogram by one,
  where three would bring the number round. The application does as it likes, and
  handshakes, registrations, restarts and faults are unbounded.

### Stream

`StreamBounded` (`[]StreamTypeOK`), `DecodeLoopEnds` (`[]DecodeProgress`) and
`FramesInOrder` (`[]DecodedInOrder`). They rest on what `Consume`, `Feed`,
`Resync` and `NextCall` leave: an end of what they were given, never longer, and
strictly shorter unless the call says TRUNCATED. `OrderInv` says that the bytes
in decoder, driver and sender are in the order sent, that the last byte of a
transmission is followed by later transmissions only, and that none of them
belongs to one already handed on.

`CleanFramesDecoded` (`[]CleanFrameDecoded`) says how long a sender has to be silent
before the receiver is certain to take its next frame. `CleanInv` is the invariant
behind it, in three parts:

* `QueueInv`: one read empties the driver, and between ticks `rx_partial_len` is
  what the decoder holds.
* `SilenceInv(k)` bounds the silence by what the decoder still holds. A tick
  either drops a header that announces a CRC its frame has no room for, which
  `osdp_stream_next` reports as TRUNCATED, so that the residue changes and its age
  starts over; or it leaves a residue that no later tick changes, whose age then
  follows the silence until the timeout. With at most `k` such headers the decoder is
  empty once the line was silent for more than `Interchar + k + 1` units.
* `Arriving` and `Arrived`: from then on the undecoded bytes are the beginning of
  the one transmission, the inter-character timeout is not due before the sender has
  paused as long, and a complete transmission is first in the buffer when the decode
  loop starts.

The hypotheses are `WellFormed` (frames as the library builds them, and so short that
the buffer holds one together with a chunk of the next), a silence of more than
`Interchar + k + 1`, and that there are never more than `k` short headers in the
buffer (`FewHeaders(k)`). The run satisfies them with `k = 1`, and there the bound is
exact: TLC finds a lost frame as soon as `Silence` is `Interchar + k + 1`. The corollary
`PatientSenderDecoded` takes `k = BufferLen` and assumes nothing of the contents.

### Events

`QueueHoldsRecords`, `ReportedInOrder`, `NothingForgotten` and `OutageIsForgotten`
(`BufferHoldsRecords`, `EventsInOrder`, `NoEventForgotten`, `OutageDiscards`).
`EventsInv` adds to them where an event may be between the queue and the
controller: in the cache under the number of the poll it answered, in replies to
that poll, and nowhere else; replies to an older poll hold events already taken, and
what is queued is newer than all of these.

### Transfer

`BuffersNeverOverrun`, `MessagesWhole`, `SenderNotMisled`, `AbortIsFinal` and
`LossIsHarmless` (`BuffersBounded`, `WholeMessage`, `FinishedIsDelivered`,
`AbortForgets`, `LossHarmless`). `TransferInv` ties each reassembler to one
attempt: while it is active, its buffer holds the beginning of that attempt as
far as `received` says, that attempt is the latest of its kind with its tag and
length, and its total was admitted against the buffer. Answers on the line and in the cache that
say success to a last fragment have a delivery behind them. `SteadyInv`, for
`LossHarmless`, adds that the PD's offset is the sender's, or one fragment ahead with the
answer in the cache. `DistinctMessages` assumes that two applications do not
send messages of the same kind, tag and length: the fragments carry nothing
else to tell them apart by.

### Reader

`CallbacksTellAll` (`HeardIsShown`) and `AckMeansApplied` (`AckIsApplied`).
`HeardInv` says that the last value reported of a slot is the slot's `last` field
even when it is stale, and that `last` is what is shown once an end with
bound callbacks has ticked. The second theorem needs that the banks are finite and
that commands on the line are the application's; its core is lemma `FitMeansAll`, that
the slots `pd_led_bank_can_fit` counts are the slots the records need.
`TimersAreExact` (`TimersRunOut`) says that a timer is exact for one turn of the
clock from the command, wherever in a turn that was and however long the history. `TimersInv` says that a timer that
runs was started when the clock showed its start, whichever record of a command
set it; lemma `ElapsedIsTime` is the unsigned subtraction. Past one turn it
is false of the code, as the known limits say.

`MirrorFollowsReader` (`MirrorAgrees`). The property speaks of the time between
commands only, so `MirrorInv` follows one under way: a light the command does
not name agrees; a light it names has in the mirror what the command sets, and at the
PD too once an answer on the line or in the cache says that it was applied; a light
whose two states differ for good is in `diverged`, or the mirror has no slot for it
and all of its slots are taken. The permanent state a command leaves depends on the
command alone and not on the bank or the clock (`PermOf`).

`ReaderAssumption` says that commands have records and a buzzer command exactly one;
`KeysAssumption` that a key names a light or a buzzer and not both.

### Caps

`RepeatsHearTheirReply` (`ReplayGenuine`) and `FragmentSizeExact` (`FragmentFits`).
The first needs that the caches hold a reply to the command beside it
(`CacheGenuine`). The second is arithmetic on the real sizes, with the remainders of
the cipher's padding (`LargestPayload`), and the fact that a fragment was cut for
the link it names.

`ReportsAreSorted` and `PromisedFramesReceived` (`ReportSorted`,
`PromisedFrameReceived`) are two readings of one invariant.
`ToldInv` says of what the controller was told, and of a report in the retransmit
cache, that it is in order, has the library's codes once each and says of every
frame size no more than the buffers of the time it was built had. It rests on `SortKeeps`, that
the insertion sort loses, repeats and invents nothing, and on `ReportReadBack`, that
the controller decodes the records that `handle_pdcap` built.

The codecs are proved for every command and reply, every value of every field and any
number of records:

* `MessagesReadBack`: what a builder makes of a message, its decoder reads as that
  message, through the padding of an encrypted frame too.
* `PayloadsWriteBack`: a payload that a decoder takes is what the builder makes
  of the message read from it, unless it is a COMSET with an address that the
  decoder takes and the builder refuses.

`IsLayout` is what the tables of `Codec` have in common (lemma `AllLayouts`), `IsMessage` what fits the fields of a
layout. The argument goes from the bytes of one little-endian number (`LeReadsBack`,
`LeWritesBack`) to a record (`RecordWritten`, `RecordWrittenBack`), to the
concatenation of records (`Flattened`), to the message with its tail.

`CapsAssumption` says that capacities are numbers, that capability records are three
bytes, that payloads are sequences of bytes, and that POLL carries nothing.

### Loops over data

The loops over bytes and records in `Reader`, `Codec` and `Caps` are recursive functions
or folds. Two facts make them provable: that such a function satisfies
its equations (`LedStatesDef`, `LedSlotsDef`, `Loop`), and that a set of numbers
which has 0 and, with every number, the next one has them all (`Counting`, from the
well-foundedness of `<`). The set is an expression and not an operator parameter, so the
provers can use it. A loop invariant is then a set of indices.

### Only model-checked

* Liveness (`Unblocks`, `HalfOpenDetected`, `HandshakeResolves`, `Delivers`):
  the prover has no fairness.
* `CodecRoundTrip`, in two of its conjuncts: that a code is classified as the kind it
  was built for, which is a comparison of two tables, and that a buffer one byte short
  is refused. What is built reads back, and what is taken writes back, are theorems
  above.

## 5. Not modelled

* Several slots on one controller: a slot's state is disjoint from the others'
  and frames are routed by address; a frame for another address is dropped, as
  `LinkPlain` shows once the PD has moved.
* The position of the header bytes of a frame, the CRC polynomial, CBC and the
  AES core: stateless arithmetic, covered by the repository's tests with
  recorded captures. What a frame costs in bytes, and padding, are in `Caps` and
  `Codec`.
* Failures of the crypto vtable, which the ports never report after binding.
* The Rust bindings and the tools: they add no protocol state to the library.
* A 32-bit clock that turns over, outside `Reader`: the deadlines of `Link` and `Stream` use
  wrap-safe subtraction and fire long before a turn.

## 6. What is left

The modules cover the library, and every safety property of the runs has a theorem but
for what "Only model-checked" names. That needs a prover with fairness, or is finite.
