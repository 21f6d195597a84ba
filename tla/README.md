# A TLA+ development for CoreBGP

CoreBGP (`../src`) is a BGP library: it runs the BGP state machine towards any
number of peers and hands capabilities, session changes and UPDATE messages to a
user's `Plugin`. Its difficulty is in its goroutines. Per peer there are a
manager and up to two state machines, each with a dialer and a reader, timers, a
keepalive manager and callers of `WriteUpdate`; a server with listeners sits on
top. They meet on unbuffered channels and one mutex, and almost every wait can be
raced by a stop, a timer or the other connection. That is one half of what is
modelled here. The other half is what becomes of the octets of a message: two
decoders that walk over lengths from the wire, and an error policy (RFC 7606) that
decides what a damaged UPDATE may still do.

## The system

| part | source | its state | its operations |
|---|---|---|---|
| server | `server.go` | mutex `mu`, map of peers, `serving`, two channels that are closed once | `Serve`, accept loops, `handleInboundConn`, `AddPeer`, `DeletePeer`, `Close` |
| peer manager | `peer.go` | `fsms[2]`, `fsmState[2]` (its view of them), hold-down, `closeCh` | the select of `run`, `handleStateTransition`, `handleError`, `disableFSM`, `enableFSM`, `stop`, `incomingConnection` |
| damping | `peer.go` | `lastProtoError`, `startupDelay`, its timer | `updateStartupDelay`, the expiry |
| FSM | `fsm.go` | the transition being agreed, connection, dial, reader, timers, remote ID | `run` and the functions `idle` ... `established`, `cleanup`, `read`, `dialPeer` |
| session writer | `fsm.go` | the writer's `closeCh`, `resetKATimerCh` | `WriteUpdate`, the keepalive manager |
| plugin | `plugin.go` | (the user's) | the four callbacks |
| codec | `packet.go`, `fsm.go` | what its loops have left | `read`, `messageFromBytes`, `newOpenMessage`, `validate`, NOTIFICATION, add-path tuples |
| UPDATE decoder | `update.go`, used as in `examples/features/main.go` | attributes seen, errors joined so far, the plugin's message | `Decode`, `decodePathAttrs`, the decoders of the attributes, `UpdateNotificationFromErr` |
| the rest | options, IANA tables, MD5 option, logger | none | - |

How they interact. An FSM offers each transition to its peer on a channel and
waits until the peer sends it back; the peer uses that to allow one connection of
the two past OpenSent (RFC 4271 6.8) and one session. To disable an FSM the
peer closes its `closeCh` and waits for its exit, during which it takes nothing
from it. Errors go to the peer on a second channel; one with a NOTIFICATION
other than Cease makes the peer disable both FSMs and wait. The server holds `mu`
while it waits for a peer, so that a peer that does not answer stops everything.

What is hard, and which property is about it, is listed per source line under
`hazards` in `PROJECT.json`: waits in both directions between peer and FSM, the
race of a disable against a transition, the view of the other FSM that lags, the
dial that succeeds as it is cancelled, the timer that is drained when it does not
run, the session that ends under a writer, the mutex held across waits, and in
the codec the arithmetic on lengths in octets and the errors of one message that
meet in one answer.

## Modules

| module | models | state and actions |
|---|---|---|
| `Types` | constants and classes shared by all | directions, FSM states, classes of error |
| `Plugin` | the contract of `plugin.go` | the last callback per direction; one action per callback |
| `FSM` | `fsm.go` as the peer sees it | `pc[i]` is where FSM `i` blocks, `from`, `to` its transition; one action per state function, `newFSM`, and what the peer does to it (`take`, `grant`, `report`) |
| `Peer` | `peer.go`, composed with two `FSM`s | `ppc` is where `peer.run` blocks; one action per case of its select and per wait in a handler |
| `Session` | `fsm.go` in full | as `FSM`, and connection, dialer, reader, timers, keepalive managers, writers |
| `Damping` | `updateStartupDelay` | age of the last error, delay, hold-down |
| `Server` | `server.go` | `mu` and its holder, map, life of each peer's run loop, where `Serve`, the accept loops and the callers are |
| `Open` | the OPEN message of `packet.go` | what the two nested decoding loops have left, and their results; one action per iteration, one for the fixed fields, one for `validate`; encoders as operators |
| `PathAttrs` | the decoders of `update.go` and the add-path tuples | operators on octets; an error is the sequence of the leaves that `errors.Join` holds |
| `Update` | `UpdateDecoder` and the plugin of the example | what is left of the path attributes, attributes seen, calls of the plugin, its message, errors; one action for `OnOpenMessage`, for `Decode`, for each attribute, for the end of them, for the NLRI and for `handleUpdate` |
| `Receive` | `fsm.read` and `messageFromBytes`, composed with `Open` and `Update` | the header and which decoder has the message |
| `PeerProof`, `DampingProof`, `ServerProof`, `OpenProof` | - | inductive invariants and theorems |
| `MCPeer`, `MCSession`, `MCDamping`, `MCServer`, `MCReceive` | - | the modules TLC runs |

They fit together as follows.

    Server --(run loop of a peer: takes connections, exits)--> Peer = peer.run + FSM[out] + FSM[in]
    Peer implements Plugin             (refinement, proved and checked)
    Session implements FSM             (refinement, checked)
    Receive = read + Open | Update | NOTIFICATION

`Server` takes two facts about a peer for granted, that an offered connection is
taken and that a stopped peer exits; they are `ConnTaken` and `StopReturns` of
`Peer`. `Peer` takes its FSMs to behave like `FSM`, which is `ImplementsFSM` of
`Session`. In the other direction `Session`'s environment (a peer that answers a
transition by a grant or by closing `closeCh`, and then only waits) is what `Peer`
does; for `collide`, where the peer sends a value on `closeCh` and closes it right
after, `Session` has the close only.

Granularity. A step runs from one blocking point of a goroutine to the next. A
send on an unbuffered channel and its receive are one step. `disableFSM` is two,
the close and the wait. In `Server` a critical section without a wait is one
step.

Abstraction. Messages, errors and connections are classes: an error damps the
peer or does not; a message is one of four kinds; bytes (but for the modules of the codec), log lines
and wording are left out. Of a NOTIFICATION within an error the subcode is kept,
not the data. An armed timer may fire whenever it is looked at. The network, the
remote and the plugin choose freely among what they can do. A hold time is zero
or not.

## What the runs check

| run | states | shows |
|---|---|---|
| `peer_safety` | 121,712 | `SessionExclusive`, `OnePastCollision`, `HoldDownQuiet`, `NeverDark`, `ViewLagsOneStep`, `Registered`; the refinement `PluginOrder` |
| `peer_liveness` | 29,074 | `StopReturns`, `ConnTaken`, `HoldDownEnds`, `FSMAnswered` |
| `session` | 57,378 | `ReaderHasConn`, `HoldRunning`, `KeepaliveArmed`, `ConnectProgress`, `NothingLeft`, `StrayOnlyOnStop`; the refinement `ImplementsFSM`; `Exits`, `WriteReturns`, `GoroutinesEnd` |
| `damping` | 234 | `LongDelayForgotten` |
| `server` | 8,920 | `NoOrphan`, `RunsWhileServing`, `DeliverAlive`; `CallsReturn`, `ServeReturns` |
| `receive` | 2,063,242 | OPEN: `NoPanic`, `NothingLost`, `OpenUnderstood`, `OneAS`; UPDATE: `UpdateUnderstood`, `RoutesKnown`, `AttributedIfAny`, `Severest`, `ResetStops`; `NotificationUnderstood`; `Shrinks` for all |

Six more runs each show a disagreement between the code and what its comments or
documents say (`findings` in `PROJECT.json`):

- `peer_dominant`: which connection a collision keeps depends on which one
  reaches OpenConfirm first, not on the dominant router alone.
- `session_zero_timer`: with a hold time of zero, which the options and OPEN
  validation allow, `openConfirm` uses a keepalive timer that does not exist. (It
  also restarts the hold timer with zero, fsm.go:731, in the later connections of
  an FSM that has a keepalive timer from an earlier one.)
- `session_cease`: an FSM disabled between connecting and OpenSent drops its
  connection without a Cease.
- `session_write`: an UPDATE may be written, with success, after the FSM left the
  session.
- `as_path`: the length of a path segment is computed in an octet, so that an
  AS_PATH with a segment of 64 ASes is refused as malformed.
- `unattributed`: routes without any path attribute are decoded without an error.

`UpdateUnderstood` therefore speaks of segments of fewer than 64 ASes, and
`AttributedIfAny` of messages that have attributes. `UpdateUnderstood` also takes
the flags to be those the decoders ask for and an AS_PATH to have a segment; see
the differences below.

`StrayOnlyOnStop` has the words "only on stop" for a reason: `connect` and `cleanup`
throw away the result of a dial they cancel to stop the FSM (fsm.go:95-97, 310-311),
so a connection that was established just before is never closed.

`session_zero_timer` negotiates zero or not; all other runs of `Session`, and
`Peer`, take a hold time that is not zero, since the code cannot run with zero.

### Bounds

- Identifiers. `peer_safety` has `LocalID = 2` and a remote that sends 1, 2 or 3,
  another one on each connection if it likes: we are dominant, it is, or the AS
  number decides. The other runs of `Peer` need one outcome only. Nothing else in
  `Peer` is bounded: its state space is finite and explored in full.
- `Session` has one remote identifier and one writer; a call that outlives its
  session and meets the next is possible with one. At most one keepalive manager
  of an earlier session is still around (`OnEstablished` waits otherwise); a
  manager exits as soon as it runs.
- `Server` has two listeners and two callers, so that any two operations overlap
  while a third goroutine waits, and one address. Two peers side by side are not
  model-checked, for safety either, since liveness is checked in the same run;
  safety is proved for any number of addresses.
- `Damping` runs at the code's values in units of ten seconds. The age of the last
  error is bounded by `MaxAge`, beyond amnesia and every delay; a larger age acts
  no differently.
- `Open` is scaled down in `receive`: an octet has eight values, an AS number one octet, and
  the field for the AS number in front one value less, so that there is an AS
  number that does not fit. All messages of up to seven octets of optional
  parameters over five octet values are tried, which is room for a parameter with
  the AS number and another capability, for two parameters, and for every way to
  be cut short; so are two that are longer than an octet can say. What is sent
  carries up to two capabilities of up to two octets, or one that is too long.

- UPDATEs in `receive` have octets of 256 values. Each attribute comes alone and
  behind the mandatory ones, some in pairs and twice, with flags that fit and with
  others; with routes in neither, one or both of the two fields; with add-path
  agreed on for either family, both or none. Refused attributes come alone and in
  front of one for each kind of error. A message of average length is cut at every
  octet, and each octet is replaced by six others. Messages of 4096 octets and one
  more are among them. Not tried: more than one route in a field, and octets at
  large.

### Fairness

- A goroutine that can step does (weak fairness). Exceptions in `Peer`: a dial may
  be retried for ever and a session may last. All other state functions are left
  when a timer fires at the latest. In `Session` nothing makes the network or
  the remote act, except that a dialer returns once it is cancelled and a read
  returns: data, or the error of a closed connection.
- Go picks at random among the ready cases of a select, so a case that is ready
  again and again is taken (strong fairness on the cases of `peer.run`, and on
  receiving from `closeCh`).
- Goroutines blocked on a channel are served in order, so a writer that waits
  for the keepalive manager meets it (strong fairness on `written`, `resetKATimer`).
- `sync.Mutex` is handed to the goroutine that waited longest, so no lock is
  starved (strong fairness on the lock steps of `Server`).
- `conn.Write` returns, and callbacks return; both are assumptions about the
  environment, listed as hazards that no property covers.
- `Receive` has no fairness. That decoding ends is `Shrinks`: each step lowers a
  rank made of the stage and the octets left, which is stronger than ending under
  weak fairness, and much cheaper for TLC.

## What is proved

TLAPS checks these for every value of the constants: all identifiers and AS
numbers, passive or not; all delays; any sets of addresses, listeners and callers.

- `PeerProof`: `TypeCorrect`, `Exclusion`, `Collision`, `Quiet`, `Alive`, `View`,
  `Registration`, and `Implements`, the refinement of `Plugin` by `Peer`. None of the properties is
  inductive: whether an FSM may enter established depends on what the peer has
  already waited for when it sends the transition back. The invariant `IInv` says
  for each control point of `peer.run` which FSMs exist, which were told to stop
  and have stopped, and what the one being handled is waiting for; for each FSM how
  its control point, its transition, its callback stage and the peer's view belong
  together. What an FSM's step can do is summed up once in a lemma
  (`FSMEffect`), so that each action of the peer and each state function is looked
  at on its own. The assumptions are `IDAssumption` and `PeerAssumption`.
- `ServerProof`: `TypeCorrect` (doneServingCh is not closed twice), `Orphans`,
  `Serving`, `Delivery`. The invariant says who is in a critical section if `mu` is
  held, that a peer of a serving server runs unless the holder of `mu` is stopping
  it, and that accept loops live only while `Serve` has not come to stop the peers.
  The assumption `ServerAssumption` keeps the names of goroutines apart.
- `OpenProof`: `SliceBounds`, for octets of any width, the code's among them, and
  messages of any length. Neither loop checks that `paramLen+2` fits into the octet
  it is computed in. The invariant shows why it does: `decode` has compared the
  length of all parameters with an octet, and the loops only shorten what they hold.
  `OctetAssumption`, that an encoded message consists of octets, is evaluated by
  TLC; its proof would need induction over the encoders' folds.
- `DampingProof`: `Bounded` and `Forgotten`, from `DelayAssumption`. The invariant
  is that after a hold-down the last error is as old as the delay.

The type and inductive invariants of `Peer`, `Server` and `Damping` are proved and
not repeated as invariants of runs. Only model-checked: all liveness, which the
prover does not reach; the other properties of `Open` and all of `Update`, which
need induction over sequences; `ImplementsFSM` and the invariants of `Session`.

## Known differences that no run shows

Met while modelling; the models do what the code does.

- A NOTIFICATION with data of one octet is sent without it (packet.go:213). The
  comments at fsm.go:675-676 and update.go:1087-1088 say that the data has that
  octet. `NotificationUnderstood` leaves this length out.
- Without a local address `PeerConfig.validate` returns before it compares the AS
  numbers with 0 (server.go:173); see its comment at server.go:191-192.
- ATOMIC_AGGREGATE is expected with the optional flag (update.go:529); in RFC 4271
  it is well-known.
- An empty AS_PATH is refused (update.go:312). A later segment of a type replaces
  an earlier one (update.go:350-358).
- Behind a next hop of 255 octets the NLRI begins at the next hop, since `nhLen+1`
  is an octet (update.go:903). The IPv6 closure refuses the next hop first.
- `wrl+2` wraps for 65534 octets of withdrawn routes and more (update.go:1131); a
  message that was read is too short for that.
- OPENs whose capabilities do not fit into the length octet are sent with wrong
  lengths (packet.go:414, 518); `OpenUnderstood` leaves them out.

## What is not modelled

- Options and their validation; `GetPeer` and `ListPeers`, which only read;
  `NewMPExtensionsCapability`; the data of NOTIFICATIONs in errors of an UPDATE
  (`notifDataForAttrBasedErr`).
- A second call of `Serve` during a first; callbacks that call the server; writes
  that never return; the branch of `dialPeer` for a local address that does not
  resolve, which a valid address never takes.
- IANA tables but for the codes in use, the TCP MD5 option, the logger, and of the
  example its flags, printing and `main`.

## Next

1. Two speakers: two `Peer`s joined by connections, to see whether both ends of a
   collision keep the same connection, and whether they come to a session.
2. `Server` with callbacks that call it, and with two calls of `Serve`.
3. Proofs: the invariants of `Session` (`ReaderHasConn`, `HoldRunning`,
   `NothingLeft`), that `Session` implements `FSM`, and `ResetStops`.
