# Keyleport in TLA+

Keyleport sends the keyboard and mouse input of one computer, the *sender*, to
another one on the local network, the *receiver*. This directory holds
specifications of its concurrent core, TLC configurations that check them on
small instances, and TLAPS proofs of their safety properties for every
instance. Paths below are relative to the repository.

## The system

Every device runs the same program with these threads:

- the **UI thread** (`main`): `SdlImGuiWindow::frame` polls input, renders the
  scene, then runs the tasks queued with `post_to_ui`;
- the **services thread** (`main_loop::run`): updates every registered service
  about once per millisecond, first discovery, then communication;
- two **workers** of `SenderFlow` (motion, scrolling), while a sender scene is shown.

| Component | State | Operations | Interacts with | What makes it correct |
|---|---|---|---|---|
| Pairing: home, sender, receiver scene, store | mounted scene, `connected_device`, `available_devices`, subscriptions | Connect button, `become_receiver` handler, mount and unmount | communication (calls, `on_package`), dispatch queue, discovery (store) | both sides end in a scene, store, pin and client name one device, only the peer's input is injected |
| Communication service | `pinned_peer_`, `udp_client_`, `udp_server_` | `pin_connection`, reliable and unreliable send, `update` | UDP client and server, scenes | sends to and hears the pinned peer only |
| UDP client | `host_`, `peer_`, `mutex_`, time of the last attempt | send, flush, connect, destroy | ENet, three calling threads | no peer or client is used after it is gone, every call returns, it reconnects |
| Main loop, service repository | `services_`, `services_running_` | init, run, cleanup, add, remove, snapshot | all services, window | no service is updated outside its life, the program ends |
| Discovery service | `discovered_peers`, `peer_last_seen_timestamps_`, last broadcast | init, update, datagram handler, cleanup | broadcast sockets, store | lists exactly the devices heard of lately, publishes them |
| Sender flow | aggregators, worker flags, service reference | start, stop, push, worker loops | communication, sender scene | no motion lost or doubled, stop returns |
| Input capture and emulation | pressed keys, mouse containment, key tables | key, button, focus and chord events; emit | sender flow; the receiver's system | the receiver holds what the user holds |
| UI dispatch queue, event emitter, store values | a queue; subscribers; a value | post and run tasks; subscribe and emit; get and set | all of the above | each is locked, the callers' compositions are not |

What is hard here: the Connect button (UI thread) and the request handler
(services thread) change the same three fields without a common lock; callbacks
run from snapshots that outlive their owners; clients, services and scenes are
destroyed while other threads use them; messages and broadcasts are lost; the
end of the program meets every thread wherever it is. `PROJECT.json` lists these
hazards line by line with the properties that cover them.

## Modules

| Module | Models | Runs | Proofs |
|---|---|---|---|
| `Session` (`MCSession`) | pairing of devices over the network, with both threads of each | `Session_pair`, `Session_rivals`, `Session_wrong_target` | `SessionProofs` |
| `Pairing` | what pairing promises, in terms of choices and peers only | implemented in `Session_rivals` | `PairingProofs` |
| `UdpClient` | the client under three threads and its replacement | `UdpClient`, `UdpClient_freed` | `UdpClientProofs` |
| `ClientUse` | what the client half promises: one thread inside, a link that only it changes | implemented in `UdpClient` | `UdpClientProofs` |
| `SenderFlow` (`MCSenderFlow`) | aggregation, workers, start and stop; motion and scrolling at the receiver | `SenderFlow` | `SenderFlowProofs` |
| `Discovery` (`MCDiscovery`) | broadcasts, the two vectors, stale peers, shared ids, restarts, the clock | `Discovery`, `Discovery_live` | `DiscoveryProofs` |
| `Membership` | what discovery promises: a set of members with ages | implemented in `Discovery` | `DiscoveryProofs` |
| `MainLoop` | life of the program, the services and the window | `MainLoop`, `MainLoop_gone` | `MainLoopProofs` |
| `Lifecycle` | what the main loop promises to a service | implemented in `MainLoop` | `MainLoopProofs` |
| `InputPath` (`MCInputPath`) | keys and buttons from window to emitter | `InputPath`, `InputPath_stuck` | `InputPathProofs` |
| `KeyMapping` | both key tables | evaluated in `InputPath` | `KeyMappingProofs` |

The modules overlap where components meet: `Session` sees `pin_connection` as
three assignments of names and `UdpClient` sees it as the replacement of an
object; `Session` sees an input event as one message that may be lost,
`InputPath` follows an ordered stream of them; `MainLoop` sees discovery as an
object with a life, `Discovery` models what it does.

In each module a *thread* is a program counter and an action is a stretch of code
that reads or writes shared state once. Locked sections are one action. Operators
named as mutants (in a comment before them) are altered copies of the definition
that follows them; no specification uses them. They show that each property can fail.

### Session

Devices are identified with their IP address. `pc[n]["ui"]` walks through a
frame: `frame` (render; `ClickConnect` or `EndRender`), then for a click `connect`,
the three statements of `pin_connection` (`pin`, `config`, `client`), `request`,
`post`, and finally `tasks` (`process_ui_tasks`). `pc[n]["svc"]` walks through the
handling of a message: `poll`, `emit` (copy the subscribers), `call`, for an
accepted request the same three statements, `post`. `pin_connection` is split
because its statements read and write fields without a lock: `config` reads back the
pin that the other thread may have overwritten. `subscriber` is whoever listens
to `on_package`, `callback` the copy that `emit` took. `ReceiverScene::willUnmount`
destroys its emitter before it unsubscribes, which makes a copied callback
"dangling": calling it may crash, inject or do nothing. The network is a set: a
message may be lost or overtaken (motion uses ENet's unreliable channel).
`clicked` and `injected` are history variables.

- `NoSceneWithoutTarget`, `TargetsAgree`, `HearsOnlyItsPeer`, `PinIsFirstCome`,
  `NoUninvitedReceiver` and `NoUseAfterFree` say what pairing guarantees; several
  hold only for a device whose user never clicked, and the finding below shows why.
- `ScenesFollow` is the liveness property: all screens catch up, again and again.
- `RequestNotDropped` says for which two reasons the code lets a delivered request
  go: its sender is not listed yet, or this device already works with somebody. A
  handler that unsubscribed too early, or that a scene change left without a
  subscriber, would break it.
- `SenderTargetsStore` is refuted (`Session_wrong_target`).

`Pairing` is the abstract specification: a user chooses once (`Choose`), a device
whose user has not chosen accepts its first invitation for good (`Accept`), one whose
user has chosen turns to the choice or to an invitation (`Turn`), and input is
injected from devices whose users have chosen (`Inject`). `Session` implements it
(`ImplementsPairing`) with the pin as the peer and `clicked` as the choice: `PinPeer`
is an `Accept` or a `Turn`, a click a `Choose`, an injection an `Inject`, everything
else a stutter.

Left out: closing the window and `cleanup`, which come after the services thread has
been joined (`MainLoop`), so that no handler meets them, and `unpin_connection`, which
nothing calls. There is no way back to the home scene in the program.

### UdpClient

A call reads `udp_client_` (`Call`), takes the mutex (`Lock`), services the host
(`PollThenSend` or `Flush`), makes sure it is connected (`Connected`, `TooSoon`,
`Attempt` then `Connect` or `GiveUp`) and sends. `Pin` replaces the client, and
the thread that dropped the last reference runs the destructor: it waits for the mutex
(`LockRelease`), lets it go at the end of the destructor's body (`Destroy`), and only then
destroys the members and frees the memory (`Free`). A caller that waits for the mutex may
get it between the last two, create the host again, connect and send, until the client is
freed under it; the history variable `late` marks such calls. Whatever a call does on a
freed client, its lock included, is undefined behaviour (`UseFreed`): the process crashes,
the statement seems to succeed or to fail and the call goes on or returns, or it hangs, for
which the step is not a fair one. That the corruption spreads to other objects is left out.
`host_` is not a variable: a client without a host has no peer and no events.
A tick is the 500 ms that an attempt may take; `Retry` ticks are the second between
attempts.

`ClientUse` is the abstract specification, without statements, retries and the network:
clients are made one after the other (`Replace`), one thread at a time is inside a
client (`Enter`, `Leave`), only that thread changes whether it is linked to its peer
(`Unlink`, `Link`) and never between its check and its sending. A client that was replaced
is torn down once, by a thread that is alone inside (`Destroy`), and goes for good at a
later moment, whoever has entered it since (`Free`); nobody enters it after that.
`UdpClient` implements it (`ImplementsClientUse`): the holder of the mutex is inside,
`connected` are the linked clients, `sending` those on which a thread has passed
`ensure_connected`, `dying` those whose destructor's body has ended. The crash that finding
2 makes possible is `Die`.

### SenderFlow

`Push` is `MoveAggregator::add`, `Take` its `take`, both under the aggregator's
lock. `taken` is what a worker holds between taking and sending. The history
variables `pushed` and `sent` sum up what was captured and what was handed to
the communication service. What is still accumulated when `stop` is called is
discarded, as in the code. `Send` also follows the package to the receiver's
emitter, where it is added to what the system was told to do (`emitted`), or to
`lost`: the channel is unreliable, and the client drops what it is given while it is
not connected. `ReceiverEmulates` compares both ends along each axis. It excepts one
case: on Windows a package scrolls vertically or horizontally (`emit`), so
horizontal scrolling is lost when the aggregator merges it with vertical
scrolling of the same 8 ms, although each event alone would have been carried out.
Deltas are unbounded integers: the `int` sums of the
code would need 2^31 pixels within one blocked send to overflow.

### Discovery

`peers` and `seen` are the code's two parallel vectors, `Keep` what `erase` leaves of
one. `seen` holds the ages
`now - timestamp` that the code computes; a clock that is set back makes an age
negative, which the unsigned subtraction of the code turns into a huge one (`Exceeds`).
A tick is the broadcast interval: the services thread polls every millisecond, so
`Tick` waits until every running service has emptied its socket and updated. A program
is started (`Start`), leaves with `Cleanup` or vanishes with `Drop`, and may be
started again on the same device. The store's list of candidates is `candidates`.

A `device_id` is drawn from a generator that is seeded with the time in seconds, so a
program draws a fresh id or the one of another program started since the last tick
(`recent`). Two devices with one id ignore each other's datagrams (`IgnoreOwn`), and a
third one keeps a single entry for both, whose address is the one heard last. A
device's own datagrams, which its handler ignores, are not put in its inbox.

`heard` and `heard_from` are history variables: for how many true ticks a device has
not heard of an id, and where it heard of it. `ListsWhatItHeard` and
`VectorsAligned` compare with them. `MutualDiscovery` is promised to devices whose id no
other running device has.

`Membership` is the abstract specification: each device keeps a set of members (id,
address, age) and offers their addresses. A datagram is a `Meet` or a `Part`, which
also drops what is overdue and publishes, `update` a `Review`, and time a `Pass`.
`ImplementsMembership` maps both vectors to the set of their pairs (`Entries`), which is
only right while they are aligned.

### MainLoop

The main thread's `main` and the services thread's `svc` are program counters.
`held` are the services a snapshot keeps alive; `Forsake` destroys discovery when
the repository, the home scene and the snapshot have all let go of it. `Click` and
the request handled in `Update` post scene changes at any time, `Quit` closes the
window in any frame.

`Lifecycle` is the abstract specification: every service is made, initialised, then
visited while it lives, and ends once, by cleanup or by destruction; no visit and no end
before all of them live, no end of the one that is being visited, no visit once cleanup
has begun. `MainLoop` implements it (`ImplementsLifecycle`) with the service that the
snapshot names next as the visited one (`updating`).

### InputPath and KeyMapping

`KeyMapping` holds both complete tables, as runs of consecutive USB usages: Windows
scancodes with their extended flag and macOS virtual keys. `KeysStayApart` says that
no two keys of a table share a native code. The runs evaluate it on the tables, and
`KeyMappingProofs` proves it by writing down the reverse table of each.

`InputPath` follows an event from SDL over `UIInputManager` (`pressed`) and the release
chord to the ordered channel and the receiver's `emit`. An event is dropped while the
client is not connected, and a broken connection loses a suffix of what is in flight.
The receiver is in its home scene at first, whose handler ignores an event (`Ignore`);
once the receiver scene has mounted (`Mount`, which may come at any time or never) an event
is injected (`Arrive`).
`native` are the codes the receiver's system takes to be held: virtual keys,
scancodes and buttons. macOS knows three buttons and takes every other one for the middle
one (`mac_button`), Windows knows five. `followed` is a history
variable: the inputs whose last event was neither lost nor ignored. `ReceiverFollows` is
the main property. For a native code whose inputs are all followed, the receiver will hold it
if the user holds all of them and not if the user holds none. `WillHold` says what it
will hold when it has caught up: the last event in flight that concerns the code
decides. For a key this is equality; only for buttons that share a
code (`Sharing`) it leaves open what is held when some of them are.
SDL releases all keys itself before it reports a lost focus; this is taken from
SDL. An event SDL reports and `fromSDL` does not know is sent as an event of
scancode 0, which neither table knows (`Zero`).

## Runs

| Run | Bounds | Distinct states | Shows |
|---|---|---|---|
| `Session_pair` | 2 devices, one task per frame, fair | 160 000 | both users may click at any time; scenes follow, emitters are safe |
| `Session_rivals` | 3 devices, two users click the third, whose user may then click one of them | 580 000 | first come, first served, in every order; `Pairing` is implemented |
| `Session_wrong_target` | 3 devices, a clicks b while b clicks c | violation | see finding 1 |
| `SenderFlow` | 4 events of 3 deltas, both platforms, loss, fair | 384 000 | motion conserved up to the receiver's system, stop returns |
| `Discovery` | 3 devices (symmetric), 3 starts, loss, one clock step | 85 000 | lists exact, aligned and published; `Membership` is implemented |
| `Discovery_live` | 2 devices, 3 starts, no loss and no clock steps, fair | 16 000 | mutual discovery, departed devices forgotten |
| `UdpClient` | 3 threads, 2 clients, fair | 54 000 | mutex discipline, calls return, reconnects; `ClientUse` is implemented |
| `UdpClient_freed` | as above, without liveness | violation | see finding 2 |
| `MainLoop` | 3 scene changes, fair | 600 | services updated only while alive, the program ends; `Lifecycle` is implemented |
| `MainLoop_gone` | as above, without liveness | violation | see finding 3 |
| `InputPath` | the chord's keys, right Ctrl, the middle and the first extra button; two events in flight | 302 000 | the receiver follows the user, the chord releases, the tables keep keys apart |
| `InputPath_stuck` | as above, the connection never breaks | violation | see finding 4 |

Why these bounds are enough. A conflict between pairings needs three devices at
most: one that is asked, and two others that ask or are asked. `kMaxPerFrame` is 1
where the code has 8, so that the cap is reached with two tasks. `Session`'s clicks
are restricted by a constraint in the runs with three devices; the interleavings of
those clicks are complete, but for the third click of `Session_rivals`, which comes
when one of the askers already shows its sender scene. Two clients suffice for one to be
replaced by the other. Three starts let one of two devices be restarted and be listed
twice, or two of three devices draw the same id and be heard by the third; the
constraint `ThreeInBrief` keeps three devices that have all been started running, with
one datagram waiting at a time and nobody silent for more than a tick (what happens
between two devices that come and go is complete). The
stale timeout of three intervals is the code's own ratio. Four motion events allow a
worker to take twice while more arrives, and to merge events along both axes. In
`InputPath` the constraint `FewAtOnce` keeps at most three inputs held (three only when
they are the chord), one event in flight while more than one is held, and two inputs
whose last event was lost; right Ctrl
shares the left one's Windows scancode but for the extended flag, the two buttons are
one button on macOS. `MainLoop` has no more than three scene changes in one life since the
program has three scenes.

Deadlock is not checked: every device may come to rest (a program that has ended, a
user who does nothing, bounds that are used up), so a state without a successor is
no error. Getting stuck is caught by the liveness properties.

Fairness is weak for whatever a running thread does by itself: the UI thread within
a frame, the services thread within a pass, workers, joins and the passing of time.
Users, the network and crashes are never obliged to act. Strong fairness is assumed in
`UdpClient` only, for each thread's steps inside a call: a thread that waits for the
mutex gets it in the end, since every other thread sleeps or waits for the display
between two calls. A step on a freed client is not fair, so `CallsReturn` says nothing of
a call whose client was freed under it. `MutualDiscovery` is stated on a network that
delivers.

## What is proved

TLAPS checks these for every value of the constants (any set of devices, any
timeouts, any deltas, any keys and buttons, any number of events):

- `SessionProofs`: `TypeOK`, `NoSceneWithoutTarget`, `TargetsAgree`,
  `HearsOnlyItsPeer`, `NoUninvitedReceiver`, `NoUseAfterFree`, `PinIsFirstCome`,
  `RequestNotDropped`;
- `PairingProofs`: `ImplementsPairing`;
- `SenderFlowProofs`: `TypeOK`, `MotionConserved`, `ReceiverEmulates`,
  `ServiceOutlivesWorkers`, `QuietAfterStop`;
- `UdpClientProofs`: `TypeOK`, `PeerValidAtSend`, `LockedClientLives`,
  `ImplementsClientUse`;
- `DiscoveryProofs`: `TypeOK`, `VectorsAligned`, `ListsWhatItHeard`,
  `CandidatesCurrent`, `ImplementsMembership`;
- `MainLoopProofs`: `TypeOK`, `UpdatesLiveServices`, `NothingLeftLive`,
  `ImplementsLifecycle`;
- `InputPathProofs`: `TypeOK`, `ReceiverFollows`, `ChordReleases`, `KeysStayApart`;
- `KeyMappingProofs`: each table keeps its keys apart and has no entry for usage 0.

So every safety property, action property and refinement that a passing run checks is
also proved. Three groups of theorems have no run of their own.

How far each finding reaches:

- `OneClickIsRight` (finding 1): the sender scene works, down to the client, with the
  device of the button, unless another user clicked too.
- `OnlyStaleCallsDangle` (finding 2): a call is on a freed client only after
  `pin_connection` has replaced that client, and only while it waits for the mutex or if
  it has got it after the destructor's body; with a single pin it never is.
- `DiscoveryIsNeverCleaned` (finding 3): no run of the program cleans up discovery.
- `StaysForAReason` (finding 4): when the user has let go and everything has arrived,
  whatever the receiver still holds is the trace of an event that was dropped or lost.

What is followed exactly: `FollowsExactly` sharpens `ReceiverFollows` to an equivalence for
every key and for every button that keeps its identity.

The safety core of three liveness properties, a count of steps that the proof shows to
go down:

- `StopGetsNearer` and `WorkersAreThere` (`StopReturns`): while `stop` waits, every step of
  the program brings its end nearer, and the thread it waits for exists and can step.
- `QuitGetsNearer` and `JoinSucceeds` (`QuitEnds`): after the quit every step brings the
  exit nearer, save for rounds of the services thread before it is told to stop; the
  thread that is joined exists and leaves its loop at its next test.
- `CallsGetNearer` and `NoDeadlock` (`CallsReturn`): a call never goes back, and who holds
  a mutex that another thread waits for waits for none itself and is on a client that is
  still there.

Such a count is finite, so what remains for the liveness property is that a thread that
can step does step: the fairness assumption, which the runs add.

Each rests on an inductive invariant of its module, with the lemmas that `Init`
establishes it and that every step keeps it; the theorems follow from it.

- In `Session` none of the properties is inductive, since what a scene relies on was
  assigned several statements before, perhaps by the other thread. `IInv` records for
  every program counter what is already assigned (`Assigned`, `Prepared`), what only a
  click can cause (`NeedsClick`), how far the three copies of the peer agree at each
  statement of the handler (`Settled`), that a user clicks at most once (`ClickedOnce`),
  and that every request in flight goes back to a click (`Genuine`, `Invited`,
  `CarriesChoice`). A step of one device leaves the rows of all others alone, so the proof treats the
  acting device and the others separately.
- That `Session` implements `Pairing` needs, beyond `IInv`, that every message in
  flight or in a handler was sent by a device whose user has chosen, and that the
  statements of a click still have the device that was chosen (`Accounted`).
- `OneClickIsRight` adds how far a click has come in making store, pin and client name
  one device (`OnTarget`); that no request is being accepted meanwhile is
  `CarriesChoice`, a part of `IInv`.
- In `UdpClient` the invariant ties every statement under the mutex to its holder
  (`Holding`), every held mutex to a thread that runs inside (`HeldInside`, without which
  an abandoned mutex could not be excluded), every freed client to the fact that
  `udp_client_` has left it (`Retired`), and the end of a destructor's body to the fact that
  whoever was inside before has left (`KeptAlive`). The refinement rests on
  `OnlyHolderSends`: of all threads only the holder can stand before its sending, so its exit takes the client out of
  `sending`, and on the client being released by one thread only.
- In `SenderFlow` it ties the life of the workers to where the UI thread stands in `stop`
  (`Lifetime`); conservation needs that adding deltas is associative, the receiver's side
  that without vertical scrolling nothing vertical is on its way (`NotVertical`).
- In `Discovery` the two vectors are followed through `Keep`: what is kept of two
  aligned vectors at the same indices is aligned and consists of the entries at those
  indices. `Recorded` then says of each device that its entries are the ids heard of
  within the timeout, with the address and age of the histories, up to what a clock
  step or a wait for `update` leaves open. The refinement maps every action to one of
  `Membership` in terms of these entries.
- In `MainLoop` the invariant says how far the start has come (`Booting`), what is
  registered at each point of the main thread (`Registration`), what a snapshot may still
  hold (`Walking`) and in which state each service is then (`Lives`). The refinement needs
  in addition that the service that is updated is one that the snapshot holds, so that a
  scene change cannot destroy it.
- The key tables are functions of about a hundred entries, too many for the provers to
  compare pair by pair. `KeyMappingProofs` gives each table a reverse table (`Inverts`):
  a function with a left inverse is injective (`InverseApart`), and that the reverse table
  is one is checked block by block.
- In `InputPath` the property itself is inductive, given the types: an event that is
  sent decides about the codes it concerns (`SentHolds`), an arrival does not change what
  the receiver will hold (`ArrivedHolds`), and ignoring the first event (`IgnoredHolds`) or
  losing the end of the channel (`CutHolds`) changes it only for inputs that are not
  followed any more. It rests on the fact that
  neither table has an entry for usage 0.

The assumptions are those on the constants: `None` is no device, at least one UI task
per frame, positive intervals and a stale timeout beyond the broadcast interval,
integer deltas, positive scancodes and buttons, natural bounds.

Only model-checked: liveness itself (`ScenesFollow`, `StopReturns`, `MotionFlushed`,
`CallsReturn`, `Reconnects`, `DepartedAreForgotten`, `MutualDiscovery`,
`RemovedIsDestroyed`, `QuitEnds`), since fairness speaks of `ENABLED`, which is out of the
prover's reach.

## Findings

1. **A sender may send to another device than it shows** (`Session_wrong_target`).
   While `become_receiver` of a is handled on b's services thread, b's user clicks c.
   The statements of both `pin_connection` calls interleave with the two
   assignments of `connected_device`; b ends in the sender scene with a client of
   one device and a store, and a screen, that name the other. `sender.h` line 19 says
   the flow connects to the device of the store. It takes a second user: one click alone
   is right (`OneClickIsRight`).
2. **A client may be destroyed under a call** (`UdpClient_freed`).
   `communication_service` calls `udp_client_->...` without keeping a reference, and
   `pin_connection` may destroy the client before the call has taken its mutex, which
   `udp_client.h` line 31 relies on. The call may also get the mutex in the gap between the
   destructor's body and the end of the client, and lose it while it connects or sends.
   Only a call that has the mutex before the destructor takes it is safe
   (`LockedClientLives`), and before the second pin nothing can happen
   (`OnlyStaleCallsDangle`).
3. **Nobody announces a departure** (`MainLoop_gone`). Discovery is taken out of the
   repository when the home scene unmounts, at the latest when the window is closed, so
   `main_loop::cleanup` never reaches `discovery_service::cleanup`, in any run
   (`DiscoveryIsNeverCleaned`).
4. **The release chord leaves its keys pressed on the receiver** (`InputPath_stuck`).
   The presses of two of its three keys were forwarded, their releases are not. Nothing
   stays pressed without such a dropped or lost event (`StaysForAReason`).

## Observations that no run checks

- `SenderFlow::start` returns true without a target or a connection, and `stop` does
  not disconnect, against the comments in `sender.h` lines 19 to 23.
- `utils::date::now` reads the system clock, although `.github/copilot-instructions.md`
  line 69 asks for monotonic clocks; a clock that is set back evicts every peer until its
  next broadcast.
- `get_random_id` is seeded with the time in seconds: two devices started within the
  same second get the same id, ignore each other, and take turns in the lists of the
  others (`Discovery` models this).
- The Windows emitter scrolls vertically or horizontally, never both, so the horizontal
  part of an aggregated diagonal scroll is lost (`SenderFlow` models this). On macOS the
  release of an extra mouse button releases the middle one (`InputPath` models this).
- `fromSDL` truncates fractional motion event by event: slow motion may be lost.
- A comment in `src/keyboard/macos/emitter.cpp` (line 28) says to subtract `dy`; line 30
  adds it.
- `README.md` line 14 says that key presses use TCP; they use ENet's reliable channel.
- A lost `become_receiver` is never repeated: the sender stays alone in its scene.

## Not modelled

Rendering, window creation and ImGui; opening sockets; device names and platform
queries, which are only displayed; the command line; event batches, which nothing uses;
plain records (messages, peers, configurations); the `busy` state, which no device ever
announces; JSON encoding, whose decoders accept what their encoders produce; the
subscription to single store values, which the program does not use; the truncation
of fractional motion before it is captured, about which the program promises nothing.

## Plan

Done, in this order: `Session`, `SenderFlow`, `UdpClient` with their proofs,
`Discovery`, `MainLoop`, `InputPath`; `MainLoopProofs`; `Pairing` and its refinement;
shared device ids, `Membership` and its refinement, `DiscoveryProofs`; shared buttons and
native codes in `InputPath`, `InputPathProofs`; the receiver's side of `SenderFlow`;
`KeyMappingProofs`; `Lifecycle` and `ClientUse` with their refinements; the safety cores of
liveness and the reach of the findings.

Next:

1. The order of button presses against motion that still waits in an aggregator, once
   the program promises one.
2. A composition of `InputPath` with the locking of `UdpClient`: the wait of the UI
   thread for a client that a worker keeps busy.
3. Safety cores for the liveness of `Session` and `Discovery`: that no queued scene change
   is lost, and that a stale entry only ages.
