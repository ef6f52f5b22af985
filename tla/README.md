# A TLA+ model of PetHub Local

PetHub Local replaces the vendor's cloud for a pet door system. A hub talks radio to
pet doors, cat flaps, feeders and Felaquas, and MQTT and HTTP to what it takes for the cloud. Here
that is a stack of containers on one machine: an MQTT broker, a web server that hands the hub
its credentials and firmware, and the `pethub` service, which decodes what the devices
report, keeps it in an SQLite database, and translates between the devices and Home
Assistant.

Contents: [Inventory](#inventory) · [Plan](#plan) · [The doors](#the-doors) ·
[The counter](#the-counter) · [The web server](#the-web-server) ·
[The feeders](#the-feeders) · [The household](#the-household) ·
[The database builder](#the-database-builder) · [Codecs](#codecs) · [Runs](#runs) ·
[Proofs](#proofs) · [What is not modelled](#what-is-not-modelled)

Paths below are relative to `src/`. `docker/source/` is abbreviated to its file names
(`pethubmqtt.py`, `pethubpacket.py`, `cli.py`, `mkpetlocaldb.py`).

## Inventory

| Component | State it keeps | Operations | Interacts with |
|---|---|---|---|
| **Door locks**: `pethubmqtt.py` 135-214, 277-343; `pethubpacket.py` 565-678, 886-918 | `doors.lockingmode`; retained switch and status topics | a switch command becomes a lock command; a report is decoded, committed, published; start-up loop | Home Assistant, the device (both through the broker), the database |
| **Message counter**: `pethubpacket.py` 1253-1280 | `devicecounter.send` | take the next number | `generatemessage`; `cli.py` from a second process |
| **Feeder / Felaqua**: `pethubmqtt.py` 217-273; `pethubpacket.py` 246-503, 539-562, 937-1250 | bowl weights, lid delay, bowl type, training mode, water weight; acknowledgements owed | decode single and multi-frame messages, store, publish the first frame of each kind, acknowledge | device, database, counter |
| **Pet presence**: `pethubpacket.py` 565-678, `pethubmqtt.py` 160-190, 296-312, 640-684 | `petstate`, tags per device | a passage or a meal changes the state of a pet; a tag is provisioned | database, Home Assistant |
| **Curfew and hub status**: `pethubmqtt.py` 116-131, 349-365; `pethubpacket.py` 506-537, 694-821 | `doors.curfewon/off`, `hubs.state`, `hubs.led` | set the times, last will and online messages, dispatch by topic | device, database, Home Assistant |
| **Codecs**: `pethubpacket.py` 96-259 | none | bytes to integers, times, chip numbers and back; messages to frames | every decoder and generator |
| **Web server**: `docker/web/app.py` | firmware page files, credentials files | serve credentials, download firmware, serve pages | hub, cloud |
| **Database builder**: `mkpetlocaldb.py` | the whole database | drop, create, fill from the cloud's start document | every component |
| **Command line client**: `cli.py` | none (uses the database) | generate and publish one message | counter, broker |
| **Broker and bridge** (configuration only) | queues, retained topics | deliver, redeliver at QoS 1 | everybody |
| **Radio bridge**: `WemosPetHub/src` (C++) | receive buffer, flags | interrupt handler, main loop | hub radio, MQTT |
| **Tools**: firmware download, log conversion, capture parsers | none | offline conversions | - |

How they interact:

* `pethubmqtt.py` is one thread: paho's `loop_forever` runs one callback at a time. Messages published
  inside a callback are queued and leave when it returns. An exception inside a callback ends the
  process, and no restart policy is configured. The MQTT session is a clean one: whatever is sent
  to a stopped service is lost, except retained topics. After a start the service reads the
  database, publishes everything (403-684) and only then subscribes (688).
* Every SQL statement commits by itself, while the message is being decoded, so before anything is
  published.
* `cli.py` is a separate process with its own connection, and shares the database with the service.
* Flask runs a thread per request; the threads share files and hold no lock.

What is hard here, and what correctness means:

| Component | Hard behaviour | Correct when |
|---|---|---|
| Doors | a switch is relative ("keep in: on"), the command absolute, so it is computed from a remembered lock mode; commit, publication and lock are three steps; crash in between; repeated and lost messages | what is shown, stored and locked agree; a report reaches only its own door; the user gets what was asked |
| Counter | SELECT and UPDATE apart, two processes, rejections, death in between, wrap at 65535 | no number on two messages; never over two bytes |
| Web server | check and creation of a file apart, two threads in it, cloud failure half-way, restart | no hole in the pages, no truncated answer without a cause, credentials in the end |
| Feeder | a multi-frame message is stored frame by frame, published in part, acknowledged as a whole | a frame is acknowledged only when stored, and in the end; topics agree with the database |
| Pets | stored state and published state computed apart; a row per pet and device | a pet is shown on the side it is on |
| Curfew, hub | stored for all doors, sent to one; last will against online message; handlers that raise | what is shown is what is stored and what the devices have; newest status wins; a loaded device cannot end the service |
| Codecs | hexadecimal text without leading zeros, bits padded with blanks, lengths that come with the frames | what is written is what is read |
| Radio | one buffer and one flag between interrupt and loop | a frame handled is a frame received |
| Builder | drop first, fill row by row, beside a running service | a build without a failure leaves the cloud's document, and a service that starts |

`PROJECT.json` lists each hazard at its line, with the properties that cover it, or the reason why none does.

## Plan

In this order, the most important behaviour first:

1. `DoorControl`, `DoorUser`, `DoorControlProofs`: **done**.
2. `DeviceCounter` with the abstract `Tickets`, `DeviceCounterProofs`: **done**.
3. `WebCache`, `WebCacheProofs`: **done**.
4. `Feeder`, `FeederProofs`: **done** for Feed frames of feeders with two bowls.
5. `LocalDatabase` and `Household`, `HouseholdProofs`, `BuilderProofs`, `HouseholdTells`: **done**. They are one composition, since passages, curfews and the state of the
   hub share a socket, a handler that can raise, and tables that another program may drop.
6. `Codecs`, `CodecsProofs`: **done** for time stamps, FDX-B chips and frames.
7. The radio bridge is dropped from the plan: the README of the repository (138) calls it "not exactly functional" and abandoned.

Every safety property the runs check is a theorem. What could still be added: the doors without `FlapIsLast`, where what is true of pet doors
needs a proof of its own; that a builder's document always satisfies `SlotsAgree` if the doors were provisioned from the same
cloud; the Felaqua's frames. All modules use folds or recursive functions instead of `RECURSIVE` operators so that they can be proved about.

## The doors

`DoorControl` composes the broker, Home Assistant, `cli.py` and the devices, as environment, with the service.

| Variable | In the code |
|---|---|
| `up` | the process runs and has subscribed |
| `db[d]` | `doors.lockingmode` |
| `ha[t]` | the retained switch and status topics under device id `t` |
| `pending` | the message whose callback runs: its first lock frame, stored already, and those left to be decoded |
| `sets` | Home Assistant's commands on their way to the service |
| `cmd[d]` | commands on their way to device `d`, in order |
| `reports[d]` | messages on their way from device `d`, in order: each a lock register (pet door) or up to `MaxFrames` lock frames (cat flap) |
| `lock[d]` | the lock register of the device |
| `missed` | history: doors whose newest report was sent to a stopped service, or before it subscribed, or died with it undecoded |
| `setBack` | history: cat flaps whose row a handler has set back to an older frame of the message |

| Action | In the code |
|---|---|
| `HandleSet` with `LockCommand` | `on_ha_lock_message` (200), `on_petdoor_ha_curfew_message` (209), `generatemessage` (886-918) |
| `DecodeReport`, `StoreFrame` | `decodehubmqtt`: the first lock frame is committed (`parsedoorframe`, `parseframe`), then the others of a cat flap's message, one by one (`parsemultiframe`) |
| `Publish` (`PublishPetDoor`, `PublishCatFlap`) | the rest of `on_petdoor_hub_message` / `on_catflap_hub_message`: the message's first lock is published and stored again (186, 325), and the queued messages leave |
| `Crash`, `Start` | the end of the process at any point; the start-up loop, which asks pet doors for their registers and subscribes afterwards, so that some may answer too `early` |
| `CliCommand` | `cli.py` |
| `HASet`, `DeviceStep(d, m)` (the device executes commands and reports in one message `m`), `CommandLost`, `CommandsAgain`, `ReportsAgain` | Home Assistant, the devices, and a broker bridge at QoS 1, as the code uses them |

What the code does and one might not expect, all of it in the model:

* The cat flap's handler publishes its switches to the *global* `devid`, which after start-up is the last
  device the loop loaded (`DevId`), and its status to its own.
* A cat flap has no callback for the Curfew switch; a command is logged and dropped.
* A cat flap's message may hold several lock frames, like a feeder's: the decoder takes every multi-frame message apart in the same loop
  (`pethubpacket.py` 245-259). All are stored; then the handler takes the first (308), publishes it and stores it again
  (325), so that database and Home Assistant stay on the older lock. `NewestReportIsTrue` and `QuietShowsLock` set such flaps apart
  with `setBack`, and only these; `QuietShowsNewest` does not, and the run `flap_batch` shows that it does not hold. No document says how often a cat
  flap does this; of the feeder `docs/Feeder.md` 3 does.
* `LockCommand` unlocks in every case the table does not list: a switch sent twice, or KeepIn while the
  curfew is on.

Left out: frames without a lock mode (time, battery, movement, acknowledgements) and the
commands the broker reflects, which the handlers skip; they touch nothing in this state. A switch command is QoS 0 and is
lost when the service is down. A report goes to one callback at a time, so `pending` holds at
most one; `PendingOK`, proved, says so.

`DoorUser` adds the person behind the switches and what was asked for (`wanted`), and states the
promise: when a door is at rest, switches and lock are as wanted (`SettledAsWanted`), and each
request shows in the end (`RequestTakesEffect`). This holds only for a user with none of the three
`Habits`: `"repeat"` (sending the value a switch has), `"hurry"` (a second switch before the door answered) and
`"curfew"` (KeepIn or KeepOut during curfew). With any one the promise breaks; the run
`door_repeat` shows the first, which is a wrong row in a table and not only a race.
In `DoorUser` nobody else commands the doors, commands are repeated but not lost, and the service
is restarted only at rest: with a lost command no service could keep the promise.

Fairness (`DoorUser!Fairness`). `StoreFrame \/ Publish` and `Executes`: weak, since a callback that has begun goes on and returns and a
device in reach executes its commands. `HandleSet` and `DecodeReport`: strong, since `loop_forever`
takes messages from one socket in the order they arrive, so that none is passed over for
ever although each callback disables the others while it runs. `Start` is not fair: nothing restarts a dead
service. The user and the redeliveries are not fair either.

## The counter

`DeviceCounter`: `Generate` enters `generatemessage`, `Select` and `Update` are the two statements of
`devicecounter` (1253-1280), `Reply` returns the message, `Die` ends a process between two of them. `TakesNumber` and
`CarriesNumber` say which calls touch the counter and which messages bear its value: a feeder's
acknowledgement returns before, a cat flap's takes a number and carries another, a Felaqua's raises after taking one.
`count` on a message is history, so that `NoReuse` can tell a reuse from a full cycle of the field.

`Tickets` is the abstract specification: numbers handed out one after the other in a single step, each used once or
discarded. `ImplementsTickets` maps the table to `last`, the numbers of processes that have updated but not
replied to `held`, and the published messages to `wire`.

## The web server

`WebCache`: a file is `absent`, `empty` (opened for writing) or `whole` (closed). `AskFirst` and `AskCached` are the two
branches on the first page (`app.py` 70-84), `PostPage`, `WritePage`, `ReadHeader` the download
(`dlfirmware` 41-57 and its loop), `Check` to `WriteCreds` the credentials (86-110), `Serve` the answer; `Firmware` is the
page request, `Fail` any failure of the cloud or an answer that cannot be taken apart, `Restart` the end of the server. Each
place where the code gives up the processor (a request to the cloud, a file opened, a file closed) separates two
actions. `send_file` is read as one step. The Flask version is not pinned in `docker/web/packages.txt`; the two routes name the
arguments of `send_file` differently (`max_age` at 107, `cache_timeout` at 133), and only a Flask 2.0 takes both names, so that
is the one modelled: under a newer one each answer raises. `overlap` and `died` are history.

What the code does and one might not expect: `credentials()` looks at page 00 only (70) and calls that "Firmware already downloaded" (84), so a
download that broke off, be it with the server or with a request to the cloud, is never taken up again. That is `AskCached`; `NoHoles` says which
pages may then be missing.

Fairness (`FairSpec`): the hub asks again (weak), a thread goes on (weak), and the cloud, asked often enough,
answers in good order (strong on the steps that can fail instead). Restarts are not fair and the liveness property supposes that
there are finitely many.

## The feeders

`Feeder` models the Feed frames of feeders with two bowls, from the lid to Home Assistant. A feeder keeps what happened until the
service acknowledges it, and packs what it keeps into messages of up to `MaxFrames` frames. An event is a number, its place in
`log[f]`; each leaves weights of its own, so the number stands for the weights too.

| Variable | In the code |
|---|---|
| `log`, `outbox` | the feeder: what happened, and what it has no acknowledgement for |
| `wire`, `acks` | messages to the service (each a set of events, in their order), acknowledgements to the feeder |
| `pending` | the message whose callback runs: `left` to be decoded, `done` decoded and stored |
| `bowl` | `feeders.bowl1` and `bowl2`, two commits |
| `ate` | `petstate.state` of a pet at a feeder |
| `shown`, `shownPet` | the topics of a feeder (bowls and lid) and of an animal |
| `odd`, `repeated`, `doubtful` | history: see the properties |

| Action | In the code |
|---|---|
| `Receive`, `StoreFrame`, `Return` | `on_feeder_hub_message` (217-273): entered; `parsemultiframe` and `parseframe` (0x18) frame by frame, which commit; then `AckAll` and `PublishFirst` |
| `Crash` | the process ends between two messages, frames, or commits of one frame |
| `Start` | the start-up loops over feeders (557-616) and pets (648-684) |
| `Event`, `Send`, `SendAgain`, `AckArrives`, `AckLost` | the feeder, the radio and the broker bridge, as the code uses them |

What the code does and one might not expect, all of it in the model:

* All frames of a message are stored and acknowledged, but only the first is published. `odd` remembers this.
* An intruder that closes the lid has the weights published and not stored. That is `odd`, too: the next start shows the older ones.
* A pet has a row per feeder and one topic; which row is shown after a start is up to the query.

`AcknowledgedIsStored` is the point of the acknowledgement: what the feeder may forget is in the database, or something newer is,
wherever the service dies. It is stated for feeders at rest, since a repeated message is decoded again from its oldest frame, and for
feeders that are not `doubtful`: after a lost acknowledgement the feeder sends the event again, behind a newer one, and
its weights overwrite the newer ones for good. It also takes the two frames a message has at most (`docs/Feeder.md` 3): with `MaxFrames` 3 TLC
finds a message with two closings that the feeder sent a second time; the service dies after it has stored the first again, and the
second, acknowledged since, is lost to the database. `ShownIsStored` compares Home Assistant with the database between callbacks;
`ShownAtRest` drops the exception for messages of several frames, and the run `feeder_batch` shows that it does not hold.

`AcknowledgedInTheEnd` supposes that from some time on no acknowledgement is lost and no message repeated; else they may be for ever.
Fairness: a callback goes on (`StoreFrame`, `Return`, weak), the feeder sends again and takes acknowledgements (weak), and
`loop_forever` takes a waiting message in the end (`Receive`, strong, since callbacks for other feeders disable it). `Start` is not fair.

Left out: that a pet may have no row in `petstate` for a feeder (`mkpetlocaldb.py` 106-122 makes none, the test tables have them; an `UPDATE` then
hits no row), frames other than Feed (they are acknowledged alike and touch none of this), zeroing of the scales (an action
that neither stores nor publishes weights), feeders with one bowl (configured with the key `weight`, 588, and updated with `left` and `right`,
256: no property is needed to see that its sensor goes empty), and the Felaqua. For a Felaqua the start-up loop asks for operations in lower
case (625), which `generatemessage` does not know, so with one in the database the service ends before it subscribes; that is in
[the household](#the-household).

## The household

`Household` is what the service does besides locks, counters and bowls: the state of the hub, where the pets are, and the
curfews. It extends `LocalDatabase`, so that `mkpetlocaldb.py` may build the tables anew at any point of any behaviour.

| Variable | In the code |
|---|---|
| `up`, `served` | the process runs and has subscribed; the devices with a `message_callback_add` |
| `inbox` | messages on their way to the service: of the hub, of doors and flaps, of Home Assistant |
| `pending` | a message decoded, whose handler has not returned: what it will publish |
| `shown` | the retained topics: hub status, curfews of the doors, pets |
| `cmd[d]` | curfew commands on their way to a pet door |
| `hubOn`, `side`, `via`, `own[d]` | the world: the hub's connection, where each pet is and which door it used, a pet door's curfew register |
| `missed`, `fresh` | history: whose last report the tables may not hold; no build has written since the start |
| `scenario` | bound: the topics this behaviour is about |

| Action | In the code |
|---|---|
| `Decode` (`Stored`, `Publication`) | `decodehubmqtt` (694-821) with `parsedoorframe`, which commit, and the handler up to its return: `on_hub_message` (117), `on_petdoor_hub_message` (135), `on_catflap_hub_message` (277), the curfew times (349) |
| `Return` (`Published`, `StoredAgain`) | the queued messages leave; the pet door's handler stores the curfew state once more |
| `Die` (`Raises`) | a handler raises and the process ends, with the times of a curfew stored already |
| `Crash`, `Start`, `StartFails` (`Loads`) | the end of the process between two steps; the start-up loop (403-689), which may end at any device |
| `Build`, `BuildStops` | `mkpetlocaldb.py`, see below |
| `CliCurfew` | `cli.py <mac> SetCurfewState` |
| `HubSwitches`, `HubUptime`, `Passage`, `Movement`, `CurfewLock`, `SetTimes`, `DoorObeys`, `CommandLost`, `SendAgain` | hub, pets, devices, Home Assistant and the broker's bridge, as the code uses them |

What the code does and one might not expect, all of it in the model:

* A frame with nothing but a cat flap's curfew lock ends the service (`pethubmqtt.py` 340), as do curfew times set for a cat flap, or times of more than one
  span; those are in the database by then (352). `LoadedIsSafe` says that passages, movements and
  curfew reports of a loaded device never do. It says nothing of frames that are not in the model, some of which can: the `else` of
  `parse132frame` (`pethubpacket.py` 558) calls `tohex` on text, which raises.
* Curfew times are stored for every door and sent to one.
* The cat flap's passages are published and not stored, those of a pet door both.
* The builder stores a curfew that is on as 1, and the service sends 1 as `Off`. The run `curfew_times` shows it.
* A pet door's passages are stored only if `petstate` has a row for that pet and that door. The builder never makes one (94): it is there
  only in tables like those of `pethubtest.sql`, which `Init` therefore allows (`Supplied`).

`HubTells`, `PetTells` and `CurfewTells` compare Home Assistant with the world, when all messages have been handled and
none was sent to a stopped service. `HouseShownIsStored` compares it with the tables, so with what the next start would show, over
crashes at any point; `pending` makes it hard, since the tables change before the topics. `fresh` is needed in it and in `LoadedIsSafe`:
under a running service a build takes the rows away, and then a passage does end the service.

Left out: the topic of unknown pets, time stamps, the LED mode (stored, and not published until the next start), the dump of
registers (stored, never read), the register 621 (an unknown pet has left: published, not stored), the direction `Outside_UnknownPet` and those outside
the table of `pethubconst.py` (130-135), which the decoder calls `Other` (638), and `CurfewState` 3 (`Status`), which is stored and shown as it comes. `Send` loses a message
to a stopped service as in the doors. No fairness is stated: all properties are safety.

## The database builder

`LocalDatabase` has the tables, as functions of their keys where order does not matter, and the builder: `DropAndCreate` is
`pethublocal.sql` in one transaction, *before* the document is looked at (58 and 67); `Script` is the sequence of `INSERT`s the document leads
to; `InsertRow` commits one of them, or reports it and goes on (33-39); `BuildEnds` is every other end, an
exception (`Raise`) included. `Clouds` are the documents; `Image` says, without statements, what the tables should hold.

`BuiltIsCloud`: a build that ended without a failure leaves `Image`, whatever was in the tables before. `BuiltStarts`: with a
pet, a device and no Felaqua the service then starts, although rows are written to meanwhile. What a failed build leaves is not
detected by anybody; `LoadedIsSafe` says that a service that does start on it is safe.

What the code does and one might not expect: a pet whose last device is among those of the document ends the build (94, a generator
is subscripted) after the tables are gone; drinking takes its weights from feeding; the text of a cat flap's curfews may end with a comma.

## Codecs

`Codecs` are pure functions on numbers and bits. A time stamp is its six numbers, a chip its country and the parts of its
number that fall into one byte, or, for the pet door, its 48 bits.

| Operator | In the code | What comes back |
|---|---|---|
| `devicetimestampfromstring`, `devicetimestamptostring` | 105-121 | every time stamp (`StampsReturn`) |
| `chiptohex`, `SevenBytes`, `bytestotag` | 127-162, 180 | every chip with a lowest byte from 16 on; others are a digit short, since `hex()` drops leading zeros (`ChipsReturn`) |
| `doorhextochip` | 172-178 | every chip with an odd number; others are read as a smaller number, since the padding is blanks, which `int()` skips (`DoorChipsReturn`) |
| `parsemultiframe` | 246-259 | every frame but a last one of fewer than two bytes (`FramesReturn`) |

They are no behaviours, so no run lists them: TLC evaluates them as the assumption `CodecsAgree` of `MCHousehold` on the edges of each
field, and `CodecsProofs` proves all but the last for every value. Left out: weights, temperatures, times of day, HDX chips
(their digits are passed on), and `doorchiptohex`, which nothing calls.

## Runs

| Run | Module, configuration | Shows |
|---|---|---|
| `doors` | `DoorControl`, `MCDoors.cfg` | Home Assistant shows what the database holds (`HAMatchesDb`), the newest report tells the lock (`NewestReportIsTrue`), at rest the real lock is shown (`QuietShowsLock`), and no report moves another door's switches (`NoCrossTalk`), **when the cat flap is the last device loaded** |
| `flap_topic` | `DoorControl`, `MCFlapTopic.cfg` | the same with the pet door last: `NoCrossTalk` is violated |
| `flap_batch` | `DoorControl`, `MCFlapBatch.cfg` | two lock frames in one message of a cat flap: the older stays shown and stored (`QuietShowsNewest` is violated) |
| `door_user` | `DoorUser`, `MCDoorUser.cfg` | the promise, for a user without bad habits, registers asked for on start-up |
| `door_repeat` | `DoorUser`, `MCDoorRepeat.cfg` | a switch of a locked door sent the value it has already unlocks the door: `SettledAsWanted` is violated |
| `counter` | `DeviceCounter`, `MCCounter.cfg` | one process: no reuse, and `Tickets` is implemented |
| `counter_cli` | `DeviceCounter`, `MCCounterCli.cfg` | with `cli.py` beside the service one number goes on two messages: `NoReuse` is violated |
| `web` | `WebCache`, `MCWeb.cfg` | no holes, no truncated answer without overlap or death, credentials fetched once and served in the end |
| `feeder` | `Feeder`, `MCFeeder.cfg` | acknowledged events are stored, what is stored is shown unless odd, every event is acknowledged in the end |
| `feeder_batch` | `Feeder`, `MCFeederBatch.cfg` | two frames in one message: the second is stored and not shown (`ShownAtRest` is violated) |
| `household` | `MCHousehold`, `MCHousehold.cfg` | hub, pets and curfews are shown as they are (`HubTells`, `PetTells`, `CurfewTells`) and as they are stored (`HouseShownIsStored`), loaded devices do not end the service, a build without failure is the document and the service starts on it |
| `curfew_times` | `MCHousehold`, `MCCurfewTimes.cfg` | new times for a curfew that is on turn it off (`TimeChangeKeepsCurfew` is violated) |

The six violated properties each state what a comment, a log line or a document says; `PROJECT.json` quotes them under
`findings`.

Bounds and why they are enough:

* One door of each kind: doors share only `pending`, `sets` and the global `devid`, and two doors already show every
  sharing. The proofs are for any number.
* `MaxInFlight` 2 (`doors`), 3 (`door_user`): the queues' interactions are a command or report behind another, or one repeated; two in
  flight give each. `door_user` has 3 so that a repeated command and its report travel together. Only the environment is bounded: the
  service never waits for room, except that `Start` with `StateOnStartup` needs it for the request it sends.
* `MaxFrames` 2 (`doors`, `door_user`): a frame that is published, and one that comes after it and is set back. The proofs are for any number.
* `Largest` 1 and `MaxCalls` 3 (`counter`): the field wraps and comes round again. `Largest` 7 (`counter_cli`): no wrap can explain the reuse.
* `LastPage` 2: a header page, a middle page and a last page, so a download can stop after some but not all. Two threads
  are enough for each race of a check with a creation; one firmware version, since files of two
  versions do not touch each other.

* `MaxFrames` 2, `MaxEvents` 3, `MaxInFlight` 2 (`feeder`): a message with one, two and with not all of the events; a message and an
  acknowledgement, two messages, or a repeated one on their way; with three events an older one can be repeated behind a newer one that
  was acknowledged. One feeder and one pet: feeders share only `pending` and the pet's topic, and the proofs are for any number. A stray
  only adds topics nobody compares, and has its place in `feeder_batch`.

* `household`: one pet door, one cat flap and one pet share everything two of each would: a socket, a handler, the tables. `MaxMessages` 2: a message
  behind another, and one repeated. `MaxUptime` 1: another value than at the start. `MaxFailures` 1: each statement may be the one that fails.
  `MCClouds`: a sound document, one without pets, one that ends the build, one with an offline hub and a feeder, and one with a Felaqua. `Texts`: one
  span, and two. `Scenarios` confines a behaviour to topics that meet: the hub and the builder; the hub, its uptime and pets; pets at both doors; the times and
  `cli.py`. Without it the product of independent topics is out of reach. The proofs are for any scenario, so for all topics at once.
* Codec data: the lowest and highest value of each field and those around a digit's or byte's edge. TLC's integers have 32 bits, so years end with 31; the
  proof covers the six bits.

`CHECK_DEADLOCK FALSE` is set in the counter's runs only, where `MaxCalls` stops the model.

## Proofs

All for every value of the constants, under the named assumptions.

| Theorem | Says | Rests on |
|---|---|---|
| `TypeCorrect` | `DoorControl!TypeOK`: a lock mode stored, sent or reported is one this kind of door has | inductive as it stands, `PendingOK` included |
| `ReportsTell` | `NewestReportIsTrue`, messages of any number of frames | types; door by door (`NewestTells`), one step per action, the queue lemmas for repeated reports |
| `ViewsMatch`, `QuietViewsTell`, `NoStepCrossTalks` | `HAMatchesDb`, `QuietShowsLock`, `NoCrossTalk` | assumption `FlapIsLast`: a cat flap's id is `DevId` (so there is at most one cat flap and it is loaded last) |
| `SwitchesAreHeeded` | `DoorUser!SettledAsWanted`: whenever a door is at rest, its switches and lock are as wanted | `FlapIsLast` and `NoHabits`: the user has none of the `Habits` |
| `CounterFits` | `DeviceCounter!TypeOK`, any number of processes: the number always fits two bytes | inductive |
| `OneProcessImplementsTickets` | `DeviceCounter` implements `Tickets` | assumption `OneProcess` |
| `NumbersAreNotReused` | `NoReuse`, any devices and any length of the cycle | assumption `OneProcess` |
| `FilesAreThere`, `PagesHaveNoHoles`, `AnswersAreWhole` | `WebCache!TypeOK`, `NoHoles`, `TruncatedOnlyByAccident`, any threads, versions and pages | see below |
| `CredentialsAreFetchedOnce` | `FetchedOnce`, an action property | as below |
| `FeederTypes` | `Feeder!TypeOK`: all numbers anywhere are events that have happened, and one callback runs at a time | inductive; queue lemmas; a message is never empty since a set of numbers has a least one |
| `FeederShownIsStored` | `ShownIsStored`, any feeders, pets and bounds | see below |
| `AcknowledgedEventsAreStored` | `AcknowledgedIsStored`, any feeders, events and messages on their way | assumption `TwoAtMost`: a message has two frames at most (`docs/Feeder.md` 3) |
| `TypeCorrect`, `LoadedDevicesAreSafe`, `ShownIsStored` (`HouseholdProofs`) | `Household!TypeOK`, `LoadedIsSafe`, `HouseShownIsStored`, any house, documents, texts and bounds | see below |
| `BuildLetsTheServiceStart`, `BuildIsTheDocument` (`BuilderProofs`) | `BuiltStarts`, `BuiltIsCloud`, any documents, whatever was in the tables before | see below |
| `HubIsShownAsItIs`, `CurfewIsShownAsItIs`, `PetIsShownWhereItIs` (`HouseholdTells`) | `HubTells`, `CurfewTells`, `PetTells`, any house | the last one on `SlotsAgree`: where a document has a tag under an index of a pet door, it is the one the door has learnt there |
| `EveryStampReturns`, `EveryChipReturns`, `DoorChipReturnsIfOdd` | `StampsReturn`, `ChipsReturn`, `DoorChipsReturn` for every value | division by the widths of the fields, one byte at a time |
| `FirstFrameReturns`, `EveryRoundShortens` | one round of `parsemultiframe` takes off the first frame and nothing else, and leaves less | lemmas on sequences |

The strengthenings that make them inductive:

* `HAMatchesDb` is not inductive. The cat flap's handler leaves the Curfew switch as it is, so the view agrees
  only because a cat flap's topic never shows a curfew (`FlapsShowNoCurfew`), which in turn rests on `TypeOK`: no report of a
  cat flap says Curfew. `ViewInv` joins them.
* `OneProcessImplementsTickets`: the invariant `InStep` says that a process between SELECT and UPDATE holds the successor of what the table
  still has. That is what a second process breaks.
* `NoHoles`: `BelowIsThere` says that a thread downloading page *p* has all pages before *p* on disk. Files are never removed.
* `TruncatedOnlyByAccident`: as long as no requests overlapped (`OneBusy`: at most one thread is busy) and the server did
  not die, a file is empty only while its thread writes it (`TruncatedIsWritten`).

* `ShownIsStored` speaks of the time between callbacks. `BowlInv` and `PetInv` follow the callback: before the first frame topics
  and rows agree, after it the row holds what `Return` will publish, and after a second one the feeder will be odd anyway.

* `Household`: `Inv` is `Types`, `Loaded` and `Agreed`. `Types` is stronger than `TypeOK`: the statements a build has left insert rows of the right
  kind, and the state of a curfew is one of three. `Loaded` says that a device whose handler is registered still has the rows the start-up loop
  looked up: the service updates rows and never removes one, and a build ends `fresh`. From it follows that its handler does not raise. `Agreed` counts
  the publication of a running handler as sent: with it topics and tables agree at every step, and `pending = {}` gives the property.
  The step of `Return` needs that storing a curfew again changes nothing.

* `SwitchesAreHeeded`: the invariant `Heeded` says of each door that it has one request waiting, which leads from the stored lock mode to what is
  wanted, and nothing else on its way (`Asked`); or that one lock mode, which is as wanted, is what every command, every frame of every report (`Agrees`) and, once
  they are through, register and database have. Then storing a first frame again changes nothing (`PublishKeepsView`). The lemma it rests on is `FlipIsGranted`: where a switch
  is moved, and not sent again, and moved at rest, the table in `LockCommand` gives what was wished. A repeated or hurried switch is what leaves `Asked`.
* `NumbersAreNotReused`: a message sent less than a cycle ago bears the table's number, stepped back once for each number taken since
  (`WireIsCounted`), and what is about to be sent is newer than all that was (`ReplyIsNew`).
* `CredentialsAreFetchedOnce`: the file is opened for writing only by a thread that has found it absent, and without an overlap it still is (`AbsentIsFetched`).

* `AcknowledgedEventsAreStored` has the largest invariant, `AckInv`. One feeder is gathered in a record (`Side`), and each kind of step is a lemma about two such
  records. `InOrder` says that the last message on its way that has anything to store brings the newest of all that is due: stored, acknowledged,
  or sent (`WillHold`). A new message keeps this since the feeder keeps only its newest events (`AllNewer`), its message takes the oldest of
  them, everything sent is among these (`AmongOldest`), and of two neighbours one opens the lid and is not stored (`Alternates`, where `TwoAtMost` comes in).
  That only the oldest is ever dropped is `AcksInOrder`. A death empties the queue, so for feeders without repeated messages `Once` adds that what is
  acknowledged or decoded is in the bowls already, and that all else comes later.

* `BuildIsTheDocument`: the invariant `Made` says that a build without a failure is at a place of its script, group and statement, that the statements before it
  have made the keys of each table, and, until the service writes, the rows: of two statements for one key the later (`IsLatest`).
  `BuildLetsTheServiceStart` needs the keys only, so it holds although the service writes.
* `HouseholdTells`: of the waiting messages about a subject only the newest counts, and it tells how the subject is (`LastWord`); if none waits, tables
  and topics have it, what the running handler will publish included. `PetTells` needs that the table of tags says what the door's indices mean, which
  `TagsRight` carries through builds; that is `SlotsAgree`. Without it the document renames pets while they walk. The
  proof of `CurfewTells` showed that one of its hypotheses, no command on its way, was not needed; it is stated without.

`QuietViewsTell` needs no invariant of its own: with nothing on its way it is `HAMatchesDb` and `NewestReportIsTrue` together.

Model-checked only: the liveness properties (`RequestTakesEffect`, `CredentialsServed`, `AcknowledgedInTheEnd`), which are beyond the proof
system; and `FramesReturn`, whose proof would be an induction over messages, which is beyond it too, and of which `FirstFrameReturns` is the
step. The invariants of the proofs were checked with TLC on the runs' instances before they were proved, all but `TagsRight`, whose rows have no
common type.

## What is not modelled

* Of `cli.py` the arguments; of a feeder the frames other than Feed, which are acknowledged alike and set configuration values;
  of a Felaqua all but the counter and the failing start; of the hub the LED mode and the dump of its registers; the battery states, which are published and never compared.
* Discovery topics (`/config`): constant text, published at each start.
* The radio bridge: an abandoned experiment that talks to none of the other parts.
* The mosquitto broker and its bridge have no source here; what they deliver is in `DoorControl`, `Feeder` and `Household` as environment.
* A locked database. The handler of a failed statement (`pethubpacket.py` 93) names an undefined exception, so that the process ends; in the models that is
  a `Crash`, for the builder a `BuildEnds`.
* Firmware and log tools, capture helpers, the sniffer and the message parsers are offline conversions without state.
* The hardware designs, pictures and documents are not programs.
