# A TLA+ verification of the VESC packages

This directory models the ROS 2 packages of this repository in TLA+: the code
that turns the bytes of a serial line into packets, the interface with its
receive thread, the driver node, the device namer, the `ros2_control` component
and the two nodes for Ackermann vehicles. TLC checks the models on small
instances, and TLAPS proves the theorems listed below for every value of the
constants. `PROJECT.json` is the index: components, runs, the source lines of
every definition, hazards, findings and theorems.

Short names used here: `I` = `vesc_driver/src/vesc_interface.cpp`, `F` =
`vesc_packet_factory.cpp`, `P` = `vesc_packet.cpp`, `D` = `vesc_driver.cpp`,
`L` = `vesc_device_uuid_lookup.cpp`, `H` = `vesc_hardware/src/vesc_hardware.cpp`,
`O` = `vesc_ackermann/src/vesc_to_odom.cpp`.

## 1. The system

```
 AckermannToVesc --commands--> VescDriver (node)      VescHardware (ros2_control)     vesc_device_namer
 VescToOdom     <--telemetry--      |                        |                              |
                                    +-----------+------------+------------------------------+
                                                |  owns one each
                                          VescInterface
                                  client thread | receive thread
                                                |        packet_creation_thread -> VescPacketFactory
                                                |              -> packet_handler_ / error_handler_
                                           serial line  <-->  VESC
```

| Component | State | Operations | Talks to |
|---|---|---|---|
| **Framing** (`P`, `F`) | none | `VescFrame` lays out a frame; `createPacket(begin, end)` says *packet*, *needs n bytes* or *no packet here* | called by the receive thread and by every request or command |
| **Receive path** (`I:78-139`) | `buffer_`, the search position, a *static* `temp_buffer` | receive, append, search, erase | reads the line, calls the two handlers |
| **VescInterface** (`I`) | the port, `packet_thread_run_`, `packet_thread_` | `connect`, `send`, the request and set calls, `disconnect`, the destructor | one client thread against its receive thread |
| **Packets** (`P`) | none | the encoders `Set*`, the accessors of `Values`, `ImuData` and `FWVersion` | driver, hardware component, lookup |
| **Messages** (`vesc_msgs`, `D`, `H`) | none | the tables that fill `VescState`, `VescImu`, `sensor_msgs/Imu` and the IMU atomics from the accessors | packets in, topics out |
| **VescDriver** (`D`) | `driver_mode_`, two firmware numbers, six `CommandLimit`s, publishers | constructor, 50 Hz timer, command topics, packet callback | an executor thread against the receive thread |
| **VescDeviceLookup** and the namer (`L`, `vesc_device_namer.cpp`) | `ready_`, `uuid_`, `version_`, `hwname_` | constructor, poll, print, export | `main()` against the receive thread |
| **VescHardware** (`H`) | state and command interfaces, atomics filled by the callback, a pointer to the interface | `on_init` ... `on_deactivate`, `read`, `write`, the packet callback | the controller manager's thread against the receive thread |
| **vesc_ackermann** | the last state and servo command, the pose | conversion of drive commands, dead reckoning | topics of the driver |

What is hard in it, and what makes each part correct:

- *Receive path.* Chunks of any length cut and join frames; noise looks like a
  frame. No byte may be lost, repeated or reordered, no packet skipped, the
  buffer must stay bounded, and the outcome may not depend on the chunks.
- *Interface.* `disconnect()` has to end a thread that is blocked in a read,
  without a time-out; connections may follow each other, and the port may fail
  under any call. One receiver at a time (but inside a `connect()` that ends the
  process), none left behind, handlers within the connection, calls that return.
- *Several interfaces in a process.* They share `temp_buffer`.
- *Driver.* The receive thread runs before the constructor has finished and
  until the destructor ends, and writes the two version numbers without a lock.
  Requests and answers get lost, and telemetry that an earlier process asked for
  may come first. No command before the handshake, every command that is a
  number within its limits, the handshake ends, and a lost port ends the node.
- *Hardware component.* `read()` copies field by field while a packet is being
  stored field by field; `write()` is called in INACTIVE, too; values outlive
  activations.
- *Conversions.* Hand-written offsets, masks, widths, signs, rounding and limits.
- *Odometry.* States and servo commands arrive in no order, messages are dropped,
  and time stamps may go back. The pose must not drift apart from the driving.
- *Namer.* A string that two threads use without a lock, and destruction order.

`PROJECT.json` lists every hazard at its line with the properties about it.

## 2. The modules

| Module | Models | Used by |
|---|---|---|
| `VescFraming` | the frame and the outcomes of `createPacket`, as operators over a byte sequence and an index; the checksum is a constant operator | `FrameStream`, `PacketStream` |
| `FrameStream` | **abstract**: what the receive path promises, over the whole stream | `PacketStream` |
| `PacketStream` | `packet_creation_thread`, one action per step of its loop | `MCPacketStream` |
| `SharedReceive` | receive and append in the threads of several interfaces | |
| `VescInterface` | `connect`, the requests, `disconnect` and destructor, statement by statement, against the receive thread, the VESC and a port that fails | the three clients |
| `VescDeviceLookup` | the namer, **composed** with `VescInterface` | |
| `VescDriver` | the node, **composed** with `VescInterface` | `MCVescDriver` |
| `VescHardware` | the component from `on_configure` on, **composed** with `VescInterface` | `MCVescHardware` |
| `CommandLimit` | limits from parameters, and `clip` | `VescDriver`, `Algorithms` |
| `VescCodec` | encoders and accessors over digits in a base | `Algorithms` |
| `VescMessages` | which accessor fills which field of a message or interface | `Algorithms` |
| `HardwareInterfaces` | `on_init`, as operators over a description | `Algorithms` |
| `Algorithms` | the inputs of the four modules above, as sets that are constants, and what holds for each input | `MCAlgorithms` |
| `Ackermann` | `AckermannToVesc` and `VescToOdom`, joined by the topics of a driver | `MCAckermann` |
| `*Proofs` | the theorems about the module of that name | |

**Composition.** `VescInterface` is the contract between one client thread and
one receive thread. Each of its clients `EXTENDS` it, and each action of a
client conjoins one action of the interface or leaves its variables `vars`
alone. Nothing is assumed of the interface that the module does not show: that
this is so is a theorem for each of them (section 4), and with it everything
proved of the interface holds in the node, the component and the namer.

How state and actions correspond to the code:

- **`PacketStream`.** `line` is what the serial driver holds; `Receive(n)` is
  `receive()` plus the insertion; `DeliverPacket`, `SkipByte` and `EndSearch`
  are the branches of the loop, with `iter` and `iter_begin` as indices.
  `transmitted`, `received`, `delivered`, `accepted` and `reported` are history:
  `EveryByteAccounted` compares what was put on the line with what was read, byte
  by byte, before it counts. `FrameStream`
  is implemented with `settled <- Position(iter_begin) - 1`. `PacketsFrom` is
  the reference that `ChunkIndependent` compares with: one search over all the
  bytes.
- **`VescInterface`.** `client` tells which statement of a call comes next, so
  that the thread may run between any two: `disconnect()` is
  `DisconnectStops` (the flag), `DisconnectWakes` (the last
  `requestFWVersion()`), `DisconnectJoins`, `DisconnectCloses`. A frame is the
  name of its packet; `requests`, `answers` and `batch` are what is on its way
  to the VESC, on its way back, and read but not handled. `Check`, `Receive`,
  `Handle` and `Repeat` are the thread; `packet_thread_run_` starts with any
  value, as it has no initializer. `port = "failed"` is a device that is gone:
  `isConnected()` is false though nobody closed the port, so `disconnect()`
  does nothing, and what destroys the joinable `packet_thread_` then ends the
  process (`Terminate`): the destructor (`client = "unwinding"`), or the
  assignment at the end of the next `connect()` (`client = "assigning"`). That
  `connect()` has opened the port again and started its own thread by then, so
  two threads run until the process ends, and `OneReceiver` says that this is
  the only time. `requests` starts with any sequence over `Leftover`, what an
  earlier process may have asked the VESC for.
- **`SharedReceive`.** The *k*-th byte on the line of interface *i* is
  `<<i, k>>`, so that a byte in the wrong buffer shows.
- **`VescDriver`.** `phase` is where the executor thread is in the node's life.
  It runs one callback at a time: `timer = "major"`, `"minor"` and `"imu"`
  split `timerCallback` where it reads the two numbers and where it sends,
  `callback` splits the packet callback between the two writes. The destructor
  destroys the publishers first and the interface after them. Telemetry that
  comes before the publishers exist finds a null pointer and ends the process
  (`PublishToNobody`, `phase = "crashed"`); after they are destroyed it may be
  published or end the process. A `double` is an integer, `NaN`, or no value
  (`std::optional`).
- **`VescHardware`.** `call` is the call that the controller manager's thread is
  in, split where it sends or waits: `on_activate` into `ActivateOpens` ...
  `ActivateSynchronizes`, `on_deactivate` into the statements of
  `disconnect()`. `set_command()` throws for a state that has no command of its
  name, outside the `try` of `on_activate` (`ActivateThrows`): the component
  stays INACTIVE with a connected interface, so `read()` and `write()` use it,
  and the next `on_activate` replaces it (`ReplaceStops` ... `ReplaceUnwinds`).
  After a failure of the port `reset()` clears the pointer before the thread is
  gone (`DeactivateUnwinds`), and the thread ends with the process
  (`DestructorTerminates`). Controllers may command `NaN`, which arithmetic and
  `std::clamp` pass on. Telemetry is numbered: the *n*-th packet has *n* in every
  field, so a mixture of packets, or an old one, shows. The callback stores one
  field per step, `read()` copies one interface per step, `write()` is one step
  since nothing runs against the commands. `joint` is a description that
  `HardwareInterfaces` accepts: a rotor or a servo, with names of groups.
- **`VescDeviceLookup`.** `uuid_` counts the uuids appended to the string and a
  read during a write gives `Torn`.
- **`HardwareInterfaces`.** The name of an interface is the sequence of its
  parts. Marking is a fold over the names in the order of the code;
  `FirstType` is the first element of a set that may be empty, so `on_init` is
  the *set* of the answers that are possible.
- **`VescCodec`.** A byte is a digit of base `Base` (256 in the code), a
  `double` counts steps of the resolution of its field, and a float is read
  from a word with parametric exponent and fraction. `Ldexp` rounds where the
  result is denormal, as `ldexpf` does. A member that the mask of an IMU packet
  leaves out is `Uninitialized`.
- **`VescMessages`.** Each table maps the fields of a message, or the axes of a
  group, to the accessor the code calls for it.
- **`Ackermann`.** A topic keeps its newest `Depth` messages, as the queues of
  depth 10 do. `StateIgnored` and `StateUsed` are the two outcomes of
  `vescStateCallback`; speeds and times are whole numbers, headings are quarter
  turns, and `Curvature` stands for `tan(angle) / wheelbase`. `motions` and
  `first` are history.

## 3. What TLC checks

Twelve runs; every property of a passing run has a mutant of the code in
`PROJECT.json` that breaks it under the same configuration. Invariants that are
proved and that other properties would catch going wrong (`TypeOK` of most
modules, `BufferIsTail`, `DeliveredInOrder`, `AtomicsFromTwoPackets`,
`DutyCycleClamped`) are left to the proofs, and are not in the configurations.

| Run | Instance | Shows |
|---|---|---|
| `noise` | three transmissions out of ten: frames of both sizes, damaged ones, cut ones, noise; chunks of every length | every byte is delivered or reported once; nothing skipped; bounded residue; same packets for any chunks; `FrameStream` implemented, hence nothing reordered or delivered twice; the line is drained |
| `responsive` | three connections, up to three frames on the line, two kinds of packet, a VESC that answers, a port that may fail | one receiver, or two inside a `connect()` that ends the process; none left, connected is received, handlers in their connection; `disconnect()` returns and answers are handled |
| `silent` (violated) | the VESC may not answer | finding 1 |
| `two` (violated) | two interfaces | finding 2 |
| `handshake` | one firmware version, limits set and unset, commands below, inside and NaN, two frames on the line, telemetry asked for by an earlier process, loss, a failing port, shutdown at any time | version not mixed, no early command, limits, handshake ends, lost port ends the node |
| `limits` (violated) | the same with a quiet line | finding 5 |
| `joint` | rotor (first and last field), servo, and servo with a group among its states (`on_activate` throws), commands -1 and NaN, gear 3, two pole pairs, two activations, two packets, one frame on the line, loss, a failing port | no state goes back to an older packet, commands in ACTIVE only or after `on_activate` threw, callbacks before the interface is gone or the process with it, servo state is what was sent, telemetry arrives |
| `sync` (violated) | the same | finding 3 |
| `algorithms` | base 16, so that 32 bits shrink to 16; all settings of limits around the ranges; commands around 0 and both ends of the integers; every field of `Values` at its extremes; sparse and dense IMU masks; every change of exponent; names of up to four bytes; descriptions of a joint with up to two state and two command interfaces and up to two sensors | limits ordered and feasible, commands and telemetry survive, order of floats, uuid found, publishers agree; nothing accepted twice, no mixture of rotor and servo, a joint without a fault is accepted, and with sensors anything may come of the empty set |
| `tags` (violated) | the same | finding 4 |
| `namer` | two polls, one error, a failing port | one whole uuid printed, no use after destruction, the process ends |
| `odometry` | speeds 1 and 3, steering straight or beyond the servo, two drive commands, three reports, queues of two, clock steps -1, 1 and 2 | with steady driving the pose depends on the stamps of the first and last used state only; odometry catches up |

**Why the bounds are enough.** A search looks at one frame at a time and carries
over less than one frame: three transmissions give a residue, the frame that
completes or destroys it, and one behind it. Two connections show what one
leaves to the next and a third what is left twice. The two statements that share
`temp_buffer` need two threads. Two packets are what a torn or old value can
be made of. `MaxLine` bounds what is on the line when the client sends one more
(the last request of `disconnect()` is not bounded by it): one frame is the
least with which loss and a late answer exist, two put an answer of one kind
behind one of another. In `joint` a second activation meets the values of the
first, the second also replaces the interface of one that threw. The base of `algorithms` changes no carry, sign or truncation, and two
names per list are the least that repeat or mix. In `odometry` three reports
through queues of two make one be dropped, and two steps of the clock go forth
and back. What does not depend on the bounds at all is proved.

**Deadlock** is not checked where a program may end or sit idle: no bytes sent,
no call made, node destroyed, component finalized, all inputs bounded. It is
checked in `algorithms` and `tags`.

**Faults.** `Lose`: a request or its answer never arrives. `PortFails`: the
device is gone at any moment; `receive()` may then return with nothing
(`ReceiveFails`) or never. `Answer` with the port closed: the answer is lost.
`Leftover`: what an earlier process asked for and the VESC still answers. The
theorems about `VescInterface`, the driver and the component hold for any
`Leftover`. Of the runs, `responsive`, `silent` and `handshake` start with such
answers on their way; `joint` and `sync` start with a quiet line, and so does
the namer, in its run and its theorems (`LookupAssumption`), as it prints
whatever uuids come.

**Fairness**, all of it about scheduling: the receive thread runs and a blocking
read returns once bytes are there (`I:83`), but on a failed port it need not;
calls proceed; the executor runs a due timer (`D:114`); the controller manager
repeats `read()`; the executor of `VescToOdom` takes messages. `VescDriver` and
`VescHardware` also assume *strong* fairness of the VESC: it may lose requests
any number of times, but it answers one if it is asked again and again. Both ask
periodically, so the properties about them say that retrying is enough.
`responsive` and `namer` assume that every request is answered (`FairSpec`);
`silent` drops that alone (`SilentSpec`). No client is assumed to call anything,
except in `namer`, where `main()` is the client.

## 4. What is proved

For all values of the constants, under the named `ASSUME` of each module. For a
specification the shape is the same everywhere: `IInv` is inductive, and each
theorem follows from it.

- **`PacketStreamProofs`** - types, conservation and order of bytes, bounded residue,
  nothing skipped, order, and *`PacketStream` implements `FrameStream`*. The
  properties are not inductive by themselves: that no packet starts at a skipped
  byte has to stay true when more bytes arrive, so `IInv` adds that all the
  bytes between `iter_begin` and `iter` are junk *of the stream*
  (`ExaminedIsJunk`), and that all packets behind are covered (`LeftBehind`).
  Its lemmas about frames say that when all the bytes of a frame are there its
  outcome does not change with bytes behind it or the place of the buffer in
  the stream, and that an incomplete frame stays below the maximal size.
  *The packets delivered do not depend on the chunks* (`ChunksDoNotMatter`):
  what has been delivered says nothing yet about bytes still to come, so the
  invariant `SearchSoFar` quantifies over them. Whatever bytes *t* follow, a
  single search over the received bytes and *t* finds `delivered`, and then what
  it finds from the position of `iter`. Where a search pauses, this gives the
  property with the empty *t*; a chunk is the step from *t* to the rest of it.
  The safety half of `LineDrained` is proved, too: exactly one branch of the
  loop applies wherever a search is, and each step shortens the line, moves
  `iter` forward within the buffer or ends the search.
- **`VescInterfaceProofs`** - types, one receiver, connected is received, no
  thread left, handlers within the connection; whether or not the VESC
  answers, whenever the port fails, and whatever an earlier process has left on
  the line. `IInv` orders the sessions (earlier ones joined, later ones not
  started, but for the one that a doomed `connect()` has started) and ties the
  statement of the client to what the current thread may be doing. The safety half of `DisconnectReturns` is
  `WakeUpIsUnderway`: on a line that loses nothing, while `disconnect()` waits
  for a thread blocked in `receive()`, what wakes it is on its way. Together
  with `StaysStopped` (the flag keeps the thread from receiving again) this is
  inductive for `FairSpec`; for `SilentSpec` it is not, which is finding 1.
- **`SharedReceiveProofs`** - counts are right for any number of interfaces,
  contents for one (no run checks this; `two` shows that one is all it holds
  for). `IInv` says what `temp_buffer` holds between the two
  statements.
- **`VescDriverProofs`** - *the node is a client of `VescInterface`*; types,
  announced version, no early command, limits. `IInv` says that the minor number
  is never set before the major, and that no callback of the executor runs
  before the constructor has finished. Before it stand the
  theorems about `CommandLimit`: limits are ordered and feasible whatever the
  parameters; `clip` returns a value between them and keeps order.
- **`VescHardwareProofs`** - *the component is a client of `VescInterface`*,
  over any number of activations; types, two packets at most, no state goes
  back, when commands are sent, callbacks before the interface is gone, duty
  cycle clamped unless it is a `NaN` that was commanded, servo state. `IInv` adds that states never run ahead of the
  atomics, which call goes with which state of the life cycle and of the port,
  and that a servo copied during `read()` stays the last one sent, as no
  `write()` comes between.
- **`VescDeviceLookupProofs`** - *the namer is a client of `VescInterface`*; one
  uuid; no use after destruction. `IInv` counts: until the destructor sends its
  own request, requests, answers, packets and uuids are together at most the
  one request.
- **`AlgorithmsProofs`** - every invariant of `algorithms`, for every base of the
  digits, every width of exponent and fraction, every setting, value, mask, name
  and description:
  - *commands*: what a `Set` packet carries is what the VESC reads, up to the
    resolution of the field and with its sign (digits add up to their number,
    two's complement keeps the sign, the cast rounds towards zero);
  - *telemetry*: each accessor of `Values` reads its own field. The payload is
    `FlattenSeq` of the fields, so the lemmas place a piece behind the sum of
    the widths before it. A member of `ImuData` is read behind the members that
    the mask asks for before it, however the mask is set;
  - *floats* keep the order of the words: a greater word is never read as a
    smaller number, over normal and denormal numbers and where the sign changes.
    `Power2` grows faster than the fraction of an exponent reaches, and rounding
    a denormal keeps order;
  - *version*: name and uuid are found, for names of every length;
  - *messages*: driver and hardware component publish the same accessor for
    the same quantity; the angles are those of the component only, in the order
    of `VescImu.msg` (the driver's are not);
  - *limits*: ordered and feasible, for all parameters;
  - *descriptions*: `on_init` accepts no interface twice and no mixture of rotor
    and servo, and accepts every joint without a fault, with any number of
    interfaces in any order. With sensors, however many and without a fault, the
    answer is SUCCESS or ERROR: it rests on the first element of an empty set.
- **`AckermannProofs`** - types, and the pose of steady driving, for topics of
  every depth, every clock, any number of messages. `SteadyDrive` is not
  inductive: `IInv` adds what the pose is before a state was used, and says of
  *every* motion that is the only one so far what the pose would be, so that
  one more interval can be added to it (`Intervals`).

The three composition theorems (`NodeUsesInterface`, `HardwareUsesInterface`,
`LookupUsesInterface`) each state that the specification of the client implies
that of the interface, so the theorems of `VescInterfaceProofs` are cited where
a client's invariant needs them and are not proved again.

**Induction over data.** `Power2`, the folds of `on_init`, `FlattenSeq` and the
single search `PacketsFrom` are recursive functions, which TLA+ defines by
`CHOOSE`. Before anything can be said of one, it has to be shown to exist. The
library's induction theorems take an operator as a parameter, which the
installed provers cannot instantiate; so `Induction` and its variants (over an
interval, over finite sets, downwards) are stated with a *set* in place of the
predicate and proved from `WFMin`: a set of counterexamples has a least one.
Each recursive function then has a lemma that it exists, as the restriction to
a longer interval exists whenever the one to a shorter interval does, and a
lemma that unfolds it once.

**Assumptions.** Each module names those about its constants: of the checksum
nothing at all is assumed, and a payload has at most 1024 bytes
(`FramingAssumption`); `Base` is even, an exponent has at least two values, and a
word of four bytes holds sign, exponent and fraction (`CodecAssumption`); the
values of fields and words are those their widths allow, and a name has no zero
byte (`TelemetryAssumption`, `ImuAssumption`, `VersionAssumption`); a range has
its bounds in order (`TopicAssumption`); a description is a record of sequences
of names (`DescriptionAssumption`); a command is an integer or `NaN`
(`HardwareAssumption`); bounds are natural numbers. `SharedReceiveAssumption` is
a hypothesis of its theorems, as no passing run could check an `ASSUME`.

**Only model-checked**: liveness under fairness (`LineDrained`,
`DisconnectReturns`, `AnswersHandled`, `ReachesOperating`, `LostPortEndsNode`,
`TelemetryArrives`, `Ends`, `CatchesUp`), which with `ENABLED` is out of the
prover's reach. Every invariant and every action property that a passing run
checks is also a theorem.

## 5. Findings

Each is a violated run; `PROJECT.json` quotes what the code says of itself.

1. `silent` - `disconnect()` never returns if the VESC does not answer its last
   request: the thread stays in `receive()` and `join()` waits (`I:224`). This
   holds up the destructor, and with it node shutdown and `on_deactivate`.
2. `two` - the static `temp_buffer` is shared by the receive threads of all the
   interfaces in a process (`I:83`): bytes of one VESC get into the buffer of
   another.
3. `sync` - `on_activate` copies states to commands before any telemetry of
   this activation can be there (`H:281`): the first `write()` sends what
   `on_configure` or the last activation left.
4. `tags` - the check of types and groups looks whole names up (`H:662`), and
   the names of groups are in no table: a joint with IMU states is accepted,
   although `H:659` wants a single type.
5. `limits` - a command topic without limits is clipped to 0 (`D:356`): a
   parameter that is not set reads 0.0, and the branches for parameters that are
   not set are never taken. The comments at `D:281`, `D:293`, `D:306` and `D:318`
   say that any value is accepted. What `CommandWithinLimits` claims of a current,
   brake, speed or position it claims only where the user has set both limits.

Seen while modelling, without a run of their own:

- A port that fails under a connected interface ends the process: `disconnect()`
  returns at once (`I:220`), nobody joins the thread, and destroying it is
  `std::terminate()`. So end the driver's "Unexpectedly disconnected" path, an
  `on_deactivate` after the failure and another `connect()`; that one starts a
  second receive thread first, and until the end both use the same `buffer_`.
- A driver that is restarted while the VESC still answers its predecessor's
  polls may receive telemetry between `D:73` and `D:83`, before there are
  publishers: it dereferences a null pointer.
- Over a failed port `write()` still stores `hw_command_servo_`: the servo's
  state then shows a command that never reached the VESC.
- A rejected frame is searched again from its second byte, so a frame inside the
  payload of an unregistered one is delivered as a packet (`I:120`).
- The driver publishes `ypr` as roll, pitch, yaw; `VescImu.msg` says "Yaw,
  Pitch, Roll in degrees", and the hardware component does that.
  `TelemetryAgrees` says nothing of the driver's angles. The driver's `sensor_msgs/Imu` carries
  g and degrees per second.
- `VescToOdom` negates the speed of a state (`O:102`), while `AckermannToVesc` and
  the accessor (`P:242`) do not: with the same gain in both nodes odometry
  runs against the commanded direction, and with the same offset it subtracts
  the offset twice.
- `write()` sends all command interfaces of the joint, claimed or not
  (`H:339`), and `on_deactivate` sends nothing (`H:295`).
- `on_activate` calls `set_command` for every *state* of the joint, also when the
  joint has no command of that name (`H:282`), and that throws outside the `try`.
  So the example of `vesc_hardware/README.md`, with the states position and
  velocity and the command velocity, can never be ACTIVE.
- `std::clamp` passes a `NaN` on (`H:739`), the value of a command interface that
  no controller has set yet, and the encoder casts it to an integer.
- Positions times 1e6 leave `int32_t` beyond 2147 degrees of the motor
  (`P:496`); the cast is undefined there. With a gear ratio of 50 this is less
  than one turn of the output.
- Only names of groups pass for states (`H:574`), so `orientation.x` is rejected
  and the single axes that are exported elsewhere can never be asked for;
  `read()` copies the joint's states only, so a sensor's never change and a
  joint's group stays 0. A description without any command interface is
  accepted with a warning, while the README of the package says that one "must
  be specified".
- `*types_seen.begin()` is read of a set that may be empty (`H:691`). With
  libstdc++ this gives JOINT: every sensor with groups only is rejected.
- `version_` is made with pointer arithmetic on a literal (`L:63`).
- `uuid_` is appended to, never replaced: an answer to an earlier process's
  request would make two. `VescDeviceLookup` starts with a quiet line.
- `TEST_CHECKLIST.md:67` says that higher `pole_pairs` increase the velocity at
  the same ERPM, where its own formula at line 56 and the code divide by them;
  its lines about `roll` mean `euler_angles.roll`, which cannot be asked for.

## 6. Abstractions and what is not modelled

- The checksum is an operator that a payload's bytes match or not; CRC++ and
  `datatypes.hpp` are third-party code (2870 of the 7080 lines).
- The serial library: a read returns what has arrived, a write reaches the line
  whole and in order. That `async_send()` keeps a reference to a temporary
  frame (`I:241`) is not modelled.
- Memory below single reads and writes: `packet_thread_run_` is a plain `bool`
  (`I:62`); its accesses are atomic here. So are those of `buffer_`, when two
  threads share it inside a doomed `connect()`; what they tear there is gone with
  the process.
- Of the early and the late packets that find no publisher no property is
  stated: the steps are there, and end the process or not. Two hazards without a
  property name the lines.
- The clients take `VescInterface` at the level of packets: bytes that are noise
  (`ErrorCallback`) only matter to the namer, whose callback acts on them.
- The framework calls `read()` and `write()` in INACTIVE and ACTIVE; ERROR from
  `write()` or a failed activation gives the component up, and an exception out
  of `on_activate` leaves it INACTIVE. Calls do not overlap. The VESC's own command time-out is not modelled.
- In `VescHardware` the IMU atomics and the raw publishers are not state, as
  `read()` copies none of them: `VescMessages` says what fills them. Radians
  and degrees are units; gears and pole pairs are multiplied.
- In `Ackermann`, the transform and the covariances; the motor reaches a
  commanded speed at once; with quarter turns only the heading of a curve, and
  the path of straight driving, are compared.
- Headers and units of the messages; logging; launch files, parameter files,
  containers and continuous integration, which have no behaviour of their own.

## 7. State of the plan

1. Framing, receive path, interface life cycle and shared buffer: *done*, proved.
2. Driver with its limits, hardware component, namer: *done*, each composed with
   the interface and proved, liveness apart.
3. Codec, messages, descriptions and the Ackermann nodes: *done*.
4. Proofs about odometry, the encoders and accessors, the floats, the messages,
   `on_init` and the independence from chunks: *done*; every safety property of
   the runs is a theorem.
5. Open: the safety halves of the other liveness properties (an unanswered
   version request is always repeated, `read()` copies what was stored last),
   as those of `LineDrained` and `DisconnectReturns` are proved.
