# A specification of the multiremote gateway

multiremote turns an Arduino with an Ethernet shield into a gateway between an
MQTT broker, an infrared transmitter and receiver, and a 433 MHz transmitter
for switched outlets. Before it spoke MQTT it was a web server, whose library and
network set-up page are still beside it. This directory holds TLA+ modules of its core, what TLC
finds out about small instances of them, and theorems that TLAPS proves for all
instances.

Paths are those below `src/code/`; the short names are

| short | file |
|---|---|
| sketch | `CurrentStuff/MQTT/MQTT_IR_RC_6/MQTT_IR_RC_6.ino` |
| client library | `Libraries/PubSubClient/PubSubClient.cpp` |
| IRremote | `Libraries/IRremote/IRremote.cpp` |
| RCSwitch | `Libraries/RCSwitch/RCSwitch.cpp` |
| web server | `OldStuff/WebServer.h` |
| set-up sketch | `OldStuff/Web_Net_Setup/Web_Net_Setup.pde` |

`PROJECT.json` names the lines each definition stands for.

## 1. Inventory

### Gateway sketch (`MQTT_IR_RC_6.ino`)

* State: the instances of the libraries, and during `callback()` a copy of the
  payload on the heap.
* Operations: `setup()`, `startmqtt()` (connect, publish "on", subscribe twice),
  `loop()` (the client's `loop()`, and `startmqtt()` again when it fails),
  `callback()` (copy, publish on `.../last`, `handle_command()`, free),
  `handle_command()` (split the text, choose by topic), `handle_ir()`,
  `handle_rc()`.
* Interaction: everything runs in one thread; the client library calls
  `callback()` from within its own `loop()` with a topic copied to the stack and a
  payload that points into its buffer, and `callback()` calls back into the library,
  which writes into that same buffer.
* Hard: what a lost connection or a reset leaves behind at each place; the buffer
  that two calls share; pointers never set when a command is too short.
* Correct if: whenever it serves, it is subscribed and seen online; commands are
  handled in order, unaltered and once; a complete command switches the outlet
  it names and no other.

### MQTT client (`PubSubClient`)

* State: one buffer of 128 bytes for both directions, `lastInActivity`,
  `lastOutActivity`, `pingOutstanding`, `nextMsgId`, the TCP client.
* Operations: `connect`, `loop`, `readPacket`/`readByte`, `publish`,
  `subscribe`, `write`, `connected`.
* Interaction: with the broker through the TCP client, with the sketch through
  the callback.
* Hard: a half-open connection, seen only by the clock; a packet that the
  connection cut in two; packets longer than the buffer, and lengths of more
  than one digit.
* Correct if: a dead connection is noticed in time and a good one kept; the
  client stays at packet boundaries and hands on exactly what was sent, if it fits.

### Broker, TCP connection, Ethernet shield

Not in the repository. Modelled as far as the library and the sketch rely on
them: sessions, subscriptions, the last will, retained commands, takeover of a
session by a new connection; connections that break without notice, are closed,
or end within a packet.

### Infrared receiver (`IRremote`: interrupt, `enableIRIn`, `decode`, `resume`)

* State: `irparams` (state, timer, entries), shared by the timer interrupt
  and the main program without any lock; the enable bit of the interrupt.
* Operations: the interrupt (every 50 us), `enableIRIn()`, `decode()`,
  `resume()`, and sending, which takes the same timer.
* Hard: every interleaving of interrupt and main program, a 16-bit timer that
  wraps, a full buffer.
* Correct if: a frame stays unchanged while it is decoded and is what was on the
  line, the buffer is never overrun, and the receiver always listens again.

### Infrared codecs (`IRremote`: `send...`, `decode...`)

* State: none between two calls; a decoder reads `rawbuf` and `rawlen`.
* Operations: `handle_ir()` of the sketch chooses one of eight send functions;
  `decode()` tries seven decoders in a fixed order and then the hash.
* Hard: tolerances that overlap, so that one protocol passes for another; marks
  that arrive too long and spaces too short; rounding to ticks; a decoder that
  reads behind the end of a frame.
* Correct if: what is sent is decoded to the same value of the same protocol
  (`IRtest.pde`), and a key of an unknown remote control always gives the same
  code.

### 433 MHz transmitter (`RCSwitch`)

* State: pulse length, repetitions, static buffers of the codewords.
* Operations: codewords of the types A to D, `sendTriState`, `transmit`.
* Hard: three numberings of addresses, one table each; a NULL codeword; overloads
  that differ in the type of one argument.
* Correct if: a codeword is that of the addressed outlet and of no other.

### 433 MHz receiver (`RCSwitch`)

* State: `timings`, the change counter, the repeat counter, the received value;
  shared with the pin interrupt.
* Operations: `handleInterrupt`, three decoders, `enableReceive`, and `transmit`,
  which takes the interrupt away around each pulse.
* Hard: a change between two pulses, in the middle of a frame; widths that a detector
  makes longer or shorter; an index at the end of the array; unsigned arithmetic.
* Correct if: the array is never overrun, a whole frame can be read from it with the
  decoder of its protocol only, and after sending the interrupt is attached again.

### Earlier gateway sketches (`MQTT_IR_RC_1` to `MQTT_IR_RC_5`)

* State and operations: those of the gateway sketch, each a copy with changes: RC_1 and
  RC_1_1 only print what `handle_rc()` gets, RC_2 switches one fixed outlet of each type
  and keeps `.../last`, RC_3 looks at its connection, RC_4 has a will, RC_4_1 a retained
  "on", RC_5 the address of the outlet in the command. RC_4-DEL and RC_3_WAN are for
  another room and server.
* Interaction: boards of several versions stand in one house, on two brokers, some with
  the same client id.
* Hard: what two boards with one name do to each other; what a retained status says
  after a loss; commands whose format differs between versions.
* Correct if: a retained "on" is never stale, and that of RC_4_1 is there while it serves
  (the others may leave "off" behind and serve); a command uses the transmitter it is meant
  for; a lost connection is replaced.

### Web server library (`WebServer.h`) and set-up page (`Web_Net_Setup`)

* State: the characters pushed back, the socket, the request buffer and the
  credentials of the server; `eeprom_config` in the sketch and the EEPROM.
* Operations: `processConnection` with `expect`, `getRequest`, `processHeaders`,
  `dispatchCommand`; `setupNetHTML` with `nextURLparam` and `EEPROM_writeAnything`;
  `read_EEPROM_Settings` at the start.
* Interaction: the server calls the command that belongs to the path, which reads the
  parameters from the tail of the URL.
* Hard: clients that hang up or fall silent anywhere; characters that `expect()` has
  read too far; power lost between two bytes of the settings.
* Correct if: nothing of a request is lost or mixed with that of another client, each
  path runs its own command, the server always comes back, and what is set is what is
  stored and shown.

### Others

The receiving sketches (`MQTT_IR_8_1`, `IRrecord`), the web remote
(`WEB_SD_MULTI_FORM_22`), gateway sketches for infrared only, demonstrations, scripts
and web pages. `PROJECT.json` lists all of them with their status, and all hazards
found, each at its line.

## 2. Plan

In order of what matters most to a user of the gateway:

| | module | part |
|---|---|---|
| 1 | `CommandChannel`, `MqttGateway` | sketch, client library, connection and broker; the promise to the user |
| 2 | `KeepAlive` | the client's clock |
| 3 | `IrReceiver` | timer interrupt against the main program |
| 4 | `MqttPacket` | the bytes of packets in the shared buffer |
| 5 | `RcCodewords`, `RcCommand` | from the text of a command to the outlets |
| 6 | `IrCodec` | `handle_ir`, the send functions and the chain of decoders |
| 7 | `RcReceiver` | `handleInterrupt` and `transmit` on one pin |
| 8 | `GatewayVersions` | all versions of the sketch, two boards at a time |
| 9 | `WebServer`, `WebNetSetup` | the request parser, and settings written byte by byte |

All of it is done. `MqttGateway` is the module that composes: it contains sketch,
library, connection and broker, treats a packet as a whole and time as "may happen".
Others each refine one thing it takes for granted: `KeepAlive` that a dead
connection expires, `MqttPacket` that packets are read whole, `RcCommand` and
`IrCodec` what handing a command to a transmitter means; `IrReceiver` gives what
`IrCodec` decodes, a frame that is complete and true to the line. `CommandChannel` is
the abstract specification; `MqttGateway` implements it, and each board of
`GatewayVersions` does. `GatewayVersions` and `RcCommand` share `RcCodewords`;
`WebNetSetup` extends `WebServer` with the sketch that runs on it.

## 3. Modules

### CommandChannel

The abstract specification: `waiting` is the sequence of accepted commands,
`out` the last one handed to a transmitter. `Accept` adds to the end, `Handle`
takes the oldest and sends it if there is a handler for it, `Lose` drops the
newest ones. `Progress` says no command waits for ever.

### MqttGateway

| state | in the code |
|---|---|
| `pc` | the place the sketch has reached, between two accesses to the socket |
| `buffer` | the message that a pointer into the library's buffer yields |
| `copy` | `p` in `callback()` (sketch:68) |
| `radio` | the last command given to `handle_ir` or `handle_rc` |
| `link`, `rx`, `tx` | the TCP connection and what is under way on it |
| `session`, `subs`, `retained`, `statusSeen`, `last` | the broker's side |

Actions: `Setup`, `ConnectFails/Opens`, `ConnackTimesOut`, `ReadConnack`,
`AnnounceStatus`, `SubscribeIr`, `SubscribeRc` (`startmqtt`), `LoopDisconnected`,
`LoopExpires`, `LoopReads` (the client's `loop`), `CallbackCopies`,
`CallbackEchoes`, `CallbackHandles` (`callback`), `Reset` at any place; the
broker's `BrokerAccepts`, `BrokerRefuses`, `BrokerForwards`,
`BrokerSubscribes`, `BrokerDetects`; `UserPublishes`; `LinkBreaks` and
`BrokerCloses`, after which `Remains` says what of the packets under way is still
read, the last one perhaps in part. Writing to a lost connection succeeds or fails
without the sketch noticing, as it ignores the results of `publish()` and
`subscribe()`.

### KeepAlive

Ages in ticks instead of times: `lastIn`, `lastOut` are the ages of the two
stamps, `t` that of the local variable of `loop()`, which `readPacket()` outlives.
`TakenFor` says what `loop()` takes a packet for: a message that is too long may pass for
anything, or for nothing, and then leaves the stamps as they are.
Besides what the client believes stands what is so: `quiet`, `silent`, `asked`
count since it really wrote, read, or pinged without an answer. The actions are
the branches of `loop()` and `connect()` (`Expired`, `GivesUp`, `Pings`,
`FindsLost`, `Starts`, `Reads`, `Opens`, `ConnackLate`, `ReadsConnack`), the
broker's answers, and `Tick`.

### IrReceiver

`rcvstate`, `timer`, `raw` are `irparams`. The interrupt is one action for each
case of its switch, and comes between any two statements of the main program
that touch `irparams`: `decode()` is three steps (copy the length, test the
state, decode), `resume()` two, `enableIRIn()` two. `Sampled` is the detector's
output, a mark or a space, and `held` how long it has really been there; an entry
of `raw` says whether its width is what was seen (`right`), or how it differs
(`under`, `over`, or `late` for a mark whose beginning was missed). Widths themselves
are compared, not stored.

`enableIRIn()` leaves the timer as it was when sending began (IRremote:306), so that a
short space may pass for a gap and a frame begin within a transmission. The model does
the same, and every property of the run is checked with such frames too.

The constant `Reenables` says whether the sketch calls `enableIRIn()` after
sending, as `IRrecord.pde` does and `MQTT_IR_8_1.ino` does not.

### MqttPacket

One packet after another through the one buffer. A byte is known by the packet it
belongs to and its place in it, so that the buffer shows which bytes are of an
earlier packet. `ReadHeader`, `ReadDigit` and `ReadBody` are `readPacket()`
(with `multiplier` modulo 256, `length` modulo 2^16 and `len` in their
widths), `Dispatches`, `Answers`, `Notes` and `IgnoresEmpty` the branches of `loop()`,
`Echoes` the `publish()` of the callback, with what it writes behind the end of the
buffer in `spill`.

The end of a packet that is too long is stored from the start of the buffer again, and
`loop()` takes it for whatever its first character looks like; 0 to 9, which the
parameters of a command consist of, are those of a PUBLISH. So `Shows` allows such an end
every kind, and `TopicLengths` every length of a topic unless the two bytes of the length
are where `loop()` looks for them. What `Dispatches` hands on then is cut out of the end
anywhere, and `PayloadLength` wraps when the topic is longer than what there is. Topic and
payload that have no room in the memory (`Memory`), and an echo that reaches the pointer
to the callback behind the buffer (`BeforeCallback`), lead to `astray`, where only a
reset helps: nothing can be said of what the board does there.

### RcCodewords and RcCommand

`RcCodewords` has the tables of RCSwitch, `WordA` to `WordD`, and what outlets of each
type listen to, `Listens`. That is written from the way their makers number addresses and
not from the tables, so that agreement of the two says something; where they disagree
an outlet does not hear its command.

In `RcCommand`, `command` is the text as a sequence of parts, `args` the part each
pointer points to, `word` and `left` what `sendTriState()` is sending, `panel` the state
of the outlets. `HandleCommand` is the parser, `SwitchA` to `SwitchD` and `NotFound`
the cases of `handle_rc()`, `Transmit` one repetition. What a pointer that was never
set, NULL, or the memory behind the command yields is chosen anew for each command
(`Unknown`); a NULL codeword sends nothing or the word of any outlet (`SendNull`).

### IrCodec

`key` are the parameters of `handle_ir()`, `line` the widths that are sent, `raw`
the entries of the frame that waits and `frame` where it began in `line`, `heard` what
`decode()` has returned for this key. `HandleIr` is the choice of the protocol with
the send function behind it, `Receives` what detector and interrupt make of the
line, `Decodes` one call of `decode()`.

`Pulse` collects the widths of a protocol in which each bit is a mark and a space,
so that `Body` stands for the loops of all of them; `LevelsRC5`, `LevelsRC6` and
`Joined` are the two phase protocols, where equal levels in a row join to one width
on the line and `Levels` takes them apart again. `Attempts` is the order in which
`decode()` tries, `FirstOf` its early returns. `Seen` is the detector: all marks of a
transmission too long by the same excess, all spaces too short by it, and each width
rounded up or down to ticks. `Junk` is what the buffer holds behind the frame, and the
memory behind the buffer, which `decodePanasonic()` and `decodeJVC()` may read.

A 32-bit value is the sequence of its bits and a hash the sequence of comparisons
it is computed from: equal sequences have equal hashes.

What the model shows besides the properties: a JVC code of 32 bits is always taken
for NEC, whose tolerances contain its widths, and one of 16 bits gets a hash, so
that `decodeJVC()` finds nothing but repetitions; a Panasonic code has 99 entries and
never fits into `RAWBUF`; the space in the header of DISH is longer than a gap and
ends the frame before the first bit.

Three lengths make a key `Ambiguous`: it is then read in one way or another as the widths
vary. Of 31 bits of NEC or JVC, `decodeJVC()` reads two entries behind the frame
(`ReadsPast`). A Sony code of less than 12 bits, too short for `decodeSony()`, that begins
with 0 may pass for RC6, whose header it resembles: two bits 0 are one bit of RC6 while the
marks are as they should be, and get a hash when they are 180 us too long (`ResemblesRC6`).
A Dish code of 17 bits has as many entries as a repetition of JVC, and its first and last
marks pass for those if they are 100 us too long (`ResemblesJVC`). Remote controls of these
protocols send no such lengths (Sony 12, 15 or 20, Dish 16), but the sketch's command
takes any.

### RcReceiver

`timings` is the array as far as it is filled, so that its length is `changeCount`.
`HandleInterrupt` is the interrupt, `Decode` the loop that the three decoders share,
`StartsFrame` to `EndsFrame` and `Noise` are what another transmitter with this library
and the rest of the world put on the air: each copy of a frame has its own `skew`, by
which its highs are too long and its lows too short. `Sends`, `PulseStarts` and
`PulseEnds` are `send()` and `transmit()`; a change that passes while the interrupt is
detached leaves its flag (`missed`), which is served when it is attached again
(`ServesFlag`), with a time that means nothing.

`whole` remembers that the copy on the air was served from its beginning. It is needed
because the code itself receives nothing: line 771 lets the decoders run only when there
is nothing to decode (`NothingReceived`). `FrameReadable` asks whether the buffer would
have been right, and it is.

### GatewayVersions

A version is a record: what its callback does, which transmitter `handle_command()`
chooses, and how it gets and keeps its session. `todo` is the script of steps a board has
still to do before `loop()` starts again; `Then` puts the steps of a function that is called
in front of the rest. `fleet` is chosen in the beginning: which versions are on the
boards, which commands users publish, and how many faults there are. `connect()` is
one step here, and no packet is cut in two: that is in `MqttGateway`. A broker has
sessions by client id, so that a board that connects ends the session of another with its
name (`Holders`) and has its will published.

What it shows besides the properties:

* RC_1, RC_1_1 and RC_2 connect in `setup()` only; nothing but a reset repairs a lost
  connection.
* RC_4-DEL and RC_3_WAN have the same client id on the same broker for two rooms: each
  connects and thereby disconnects the other, for ever. `Settles` excepts such boards.
* Only RC_4_1 has its "on" retained, and it sends three bytes, "on" and a NUL. Of all
  others a late subscriber learns "off" or nothing, even while they serve.
* The outlet of type 4 (REV) works from RC_2 to RC_4_1 and no longer in RC_5 and RC_6.
* Until RC_4_1 the fourth part of a command decides between infrared and radio, whatever
  its topic; from RC_5 on the topic does.

### WebServer and WebNetSetup

In `WebServer`, `conn` holds the characters pushed back, what is in the socket, and what
the client does after it; `sent` is all it sends, which may end anywhere, and then it is
gone or silent. `Expects` is an `expect()` that fails and puts back what it took
(`Rejected`), `GetRequest`, `HeaderLength`, `HeaderAuthorization`, `HeadersEnd` and
`HeaderCharacter` are what follows one that succeeds, `Command` is `dispatchCommand()`.
`WellFormed`, `HeadersOver` and `WithoutValue` say, of the text of a request alone, for which
requests `DispatchedRight` and `NotGivenUp` promise something.

`WebNetSetup` adds the sketch: `ram` is `eeprom_config` and `eeprom` the memory, both as 27
bytes. `Submits`, `TakesParameter`, `StartsStoring` and `WritesByte` are
`setupNetHTML()`, `Starts` is `setup()`, `LosesPower` comes at any time. `NextUrlParam`
(with codes, whatever is in them) and `Number` (with blanks, signs and "0x" as the C
library takes them) are the conversions, `ByteOf` says which byte a parameter sets and `FieldByte`
which byte a field shows; `Form` is what a browser sends when the form is submitted as it
is shown.

## 4. Runs

| run | what it asks | bounds | distinct states |
|---|---|---|---|
| `gateway` | subscribed and seen online whenever serving; implements `CommandChannel`; serves again after the last fault | 2 messages, 3 packets each way, 2 faults | 109,679 |
| `keepalive` | pings in time, notices silence within two intervals, gives up only unanswered pings, replaces dead connections | interval 3, 2 packets, ages to 9 | 1,129,017 |
| `ir_receiver` | buffer, length, stability, alternation, widths, and that it listens again | 7 entries, gap 3, timer modulo 6, marks of 2 | 33,617 |
| `packet` | in step, nothing that fits ignored and that handed whole, nothing of two packets handed together, overrun bounded for what fits | 8 messages and 3 other packets, 2 under way, buffer and digit of 16, lengths modulo 1024, memory of 200 | 71,577 |
| `ir_codec` | round trips, repetitions, one code per key, through detector and sampling | 84 keys, 4 excesses, 4 patterns of rounding, 2 rests in the buffer | 2,848 |
| `rc_command` | the addressed outlet switches and no other | 8 outlets, 24 commands, 2 repetitions | 45,184 |
| `rc_receiver` | no overrun, whole frames readable by their own decoder, nothing received, attached again after sending | 3 codes of 3 and 4 bits in 3 protocols, 2 skews, 2 widths of noise, 2 pulses | 458,890 |
| `web_setup` | nothing of a request lost or mixed, own credentials, right command, the server comes back, settings stored and shown right | 8 requests cut anywhere, 2 events (clients, losses of power) | 955,972 |
| `versions` | no stale "on" retained, that of RC_4_1 while it serves, newest command kept; right transmitter, serves again, implements `CommandChannel` | 10 versions alone with 3 faults or 7 commands, 4 pairs with 1 fault, 1 message waiting | 196,814 |

Each of the other runs looks at one sentence of the documentation or the comments
that the code does not keep, and ends in a counterexample:

| run | the sentence | what happens |
|---|---|---|
| `ir_deaf_after_send` | signals are received and commands sent (`Changelog-MQTT.txt:68-69`) | `MQTT_IR_8_1.ino` never enables the receiver again |
| `rc_rev` | "typ must be 1,2,3 or 4" (sketch:200) | type 4 calls the form for type A; the outlet hears nothing |
| `setup_torn` | "This settings are used when no config is present" (set-up sketch:107) | `config_set` is written first; when the power is lost while the defaults are written, the next start works with what is there |

Other sentences that the models contradict, without a run of their own:

* The acknowledgement comes after the action (`MQTT-Befehlskette.txt:12-19`): `callback()`
  publishes `.../last` before `handle_command()` (`CallbackEchoes`, `Echoes`).
* "This will cause the packet to be ignored." (client library:141): only a packet that is one
  byte too long is ignored, or one and a multiple of 129; the last bytes of others are taken
  for a packet, and the callback may be called with a piece of them (`NeverMixed` says with
  which).
* "First entry is the SPACE between transmissions." (IRremote:326): an interrupt within
  `resume()` may lose it (the exception in `RawAlternates`).
* "As soon as first MARK arrives, gap width is recorded" (IRremote:328): the timer wraps in
  a long gap, and a mark soon after the wrap is ignored.

### Why the bounds are enough

* `gateway`: every place of the sketch can be reached with a fault already
  behind it, and a second fault strikes the repair of the first. Three packets
  each way are the status and both subscriptions, and an answer with two commands.
  The two messages are one with a handler and one on a topic that only the filter
  matches.
* `keepalive`: with an interval of 3, a ping, its answer and the next ping fall
  into different ticks in every order, and twice the interval and its tick are
  below the limit up to which ages are counted.
* `ir_receiver`: seven entries hold two marks and two spaces behind the gap and
  then overflow; the timer wraps in a gap of two lengths.
* `packet`: lengths around every boundary (an echo that just fits and one that does
  not; the longest packet that fits; too long by one byte, by two, by a whole buffer and
  by one more) with one and with two digits. Of an end that is dispatched every length of a
  topic is tried, so that topic and payload lie within the buffer, reach behind it, or are
  more than there is memory.
* `ir_codec`: for each protocol all bits alike, alternating, in pairs (both kinds of
  joined levels) and mixed, with the usual number of bits and those on either side
  of a limit (11 and 12 for Sony and RC5, 3 and 4 for RC6, 31 and 32 for JVC and NEC).
  The excess reaches from none to 180 us; from 195 us on the short spaces of RC6 may
  leave their tolerance. Rounding reaches its extremes with all entries up or down,
  and two mixed patterns make neighbours differ. That nothing lies between is proved.
* `rc_command`: outlets that differ in the group, the device, the family, or in the
  order of group and device; two of them share a codeword for off with an outlet of
  another type. Two repetitions show one before and one after the first hearing.

* `rc_receiver`: an `unsigned long` of four bits, so that a frame of four has as many bits as
  it, as 32 in the program; 11 entries are to four bits what 67 are to 32. The codes are
  one that loses its first bit, one that fits, and one that has more digits than bits. Of
  the widths of noise one is below the sync and one above. The skews of two per cent
  are the most the code bears: at three the long low of protocol 3 is further than 0.6
  pulse lengths from its place, when the sync before was skewed the other way.
* `web_setup`: every request is cut at each of its characters, the long one around its
  end; the requests hold each method word that is known or not, both headers, one
  that begins like one, a path longer than that of a page, a coded digit, a parameter
  without a number and a URL that does not fit. Two events are a loss of power at every
  byte before or after a client, and a second client after the first.
* `versions`: each version alone with three faults, so that a fault strikes the repair of a
  repair; the commands are one for infrared, one for each fixed outlet, off and on, and one
  of the later format. The pairs are one name in two rooms, one name in one room, and two
  names in one room and in two.

### Fairness

`gateway`: `loop()` runs for ever, so an enabled step of the sketch is
taken (weak fairness of its steps together; it is one thread). A timeout on a dead
connection expires (client library:97-103, 151), one on a good connection may or
may not. The broker answers, and notices sessions whose connection is gone. No
fairness of users, faults, or refusals; faults are finitely many, which is the
premise "after the last fault".
`keepalive`: the client's loop and time go on. Ticks are not bounded by anything but
`Limit`, at which ages stay.
`ir_receiver`: the main program goes on although interrupts come between its
statements: the interrupt takes a few microseconds of every 50.
`versions`: `loop()` of each board runs for ever, and a broker notices a session without a
connection. Nothing is assumed of users and faults.
The other runs state safety only. That the web server comes back from every client is
`RoundsEnd`, a measure that every step of its loops makes smaller, and needs no fairness.

Deadlock is checked in every run but `web_setup` and `setup_torn`, which stop after their
bounded number of events, and where `readHeader()` really waits for ever when a client
leaves within the line of its credentials.

## 5. Proofs

All theorems hold for every value of the constants that satisfies the named
assumptions in the modules.

| module | theorem | statement |
|---|---|---|
| `MqttGateway_proofs` | `TypeCorrect` | types; the copy exists exactly while the callback needs it |
| | `InForce` | `RequestsInForce` |
| | `ServedAndSeen`, `SeenOnline` | `ServingMeansSubscribed` and `StatusFollowsSession` |
| | `StepsImplementChannel` | initial states and steps are those of `CommandChannel` |
| `PubSubClient_proofs` | `KeepsStep` | of `MqttPacket`, for every packet: `InStep` |
| | `Whole`, `NothingFittingIgnored`, `OverrunBounded` | for packets that fit the buffer: handed whole; none ignored; the echo overruns by at most six bytes. For the others: never handed bytes of two packets (`NeverMixed`, a part of `HandedWhole`) |
| | `Honest` | of `KeepAlive`: `StampsHonest` |
| | `PromiseKept`, `SilenceNoticed`, `OnlyUnansweredGivenUp` | the three promises of `loop()` |
| `IrReceiver_proofs` | `TypeCorrect` | the buffer is never overrun |
| | `LengthTrusted`, `FrameLeftAlone` | the frame in use and its length stay as they are |
| | `Alternates`, `Widths` | what the buffer holds |
| `IrCodec_proofs` | `AlwaysPulseRoundTrip` | `PulseRoundTrip`: every value, excess, rounding and rest in the buffer |
| | `AlwaysBiphaseRoundTrip` | `BiphaseRoundTrip`: the same for RC5 and RC6 |
| | `AlwaysRepeatsRecognised` | `RepeatsRecognised`: the repetitions of JVC |
| | `AlwaysSameCode` | `SameKeySameCode`: one code for every key that is not `Ambiguous` |
| `RcSwitch_proofs` | `WordsDistinct` | no two outlets share a word, but for off of two types |
| | `TypeCorrect`, `AlwaysAddressedSwitches`, `AlwaysOthersStay` | of `RcCommand`: the addressed outlet switches, no other |
| | `ReceiverTypeCorrect` | of `RcReceiver`: `handleInterrupt()` stays within `timings` |
| | `NeverReceives`, `SendingRearms` | `NothingReceived`; `ReceiverRearmed` |
| | `FramesAreReadable` | `FrameReadable`: by the decoder of its protocol, by no other |
| `GatewayVersions_proofs` | `AlwaysMeantTransmitter` | `MeantTransmitter` |
| | `AlwaysToldRight` | `LateSubscribersToldRight` |
| | `StepsImplementChannels` | initial states and steps are those of `CommandChannel`, for both boards |
| `WebNetSetup_proofs` | `StreamIsKept`, `CredentialsAreOwn` | nothing of a request is lost or doubled; credentials are those of this request |
| | `DispatchedIsRight`, `NeverGivenUp` | the command of the path runs; who sends a whole request gets an answer |
| | `RoundsDoEnd` | `RoundsEnd` |
| | `SettingsAreStored` | `SettingsStored` |
| | `FormIsUnchanged` | `FormUnchanged`: whatever the settings are, the form shown and sent as it is keeps them, and its URL fits |

### Counting (`Induction`)

Many proofs are about a loop of any length: texts, bits, levels, queues. The induction
theorems of the library take a predicate, which the provers here cannot instantiate.
`SetInduction` is about a set instead: one that has 0 and, with each number below `n`, the
next, has all of `0..n`; otherwise the numbers up to a missing one could be mapped to fewer.
From it follow `LeastElement` (where a loop stops), `Recursion` (a function that is defined by
its value at 0 and each value by the one before exists, so that its equation may be used),
`FlattenIs` and `FlattenPlaces` (what a `FlattenSeq` is, and where its parts stand).

### The arguments

* **Gateway.** `ServingMeansSubscribed` is not inductive: a subscription is made by
  a packet sent long before. `RequestsInForce` says, for each place of the sketch,
  that what has been asked of the broker is in force or still on its way in `tx`;
  when `tx` is empty it is in force. Writing adds to the end, the broker takes from
  the front, so that a packet under way is lost only with the connection, and then
  nothing is claimed. The broker's session is live only while the link is up, which
  is why a late will cannot overtake the "on" of a new session.
* **Gateway as a channel.** What waits is what the callback is at work on and, behind it, the
  commands in complete packets, `CommandsIn(rx)`, a flattening of one or no command for each
  packet, so that the flattening of a queue with more at its end is the old one with more at its
  end (`CommandsConcat`). `Moves`: every step adds commands behind those that wait, drops the
  newest, or hands on the oldest. What the callback has when it comes to `handle_command()` is
  what it was given, by the type invariant.
* **Keep-alive.** The client reckons with stamps that are not what they say: a ping
  is stamped as input, a packet with the time before it was read. `StampsHonest`
  bounds the error of each: without a ping outstanding the input stamp is not newer
  than the last input; with one it is off by an interval and a tick at most.
  The promises follow from it and the guards of `loop()`. No tick passes while a
  guard of `loop()` that leads to action is true and the client is in `loop()`: a
  tick is longer than one turn of the loop.
* **Infrared receiver.** `LengthInv`: the interrupt that makes a frame ready records
  nothing, and one that finds it ready changes nothing, so a stale copy of the length
  implies a test that fails. `SenseInv` relates the state to the line, `TimerInv`
  the timer to how long the level has been there; `WidthInv` follows. Interrupts
  within `resume()` are the hard case, and the reason for the exceptions in
  `WidthsRight`.
* **Infrared codecs.** Each bit of a pulse code has its own place in the line and in the
  buffer, so that a value of any length is decoded without counting. `LineWidths` says what stands
  where on the line, `TickBounds` how far a tick count is from it, `WholeLine` that no
  space of a code counts as a gap, hence the frame is the whole line, and
  `DecoderFinds` puts them together. `MarksMatch` and `SpacesMatch` are the arithmetic:
  which widths match themselves, and which must not be taken for one another, for
  every excess up to 180 us. `FirstSucceeds` with the lemma of each protocol gives
  what the chain returns. The invariant adds to the promises (`Promised`) that a waiting
  frame is a recording of what was sent for the key.
* **Phase codes.** A bit of RC5 or RC6 has no place of its own: where it stands depends on
  how many equal levels before it were joined. Both ways are counted level by level:
  `Covers` says which levels a unit of the line stands for while they are joined,
  `LevelsPlaces` and `LevelsBack` that taking the widths apart gives the same levels
  again, but for spaces at the end (`SameLevels`), which are the silence behind the
  line. At most two levels of RC5 and three of RC6 are alike (`RunsShort`), so that each width is
  taken for as many levels as it was sent for (`AvailRC5`, `AvailRC6`). That no decoder before
  them takes such a line follows from its first mark or space.
* **Repetitions.** That of JVC begins at once with a bit, whose mark is too short for any
  header; `decodeRC5()` may begin with such a mark, but finds a level of space where it looks
  for the second mark.
* **One code per key.** `CodeInv` keeps for every frame heard of which recording it was the
  result (`HeardOf`); `KeyHasOneCode` says that two recordings of one frame have one result.
  For some keys a decoder surely takes what is received, not always the right one
  (`JVCLikeNEC`). For the others every decoder surely refuses it, whatever the widths became
  (`ShortMarkNone`, `ShortSonyNone`, `SecondLevel`), and the hash decides. `HashIs` computes
  it from the widths as sent: any two marks of a protocol, and any two spaces, are equal or so
  far apart (`Apart`: 5a + 621 < 4b, in us) that `Compare` gives the same for all that
  the detector and the sampling can make of them (`NearCompare`). `ResemblesRC6` and
  `ResemblesJVC` were found where this argument failed, and TLC confirms them: with a key of
  such a length, and without the exception, the property is violated.
* **Packets.** `Inv` consists of `Typed`, `Walk` (where in the packet the reader is,
  and what `length` and `multiplier` are there), `Stored` (which bytes the buffer
  holds, those from `len` on being of no interest) and `Handed`. The end of a packet that is too
  long stands in the buffer from the start and without a gap, and `len` ends with it: a topic
  and a payload from place 4 to `len` are therefore a piece of it, whatever the length between
  them is (`HandedNotMixed`); if the topic alone reaches behind `len`, the payload's length wraps and
  the two have no room in the memory. It needs `ShortLengths`: every packet's length takes at
  most two digits, below 16384 bytes; with three `multiplier` is 0 and the claim
  false.
* **Outlets.** `Inv` says the arguments of a complete command are its parts
  (`Parsed`), the word being sent is what the outlet listens to (`WordRight`), and
  after one repetition the outlet has obeyed (`Heard`). `WordRight` rests on
  `WordAFits`, `WordBFits`, `WordCFits`: the three tables agree with `Listens` for
  every address. That other outlets stay is `WordsDistinct`, by the types of the
  two outlets. The exception is real: the word of type A for off has "F" in the
  eleventh place and "0" in the twelfth, as the words of the types B and C for off
  have, so that an outlet of each may share it.

* **433 MHz receiver.** `ReceiverInv` adds to the type that an interrupt taken away is in `backup`,
  and that the decoders have only been called with nothing: with `changeCount` 0 each of
  them has an empty product of bits, whatever the first width is. `ReceiverRearmed`
  follows from the first: `enableReceive()` returns without effect unless `backup` holds
  the number.
* **Frames at 433 MHz.** `FrameInv`: while the interrupt has served a copy from its start, the
  buffer holds what has passed of it since the sync before, each width longer or shorter by
  its skew. When the copy is over, the decoder of its protocol takes each pair for the digit it
  was sent for, and those of the other protocols take no pair for a one (`PairsTold1` to
  `PairsTold3`: interval arithmetic over the skews of this copy and of the one before, from
  whose sync the pulse length is computed); they fail or read 0, which is not offered. The
  digits and the value are counted turn by turn of the two loops, as numbers of any
  length, modulo the width of `unsigned long`.
* **Web server.** `StreamInv`: what was pushed back and what is in the socket are together the
  end of what was sent, and the pushback never overflows, since every word is shorter
  and `expect()` puts back no more than it took. `RoundsDoEnd` follows from what is left to read. For
  `DispatchedRight`, `LineInv` says that the request begins with none of the words tried so
  far, and what is stored of its URL; the loop of `getRequest()` stops at the least place
  with a blank or the end of the line. For `NotGivenUp`, `AliveInv` says that the end of the
  headers is still to come while headers are read: the carriage return it begins with is in no
  other word, so that none reaches into it (`NoPart`). `SettingsInv`: while settings are
  written the bytes below `at` are those of `eeprom_config`, and at rest all are.
* **The form.** `Bytewise`: settings, memory and requests are bytes and texts whatever the
  power does, so that it is enough to look at one form. A printed number is read as itself
  (`PrintedIs` and `UnsignedIs`: both are computed digit by digit, printing from the lowest and
  parsing from the highest; `UnsignedAppend` joins them) and has none of the signs that mean something in a URL
  (`ShowsClean`), so that `nextURLparam()` returns each field as it was written (`ParamRead`).
  `Form` puts the fields one behind the other and the sketch takes them off the front:
  `FormBuilds` says what the text is, seen from its end, `FormTrails` what is left of
  it after each field, and `TrailAnds` that the number of signs `&` is that of the fields.
  `FormKeeps` goes through the fields in their order: each sets the byte it shows to what it
  shows. `FormLength` adds up the longest fields.
* **Versions.** `Delivered`: what a board has waiting, at work and handled are commands of its
  fleet for its room, and what was sent is what its version makes of the last one
  (`Dispatching`); `FixedWords` compares the four fixed calls with what those outlets listen
  to. `Scripted`: a board is at one of twelve places of its scripts, and has a message at work
  exactly between reading and handling it; without this a read could overwrite
  one. With `Linked` (a connection that is up has a live session, and a client has at most
  one) every step of either board is one of the command channel or a stutter. For
  `LateSubscribersToldRight`, `NoneLeftBehind` and `KeptOn` say whose word the retained
  status is: whenever the session behind it ends, a will takes it back, and two boards at
  the place of an RC_4_1 are one client, so that no other will can hit it. `LastKept` says
  that without a fault what is about to be handled is already on `.../last`.

### What the theorems assume

The constants satisfy the named assumptions of the modules, which TLC evaluates for the
values of the runs. Those that are more than types:

* `MqttPacket`, `ShortLengths`: no length of three digits; with one, `multiplier` is 0.
* `MqttPacket`, `MemoryAssumption`: the memory of the board is larger than the buffer and smaller,
  by more than four bytes, than what 16 bits count (an Arduino has a few thousand bytes).
* `RcReceiver`: the frames sent fit into `timings` and their digits into an `unsigned int`
  (`FramesFit`, `DigitsFit`; a sketch could call `send()` with more bits, and then the frame
  cannot be read); the highs are longer or shorter by at most two per cent (`SkewsAssumption`,
  with three the claim is false, see the bounds); the sync limit and the width of an `unsigned
  int` lie where the pulse lengths of the library need them (`WidthsTold`; 5000 and 65536 in
  the code); an `unsigned long` is even in number (`UlongEven`).
* `WebServer`, `PatternsAssumption`: the words that `expect()` is called with are shorter than
  the pushback (32 in the code), only the one for the end of the headers has a carriage
  return in it, as its first character, and no method has a "/" in it, with which a path
  begins.
* `WebNetSetup`, `FormAssumption`: names, values and the longest URL of the form fit into what they are
  read into (`NAMELEN` 5, `VALUELEN` 7, and 200 characters in the sketch, whose page has a
  name of 13).
* `IrCodec`, `CodecAssumption`: the excess of the marks is at most 180 us, and a key has at
  most 48 bits, 32 where the send function first shifts the value by 32 less their number.

`DispatchedRight` speaks of requests as HTTP has them (`WellFormed`), `NotGivenUp` of those whose
headers end (`HeadersOver`) and whose last header is not an `Authorization:` without a
value (`WithoutValue`); the server gives up others, as said in section 6.

### Only model-checked

* Liveness (`EventuallyServesOrWedged`, `DeadIsReplaced`, `HearsAgain`, `Settles`) and the
  progress part of `ImplementsChannel` and `ImplementChannels`, because fairness and ENABLED
  are beyond the prover. Their safety parts are `StepsImplementChannel` and
  `StepsImplementChannels`.

The type invariants of the other modules and `RequestsInForce` are proved and not run again.

## 6. What is not modelled

* Of the client library: `publish_P`, `disconnect` and credentials (no sketch uses them); ids of
  SUBSCRIBE packets (sent from the wrong bytes of the buffer, but nothing reads them);
  packets whose length takes three digits or more (`InStep` fails for them).
* Of packets longer than the buffer: what the board does once the lengths read from the end of
  one are more than there is memory, or its echo has written over the pointer to the callback
  (`astray` in `MqttPacket`); that an echo which stays below that may write over
  `lastInActivity` and `pingOutstanding`, which `KeepAlive` does not have; that such an end is
  handled as a command. `MqttGateway` and `GatewayVersions` have messages that fit.
* Of the sketches: a failed `malloc()`; numbers from 10 on and signs and blanks before a number in
  the `atoi()` of a radio command; `atoi()` and `atol()` of an infrared command's parameters; what `MQTT_IR_8_1`
  publishes of a received code (its last character is cut off, line 263); commands with
  missing parts in the earlier versions (`RcCommand` has them for RC_5 and RC_6).
* Of the codecs: `sendPanasonic` and `sendRaw`, which `handle_ir` does not call; the
  carrier; the arithmetic of the hash.
* Of RCSwitch: pulse lengths and tolerances of the outlets; the pulses of tri-state letters, which
  are pairs of those of `send0` and `send1`; `resetAvailable` and `disableReceive` as calls of
  a sketch; `nReceivedDelay`, which nothing reads.
* Of the web server: `readPOSTparam` and its counter, `UrlPathCommand` (the sketch uses neither),
  the output functions, the second answer that `robots.txt` and `favicon.ico` get, and the clock behind
  the time-out of `read()`. The model keeps what is odd in the rest: a URL cut by a lost
  connection is taken for whole, an `Authorization:` without a value swallows the end of its
  line, and at the end of the input `readHeader()` waits for ever.
* Of the set-up sketch: starting the network and renewing the lease. `renewDHCP()` multiplies the
  interval before it replaces 0 by 1 (line 269), so that 0 minutes renew in every pass of
  `loop()`; no state depends on it. The layout of the pages, `System.cpp`.
* `WEB_SD_MULTI_FORM_22`: a trial that `Web_Net_Setup` and the MQTT sketches replaced, whose
  parser is a cycle over one buffer with its own index (`req_index`, line 101); what is hard
  in it, requests that are broken off anywhere, is modelled of `WebServer.h`.
* `MQTT_IR_1` to `MQTT_IR_9_0`, for infrared only: their session is that of RC_1, their receiver
  that of `MQTT_IR_8_1`.
* `src/funk/IRremote.cpp` is a copy, byte for byte, of the library that is modelled;
  demonstrations, examples, scripts and web pages have no state of their own.
