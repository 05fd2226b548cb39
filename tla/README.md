# A verification project for wibmod

wibmod lets the DUNE DAQ configure warm interface boards (WIBs). A WIB powers
up to four front end mother boards (FEMBs), gives them the clock of the timing
system, and sends their data over DAQ links. The program runs as plugins of an
application framework, which calls one command at a time, and reaches the first
generation of boards (WIB1) by register reads and writes over UDP, the second
one (WIB2) by requests over ZMQ.

This directory holds TLA+ modules translated from the sources, TLC
configurations that check them on small instances, and theorems that TLAPS
proves for all instances.

## Inventory

| component | state it keeps | operations | talks to |
|---|---|---|---|
| `ProtoWIBConfigurator` (plugin) | pointer to a `WIB`, last settings | `do_conf`, `do_settings`, `do_scrap` (`do_start`, `do_stop` have empty bodies) | `WIB` |
| `WIB` reset, clock, links, stream (`WIB.cpp`, `WIB_DTS.cpp`, `WIB_FAKE_CD.cpp`) | none of its own but the DAQ mode; all state is in the board | `ResetWIB`, `ResetWIBAndCfgDTS`, `CheckedResetWIBAndCfgDTS`, `InitializeDTS`, `EnableDAQLink_Lite`, `FEMBPower`, `ConfigWIBFakeData`, `StartStreamToDAQ` | address table |
| `WIB` FEMB configuration (`WIB_FEMB.cpp`) | four tolerance flags; registers of FEMB and ASICs | `ConfigFEMB` with `SetupFEMBExtClock`, `SetupInternalPulser`, `SetupFPGAPulser`, `SetupFEMBASICs`; `ConfigFEMBFakeData`, `SetupASICPulserBits`; `TryFEMBPhases`, `HuntFEMBPhase`, `WriteFEMBPhase` | address table, register maps |
| ASIC register maps (`FE_ASIC_reg_mapping.cpp`, ...) | bytes | settings to the bits that are shifted into the ASICs | FEMB configuration |
| configuration flash (`WIB_Flash.cpp`) | the flash, its registers | `ProgramFlash`, `EraseFlash`, `CheckFlash`, `ReadFlash` | address table |
| clock chips, I2C (`WIB_SI5342.cpp`, `WIB_SI5344.cpp`, `WIBBase.cpp`) | chip registers | `LoadConfig`, `ReadI2C`, `WriteI2C` | address table |
| `AddressTable` | items by name | loading of table files that include each other; masked reads and writes by name or address | `BNL_UDP` |
| `BNL_UDP` (transport) | two sockets, the buffers behind them | `Read`, `Write`, `ReadWithRetry`, `WriteWithRetry`, `FlushSocket` | the board, over UDP |
| `WIBConfigurator` (plugin, WIB2) | a ZMQ request socket | `do_conf`, `check_timing`, `do_settings`, `do_scrap` | the server on the board |

Each level calls the one below it and waits; there are no threads or callbacks
inside. What makes the system hard is the other side. The board is an actor of
its own that keeps its registers when a command fails or the application dies,
so every command starts from whatever an earlier one left. Datagrams are lost,
delayed, duplicated. Chips and flash work at their own pace and are polled. An
exception may leave any sequence of register writes half done, and some
settings say that errors are to be tolerated.

What makes each component correct:

- *Transport*: a read returns a value of its own register and, if datagrams do
  not outlive their attempt, one that is not older than the request; an
  acknowledged write has been applied; calls end.
- *Configurator, reset, clock, stream*: while FEMBs are configured the slow
  control is asked not to disturb, no data flows, and the clock is the one of
  the settings, whatever was there before; a command that reports success has
  done what its settings say, except for failures they tolerate; commands end.
- *Phase search*: it finds phases at which the ADCs synchronise if there are
  any, takes the first of the list, and reports success only if it is true.
- *FEMB configuration*: when it succeeds the ASICs hold what was asked for and the
  FEMB streams that, whatever earlier calls left; a FEMB known to be wrong sends
  nothing; the slow control flag comes back unless the call is cut short.
- *Flash*: what has been checked is what the flash holds; a call does not
  disturb a command of an earlier call; calls end.
- *Clock chips*: a configuration reported as loaded is in the chip; the chip takes
  the bytes in order and on their pages, also with a transaction of an earlier
  load still at work.
- *Table loading*: a table holds what its files say, once for each way they are
  included, or there is no table; reading ends.
- *Masked and block access*: a write of an item changes its bits and no others,
  register by register, each wholly or not at all; a read returns no stale bits.
- *WIB2*: `conf` sends settings only after the timing endpoint was reported locked
  and succeeds only if it is so again; replies answer their own request.

`PROJECT.json` lists all components, also those left out, and under `hazards`
what can go wrong at which line.

## Modules

| module | models | checked by |
|---|---|---|
| `RegisterIO` | abstract specification: what one register access promises | property of `transport_prompt` |
| `BnlUdp` | `BNL_UDP.cpp` against a network and a board | `MCBnlUdp` |
| `BnlUdp_proofs` | theorems about `BnlUdp`, refinement of `RegisterIO` | tlapm |
| `ProtoWib` | `ProtoWIBConfigurator.cpp`, `WIB.cpp`, `WIB_DTS.cpp`, `WIB_FAKE_CD.cpp`, the outline of `ConfigFEMB` | `MCProtoWib` |
| `ProtoWib_proofs` | theorems about `ProtoWib` | tlapm |
| `FembPhase` | the search for clock phases within `ConfigFEMB` | `MCFembPhase` |
| `FembPhase_proofs` | theorems about `FembPhase` | tlapm |
| `Flash` | `WIB_Flash.cpp` against a flash that works by itself | `MCFlash` |
| `Flash_proofs` | theorems about `Flash` | tlapm |
| `ClockChip` | `WIB_SI5344.cpp` and `ReadI2C`, `WriteI2C` of `WIBBase.cpp` against an I2C controller that works by itself | `MCClockChip` |
| `ClockChip_proofs` | theorems about `ClockChip` | tlapm |
| `AsicMap` | the bits of the ASICs, from `SetupFEMBASICs` and the `*_reg_mapping` classes, and what the monitoring tables say they mean | through `FembConfig` |
| `FembCall` | abstract specification: what a caller sees of a call of `ConfigFEMB` and its companions | property of `femb_config` |
| `FembConfig` | `ConfigFEMB` and its set-ups, `ConfigFEMBFakeData`, `SetupASICPulserBits` | `MCFembConfig` |
| `FembConfig_proofs` | theorems about `AsicMap` and `FembConfig`, refinement of `FembCall` | tlapm |
| `AddressTable` | `AddressTable_IO.cpp` and the block write of `BNL_UDP.cpp`, over `RegisterIO` | `MCLoadedTable` |
| `TableLoad` | `AddressTable_fileIO.cpp`: loading a table | through `LoadedTable` |
| `LoadedTable` | both: operations on the items of a table that was loaded | `MCLoadedTable` |
| `LoadedTable_proofs` | theorems about `AddressTable`, `TableLoad` and `LoadedTable` | tlapm |
| `Wib2` | `WIBConfigurator.cpp` and `WIBCommon.hpp` against a server and a network | `MCWib2` |
| `Wib2_proofs` | theorems about `Wib2` | tlapm |

The modules compose by assumption and promise. `BnlUdp` implements
`RegisterIO`; `AddressTable` is built on an instance of `RegisterIO`, whose
register calls are its steps, and `LoadedTable` extends it with an instance of
`TableLoad`, whose names its operations look up. `ProtoWib`, `FembPhase`,
`FembConfig`, `Flash` and `ClockChip` take register accesses as `RegisterIO`
promises them: a read that succeeds is current, a write that fails may or may
not have been applied. `FembConfig` implements `FembCall`, whose steps are those of
`ProtoWib` for one FEMB: `ConfigFemb` is `Quieten`, `GiveUpFemb` is `Skip`,
`WriteFemb` is `Write` or, for a refusal, `GiveUp`, `ConfigBack` is `Restore`, and
an error in any of them is `Fail` or `GiveUp`. This last correspondence is by
reading, since `ProtoWib` has four FEMBs and other users of the flag. `FembConfig`
sees of `FembPhase` how it ends: synchronised, tolerated, or error
(`ToleratesAsAsked`). Of `ClockChip`, `ProtoWib` sees that the configuration of a
chip is loaded or throws. `Wib2` is a system of its own.

### BnlUdp

`wire` is the set of datagrams in flight, `rx` the replies in the receive
buffers of the two sockets, `call`, `left`, `pc` are the arguments, the
`retry_count` and the position of the running call. `Start` enters any of the
four calls, `Send` is `FlushSocket` and `send()`, `Receive` and `Timeout` are
`recv()` with the check of the echoed address, `BadReply` is the `catch` in the
retry loops, which retries all but the last time. `SendFails` is not caught by
them. `BoardRead`, `BoardWrite`, `BoardChange`, `Arrive`, `Lose` are the other
side. `held`, `seen`, `done`, `sent` are histories that properties refer to.
With `Late = FALSE` a datagram does not outlive the attempt that sent it.

### ProtoWib

`dev` holds the registers and the FEMBs of the board, `board` its firmware mode
and what its `CONTROL_REGISTER_RESET` clears (the sources do not say, so this is
a parameter), `wib` the `unique_ptr`, `pc` the position in the command, `saved`
the local `slow_control_dnd`, `i` the loop variable. The timing group is
kept as the register keeps it, in two bits (`GroupBits`), and `ClockReady` asks for
those. A step is a group of
register writes nothing else comes between. `Writes(mid, d, to)` says that it
succeeds and leaves the board in `d`, or throws and leaves it in one of the
states it passes through. `Crash` may come at any time: the application is gone
and the board is not. A command may begin in any state of the board another one,
complete or not, has left.

### FembPhase

A phase is two bytes with one bit for each ASIC; a byte is the set of ASICs
whose bit is 1. `good` says at which of the four positions of its two bits an
ASIC synchronises. `WriteOnce` is one turn of one of the four loops of
`WriteFEMBPhase`, `TryPhase`, `TrySync` and `ListFails` are `TryFEMBPhases`,
`HuntSync` is `HuntFEMBPhase`, and `NotSynced` is the decision of `ConfigFEMB`.
`faults` lets the FEMB ignore writes, or its ADCs gain and lose synchronisation
by themselves. Register accesses that throw end `ConfigFEMB`; that is in
`ProtoWib`.

### AsicMap and FembConfig

The bits of an ADC and an FE ASIC are one set of numbers below 288, in the order
they have in the FPGA's SPI registers. `ChipWord` packs them as the code does.
`ChipAsAsked` reads them with the tables alone: where a field is comes from
`ASIC_SPI_fine.adt`, what its values mean from `ASIC_SPI_monitor.adt`, and what
was asked for from the comment above `ConfigFEMB`, so that code and tables check
each other. Where they disagree (the numbering of the channels, the leakage
current, see Disagreements) it says what both can agree on: the baseline when it
is the same for all channels, the factor of the leakage, and the current where
one reading of the bits fits both. Settings keep their width:
`SetupFEMBASICs` takes the last 8 bits of what it is given (`Byte`), so 256 is
accepted as 0; nothing documents such a value, and `AsicsAsAsked` leaves it out.

`femb` holds the registers of the FEMB (`win` are the SPI registers) and what is
in its ASICs (`chip`). A call goes from `Call` by `pc`: `Save` of the slow
control flag, `Check` that the FEMB can be read, `Reset`, clock, ASIC reset,
pulser and arguments, then for each SPI pass stream off, `Load` of the SPI
registers, `Program`, stream on, in the last pass after `Verify`, and at the end
`Sync` and `Back`. `SetupASICPulserBits` starts at the passes and reads the
registers it changes. `Writes(mid, f, p)` is a group of writes, which may throw
in any state in between; with `"write"` in `faults` the FEMB may stay in any of
these although all are acknowledged, with `"spi"` any ASIC may miss a pass, and
with `"read"` what is read back says nothing.

`FembCall` forgets the registers. Its `phase` is the part of a call `pc` is in
(`PhaseOfCall`): the flag still to be set, set with the FEMB as it was, the FEMB
being written, all written with or without tolerated errors. Its steps say what
each outcome means for the FEMB and the flag: `skipped` and `unreadable` leave the
FEMB untouched, `degraded` needs a tolerance of the caller, only `ok` and `degraded`
are sure to give the flag back, and nothing is written to the FEMB while the flag is
not set, except by `SetupASICPulserBits`, which ignores it.

### Flash

`mem` and `busy` are the flash, `addr`, `size`, `buf` the `FLASH` registers of
the WIB. `FlashDone` happens at any time after a command is started and may
spoil what the command wrote, with an error bit nobody reads. `todo` is the list
of phases a call still has to go through, `pc`, `idx` and `tries` say where in
the phase it is. Sizes are in words of 32 bits. Commands have names; `RunCode` is
what the code writes for each. That the flash reads at 0x5 is an assumption
(see Disagreements).

### ClockChip

`chip` and `chipPage` are the registers of the chip, `i2c`, `work`, `rd` and
`error` the controller: what it is to do, what it is doing, and what came of it.
`Transfer` ends a transaction at any time. The sources do not say whether the
controller keeps its registers when it starts and whether its reset stops it, so
it may or may not. `SetRw` to `Clear` are `ReadI2C` and `WriteI2C`, called with
`op`; `PageRead`, `PageSet`, `Written`, `Retry` are `LoadConfigDTS_SI5344`, with
`i` one more than `iWrite`; `Tune` and `Tuned` are the write in the alignment
loop of `InitializeDTS`. `AccessFails` is an access that throws (before it or
after it has been applied), or the end of the application. `BYTE_COUNT` is
always 1 here. `LoadConfigDAQ_SI5342` is the same code with other names.

### AddressTable

`reg`, `call`, `seen`, `done`, `out` belong to the instance `IO` of `RegisterIO`
and change only by its actions. `op` is one call of `AddressTable`: a read, a
write of an item, or a block; `i` is `iWrite`, `address` and `building` are the
address and the word in hand. `Begin` is everything before the first register
call, with the two errors that refuse an operation; `Enter` calls the
transport, `ReadReturns`, `WriteReturns` and `CallFails` are what follows when
it returns or throws. A word is the set of its bits that are 1 and a value is
given in place, so `Merge` and `Field` are the masking without the shifts.
`before` and `moved` are histories: the registers when the operation began, and
the bits the board has changed by itself since. What the properties say of a
register they say of the other bits: a masked write overwrites with the old
value what the board changes between its read and its write.

### TableLoad and LoadedTable

`stack` are the nested calls of `LoadFile`, each with its line, the prefix of
names and the offset of addresses it was included with; `names` is
`nameItemMap`. `ProcessLine` takes a line apart; an exception leaves no table. A
line that does not fit the buffer puts the stream into a state in which the loop
goes on forever (`Spin`). `Meaning` and `Faults` say what the files contain
without reading them in order: for each way through the includes to a line. Names
are sequences of their parts, and numbers are given, not their digits; that a
token is no number is `malformed`. The bits of a mask are given in place, so the
shift the code computes from it does not appear. In `LoadedTable` the operations of
`AddressTable` take their items from `names`.

### Wib2

`wire` holds requests and replies with the socket they belong to, `socks` counts
the sockets `do_conf` has made, and `waiting` says that the present one may not
send. `queued` is the socket whose request has not left the application yet
(`Leaves`): when a socket is closed, by `scrap` or by a `conf` that makes a new one,
the destructor waits for that request (`Close`, `Closed`), since `ZMQ_LINGER` is
not set. `pc` is the reply `send_command` waits for. `TimingReply`, `ResetReply` and
`SettingsReply` are what `check_timing` and `do_settings` do when it is there. A
reply that cannot be parsed leaves the message empty, which the code does not
notice: no lock, no success. `Serve` is the server, with `AnswerTiming` to
`NoReply`; `Disconnect` loses messages, `Restart` also settings, `LockChanges` the
lock. The wait itself has no timeout; a signal ends it (`Interrupted`), and the
socket can then not be used again, since the flag stays. `took`, `lockSeen` and
`disturbed` are histories. The server is external: what it may do is what the
code can receive.

## Runs

| run | instance | shows |
|---|---|---|
| `transport_late` | 2 addresses, 2 values, 2 attempts, 2 datagrams in the network and in the sockets, which may arrive at any later time | `ReadWasHeld`: a read never returns what its register never had |
| `transport_prompt` | the same, but no datagram outlives its attempt | `KeepsPromise` (refinement of `RegisterIO`), `CallsEnd` |
| `configure` | 2 FEMBs, 5 settings, 3 boards, any sequence of commands, failures, crashes | `QuietWhileConfiguring`, `DataPathDown`, `ClockReady`, `SettingsDone`, `ScrapDone`, `CommandEnds` |
| `phases` | 2 ASICs, 2 tries of a write, an empty list and one of two phases, every `good` | `FirstThatWorks`, `HuntFinds`, `SyncedForReal`, `SearchEnds` |
| `femb_config` | 2 ASICs of different wire planes, 7 settings, 2 kinds of fake data, any 2 calls, 3 sets of faults | `AsicsAsAsked`, `SourceAsAsked`, `PulserOnly`, `KeepsToCall` (refinement of `FembCall`) |
| `flash` | 2 pages of 2 words, 4 images, 2 polls, 2 writes of a register | `ChecksOut`, `ReadsAll`, `BufferHeld`, `EndsUnlessShort` |
| `clock_chip` | 3 byte values, a list that changes pages and writes a register twice, one on a single page; 2 tries, 2 writes of a register | `Loaded`, `OnlyWhatIsDue`, `EndsIfI2cDoes` |
| `masked` | 10 sets of table files, one right and nine with a fault each; then 2 registers of 2 bits, a read and a write of one bit, a block that is refused, a block of two that runs past the last address, a name nobody knows | `AsTheFilesSay`, `LoadEnds`, `AllOrNothing`, `ReadIsCurrent` |
| `wib2` | 2 settings that differ in every FEMB, 3 sockets, any sequence of commands, crashes, lost messages, restarts of the server | `SettingsTaken`, `LockedAround`, `OwnReply`, `EndsIfAnswered` |
| `misspelt_name`, `group_truncated`, `flash_short` | settings or data that lead there | the findings below, one each |

Why the bounds are enough to see the interesting cases:

- Two addresses are needed for a reply to the wrong request, two values for a
  stale one, two attempts for the first and the last turn of the retry loop, two
  datagrams for reordering and for an original and its duplicate.
- Two FEMBs give the loop a first and a last turn, one that fails and one that
  does not. The five settings take both resets, both clocks, real and fake data,
  FEMBs not enabled, all errors tolerated and none, and each argument check. One
  board keeps nearly everything in a reset, one clears everything, one has an
  unknown mode.
- Two ASICs may differ in which of them is in step and in how often each has
  been changed. What the four positions of an ASIC are called is arbitrary, so
  the first phase of a list may be fixed. A list of two has a first and a last.
  The tries of a write are 10 in the code; 2 have a first, a last and a give-up.
- ASICs 0 and 2 have their collection wires on different channels. The settings
  differ in every field, take both clocks, no pulser and both, the highest
  amplitude that is taken and the lowest that is refused, a gain and a pulser mode
  out of range, a shaping time that does not fit in 8 bits, all errors tolerated and none. Two calls (`MaxCalls`) are one that
  leaves something and one that meets it. Writes of SPI registers may stop (`Stops`)
  in the middle or at the last register of an ASIC. The ASICs may miss passes in
  each of the three sets of `Faults`.
- The right table files include a file at three places, one of them two levels
  deep and past the last address. The faults are one for each exception, an
  include without end (`MAX_FILE_LEVEL` is 10 in the code, `MaxFileLevel` 2
  here), and an overlong line.
- Three sockets (`Sockets`) are one in use and two that are abandoned, with requests
  that still arrive. A request and a reply are never more than one for each.
- Two pages of two words make a word, a page, and the end of the flash different
  things. The images fill the flash, have a gap, are a word short and too long.
  An image that is shorter than the flash by whole pages meets the same block of
  size 0.
- Two registers make a block that wraps at the end of the address space and
  leaves no register out, so that a failure between its words shows; two bits are
  one inside and one outside of an item. An item of a whole register is written
  by the same path as a block of one word.
- Three bytes are the page register and two others. The two lists differ in
  their first page, so a remainder of one can be on the wrong page for the other;
  two tries have a first and a last.

The bounds are constants (`Capacity` of `BnlUdp`, `RetryCount`, `PhaseTries`,
`NumFemb`, `MaxCalls`, `Sockets`, ...); nothing else is capped. Symmetry is used in `transport_late`
only, where no liveness is checked.

### Fairness

The framework calls a command and the thread runs it to its end, so the steps of
the command are weakly fair: `WF(Client)`, `WF(Step)`, `WF(Proceed)`, `WF(Load)` and,
where nothing else takes steps, `WF(Next)`. `FembConfig` has no loops but two over
passes and rounds, and no liveness property. `Client` contains the receive timeout (`SO_RCVTIMEO`),
so a silent board ends an attempt. Nothing is assumed of networks, boards,
ADCs, flash, controllers and servers; `EndsIfI2cDoes` and `EndsIfAnswered` have their
premises in the property, since the polls of `DONE`, the wait for a reply and that
for an unsent request have no timeout, and `LoadEnds` excepts the overlong line. In `ClockChip` the access that fails
is outside of the fair steps, so that an endless poll is not ended by an error.
That commands begin is not assumed either. `CommandEnds` leaves
out the alignment loop of `InitializeDTS`: its timeout is 0, which means none, so
only the timing system can end it.

## Proofs

All theorems are about the specifications the runs check, for all values of the
constants under the named assumptions of each module; TLC evaluates those
assumptions in the passing runs.

**`BnlUdp_proofs`.** `TypeCorrect` from `RetryAssumption`. `ReadsAreHeld` needs
that every reply under way, on the wire or in a socket, carries a value its
register has had: a read takes its value from the board, and write and read
replies stay apart because their ports do. `TransportKeepsPromise` says
`Spec => KeepsPromise` if `Late = FALSE`. Its invariant adds that every request
on the wire is the current one, that every reply under way on the port of the
call carries a value of `seen` if it has the called address, and that an
acknowledgement under way means `done`. Each step of `BnlUdp` is then a step of
`RegisterIO` or a stutter.

**`ProtoWib_proofs`.** `Inv` is `TypeOK` and, for each position `pc`, what the
command has established by then: `QuietInv` about the flag and its saved copy,
`PathInv` about links and streams, `ClockInv` about the clock registers, one by
one as the steps set them, `IndexInv` about the loop variable. The properties
only speak of the end of these sequences and are not inductive. `StaysQuiet`,
`PathStaysDown` and `ClockStaysReady` follow from `Inv` for any number of FEMBs,
any settings and any boards.

`SettingsAreDone` (of the FEMBs that are enabled) and `ScrapIsDone` need a second invariant, `DoneInv`, inductive
relative to `Inv`. It divides the command into what comes before the loop over
the FEMBs, the loop, and the start of the stream. Before the loop no FEMB may be
in one of the states that configure it (`Fresh`): that is what makes a FEMB found
configured at the end one that this command has configured, not one an earlier
command has left. `Begin` marks what is left over, the reset and the power-on
clear it or leave it marked. In the loop the FEMBs before `i` are set up and the
others fresh; a write that is cut short leaves neither, but then the command
throws and `out` is not `"configured"`. After the loop nothing touches a FEMB, and
links, sources and converts follow one step at a time.

**`FembPhase_proofs`.** `Inv` has `Control` (what the position says about the
other variables), `Written` (on a faultless FEMB, which of the loops of
`WriteFEMBPhase` have left which byte in the registers: although the fourth loop
looks at the wrong register, after it both bytes are there), `Known` (which
phases of the list have been seen to fail) and `Tried` (which positions of an
ASIC have been seen to fail after how many changes). `HuntSucceeds` is the one
with an argument: the first count is spent on the last phase of the list, not on
the phase in hand, and it takes all of five counts to see four positions. It
holds for any number of ASICs, each of which is changed at its own times.
`OnlyTheSlipGivesUp` is about the give-ups: on a faultless FEMB, whatever the list,
no loop but the fourth can end without reading back what it wrote, and that one
does so only when the two bytes of the phase differ.

**`FembConfig_proofs`.** `MapIsRight` is about the register maps alone: for any
settings the comment above `ConfigFEMB` documents and any ASIC, the fields of the
tables hold what was asked for (`ChipAsAsked`). It goes through the positions of the 288 bits by arithmetic (`WordOfChannel`,
`WordOfGlobal`) and through the values of each field by cases. The rest follows a
call: `Control` says which steps a kind of call may be at, `Held` that what has been
read back well is what the ASICs hold, `Quiet` when the stream is off, `Flag` where
the slow control flag is on its way, `Source` what has been set up, and `PulserHeld`
what the registers and `vals` have in common while `SetupASICPulserBits` runs. All
properties of `femb_config` follow, for any ASICs, settings, numbers of calls and
faults; `MismatchSilences` is the half of `SourceAsAsked` about a FEMB whose ASICs
did not take what they should. `PulserOnly` speaks of the registers and of what the
passes shift in: all nine registers go into the ASICs, so an ASIC becomes what its
registers have held since before the call, but for the source. `CallsKeepToFembCall` is the refinement:
with `Flag`, and with `Warned`, by which an error is passed over only on request, each
step is a step of `FembCall` or a stutter. `DndRestored` is a consequence, proved from
`Flag` by itself; that the FEMB is written undisturbed (`WrittenUndisturbed`) is read
off the steps of `FembCall`.

**`Wib2_proofs`.** The core is about `wire`: on the present socket there is at most
one message, it is the request of `pc` or a reply to it, and what it says is in the
histories; a message of another socket cannot be received, whatever it is. An
interrupted command leaves `waiting`, and with it no further request, until `do_conf`
makes a new socket; while an old one is being closed nothing is sent (`ClosedInv`). `RepliesAreOwn`, `LocksAround` and `SettingsAreTaken` hold for any
settings and any number of sockets.

**`Flash_proofs`.** `CheckIsSound` needs to know what the flash may still do.
The erase that `ProgramFlash` starts may be lost, because an earlier command
still runs, or be written twice. So `Working` says only: when the check reaches a
page nothing but reads is running; `Fetched` says that after the wait the buffer
holds the page of the flash that is compared. `ChecksOut` follows whatever was
written. `CopyIsWhole` is the same for `ReadFlash` (`ReadInv`): since it polls
`BUSY` before its first read, whatever an earlier call has left at work, a program
or an erase too, is over before a word is copied; what has been copied (`Copied`)
stays true because only reads run from then on. `BufferIsHeld` needs only that
`setup`, where address and buffer are written, is reached after the flash has been
seen idle (`Idle`) and that no other step starts a command.

**`ClockChip_proofs`.** `Inv` follows a transaction: `RegsInv` says how far the
controller's registers are set, `WorkInv` that what is at work is what was asked
for or, until the first transaction of a load has waited for `DONE`, the
remainder of an earlier load, which is harmless because `ReadI2C` sets `RW`
first; `DoneInv` that without `ERROR` it has been done, `PageInv` that the chip is
on the page of the byte. `Good` says that the bytes before `i` are in the chip but
for those the byte at `i` replaces. `ListIsLoaded` is `Good` at the end, and
`NothingElse` is about each step.

**`LoadedTable_proofs`** is in two parts. In the first, about the accesses,
`AllOrNothing` speaks of registers only. `InHand` adds
what the operation holds: while it reads, all of `seen` is what was there before
but for `moved`; while it writes, `building` is the wanted word but for `moved`,
and once the write is applied (`done`) the register is. That a block never meets
a register twice follows from `Len(o.vals) <= Size`, and the address in hand is
`At(i)` although it wraps. `WritesAllOrNothing` and `ReadsAreCurrent` hold of
`AddressTable` for any
number of addresses, any register width and any operations. With `TableInv`, which
types the items of the map, every call that is made by a name is one of these
operations, and `ByNameAllOrNothing` and `ByNameIsCurrent` hold of `LoadedTable`.

The second part is about the constructor. `TableIsRead` says of any table files,
including each other in any way: the map holds what the files mean (`Meaning`),
or something is wrong with them (`Faults`) and that is what is thrown. `Meaning`
knows no order of reading, so the invariant `LoadInv` has to bring one in. The
calls of `LoadFile` in progress spell a way `q` through the lines that have
included one file from another (`Calls`), and with the line in hand it divides the
places of the files into those ahead (`Ahead`) and those read (`Read`). The map
holds the items of the places read, each under a name of its own, and none of
these places has a fault (`Holds`). A line that includes nothing adds its own
place to `Read` (`ReadOver`), an include adds its place and nothing of the file
(`ReadInto`), the end of a file adds nothing (`ReadBack`), and at the end of the
first file all places are read (`ReadEnds`). That prefix and offset of a call are
those of all includes on the way is induction along `q`: `AlongStep` and
`AlongPrefix` give the sums along a way, `UpperJoin` that upper-casing a prefix
again changes nothing, `AddRemainder` that cutting the address at each include is
cutting it once. After a line that does not fit its buffer `LoadInv` says only where
the loop hangs.

The assumptions of `LoadedTable` are those of its inputs: table files are lines,
`Upper` is idempotent as `boost::to_upper` is, and callers may ask for an item of
any address and mask, whatever the files say.

Three properties are proved and not part of a run, since the proofs cover all
instances: `ToleratedOnly` and `OnlyLastUnread` of `FembPhase`, and
`DndRestored` of `FembConfig`, which `KeepsToCall` says too.

Every safety invariant and every safety action property of the passing runs is a
theorem, for all values of the constants. Only model-checked are the liveness
properties (`CallsEnd`, `CommandEnds`, `SearchEnds`, `EndsUnlessShort`,
`EndsIfI2cDoes`, `LoadEnds`, `EndsIfAnswered`): liveness under fairness and `ENABLED`
are beyond the prover. The runs that show the findings are counterexamples and
have nothing to prove.

The library's induction theorems take a predicate as a parameter, which the
installed provers cannot instantiate. What the proofs need of induction is on
numbers and is `SetInduction`, about a set instead of a predicate, from the
well-foundedness of `<`; `AlongExists` shows with it that the recursive function in
`Along` is one. Modules with theorems have no `RECURSIVE` operators; `TableLoad` adds
up what is on a way by a recursive function for that reason.

## Findings

Each has a run that shows it and an entry with the quoted line in
`PROJECT.json`.

1. `CheckedResetWIBAndCfgDTS` reads a register under a misspelt name
   (`DTS.CCONVERT_CONTROL...`), so the second settings command with the local
   clock fails just when the board is in a good state.
2. The timing group has two bits in the register and may be 0 to 15 in the
   settings: groups above 3 are configured as another one, without an error, and
   are never found in a good state afterwards.
3. `CheckFlash` does not end for an image shorter than the flash.

### Disagreements

Places where the code does otherwise than a schema, a table or a message says.
Each is stated as an invariant and has a configuration beside those of the runs,
with which TLC finds it violated
(`tlc -config MCProtoWib_readout.cfg MCProtoWib`, and so on). The properties of the
passing runs say nothing about what is in dispute here, and say so.

| invariant, configuration | the code | what it says elsewhere |
|---|---|---|
| `OnlyEnabledReadOut`, `MCProtoWib_readout.cfg` | `StartStreamToDAQ` reads out all FEMBs (`WIB.cpp:441`), also one the settings disable that an earlier command has configured | "True of FEMB should be configured and read out by WIB" (`protowibconfigurator.jsonnet:23`) |
| `SourceOfTiming`, `MCProtoWib_source.cfg` | the checked reset does not look at the timing input, so a change of `dts_source` alone has no effect (`WIB.cpp:313`) | "where to get the timing system input from" (`protowibconfigurator.jsonnet:89`) |
| `PlanesAsNamed`, `MCFembConfig_planes.cfg` | `set_ch` puts channel 15 first (`FE_ASIC_reg_mapping.cpp:14`), so a baseline by planes goes to other channels than those the table calls by these numbers | `FE_CH0_CONFIG` comes first, `FE_CH15_CONFIG` last (`ASIC_SPI_fine.adt:131`, `:251`) |
| `LeakageAsShown`, `MCFembConfig_leak.cfg` | the lower bit of `FE_LEAK` is "not 500 pA", the higher one the factor 10 (`WIB_FEMB.cpp:672`) | "0=500pA 1=5nA 16=100pA 17=1nA" (`ASIC_SPI_monitor.adt:34`): 100 pA are shown as 5 nA, and the other way round |
| `AmplitudeAllowed`, `MCFembConfig_top.cfg` | the internal pulser refuses the amplitude 63 (`WIB_FEMB.cpp:164`) | "must be 0-63" (`WIB_FEMB.cpp:168`) |
| `GainMatchAsAsked`, `MCWib2_gain.cfg` | `gain_match` is passed on as it is (`WIBConfigurator.cpp:69`) | "Enable pulser DAC gain matching" (`wibconfigurator.jsonnet:30`); "0 is enabled, 1 is disabled" (`wib.proto:116`) |
| `CommandsAsNamed`, `MCFlash_command.cfg` | a read of the flash is started with 0x5 (`WIB_Flash.cpp:164`, `:324`), whose command bits are 10 | "00:write 01:read 11:erase" (`WIB_FLASH.adt:1`) |

Which side is right cannot be told from the sources: it depends on the detector,
the firmware and the server. One more of the kind needs no model: the `baseline` 2 of
WIB2, the default (`wibconfigurator.jsonnet:25`), is no value of `wib.proto:108`, which
knows 0 and 1.

### Behaviour

Behaviour that nothing documents, or that a comment describes otherwise without
consequences, is in the models as the code has it and is not called a finding.

- A failed command leaves `SLOW_CONTROL_DND` set. Settings before conf use a null
  pointer (in `ProtoWib` and in `Wib2`).
- `EN_FAKE` and `LOCAL_TIMESTAMP` are set for the local clock
  and never cleared for the timing system but by a reset (`WIB.cpp:242`). After a
  full reset, links an earlier run enabled may be enabled.
- `fake_waveform` is always refused, because 255 samples are made and 256 wanted.
- A second failed read of a FEMB in `ConfigFEMB` returns without an error.
- The last loop of `WriteFEMBPhase` writes one register and reads back another
  (`WIB_FEMB.cpp:1016`); the search goes on all the same.
- The message that refuses a pulser mode calls 1 FPGA
  and 2 internal (`WIB_FEMB.cpp:53`), the code sets them up the other way. `FE_DAC` is
  shown with its bits reversed. `SetupFEMBASICs` ignores its argument `buffer` and
  takes the others modulo 256 (`WIB_FEMB.cpp:621`). The `sleep` macro cuts fractions of a second to 0
  (`WIB_FEMB.cpp:12`).
- A line of a table with fewer than four tokens is dropped silently. After a line
  longer than the buffer loading does not end; the longest line of the tables that
  come with the code has 567 characters, the buffer 1000.
- `ReadFlash` sets the byte count before it looks at `BUSY`.
- WIB2: `check_timing` resets the endpoint once and takes one answer, and
  `do_settings` does not check the timing at all when it is called as a command.

## Not modelled

- Tokens, numbers and masks in the lines of address tables (what a line says is an
  input of `TableLoad`), parsing of clock configurations and Intel hex files:
  sequential input with no state afterwards; it may throw, and that is modelled.
- Of the register maps, the getters and the functions no caller uses.
- What a reset of the FEMB does to its SPI registers and stream is up to the
  firmware; `Reset` allows every outcome.
- Spy buffers, power monitoring, register dumps, and the functions of `WIB` no
  plugin calls: single accesses for diagnostics.
- `WIB_localFlash.cpp`, sockets and name resolution in `BNL_UDP::Setup`,
  logging, monitoring counters, Python tools.
- Wall clock times: a sleep is no step, a timeout is a count or a choice.

## Plan

Done: `BnlUdp` with `RegisterIO`, `ProtoWib`, `FembPhase`, `AsicMap` with
`FembConfig` and `FembCall`, `Flash`, `ClockChip`, `AddressTable` with `TableLoad`,
`Wib2`, and their theorems. Left:

1. That for each of its FEMBs `ProtoWib` takes the steps of `FembCall`, next to
   those of other users of the flag, as a refinement instead of by reading.
