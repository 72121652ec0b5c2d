# Verification of the GPIO board firmware

The firmware (`src/src`) turns a Realtek SoC into a USB device that a PC uses to
drive GPIO expanders, to read and write the registers of a chip under test, and to
replace the board's own firmware; it also carries the TCP/IP stack of the firmware it
was forked from. This directory holds TLA+ models of it, TLC
configurations that check them on small instances, and TLAPS proofs.

    tlc -config Usb.cfg MCUsbDevice         # one run; the table in section 4 lists them all
    tlapm UsbDevice_proofs.tla              # one module of proofs

## 1. Inventory

### What runs

The tree is a fork of a DASH management firmware: TCP/IP, WS-Management, TLS, a
remote console and uC/OS-II are all there. `app.c` has two `AppTaskStart`. The one
that creates the network and management tasks is inside `#if 0` (line 696 on); the
live one (536-694) creates test tasks, whose `CONFIG_*_TEST_ENABLED` are unset in
`.config`, and `USBSrvTask` (666-675, under `CONFIG_USB_BULK_TEST` and
`CONFIG_USB_FLASH`, both set). The program that runs is therefore: the USB interrupt, the
USB task, and the commands the task performs. That is modelled first. Of the code that is
compiled and linked but not started, the connections and sockets of TCP are modelled too:
they have the most intricate state of the tree, and every management service stands on them.

### Components

| Component | Source | State it keeps | Operations | Talks to |
|---|---|---|---|---|
| Bulk command engine | `usbdevice_interrupt.c`, `usb_ata.c` 80-149, `telnet.c` 280-365, `usb.c` | the CBW and CSW buffers, `epstate`, `USBQ`, the interrupt mask, `cpu_sr` | interrupt handler (bus reset, endpoint 2 OUT, endpoint 1 IN), `USBSrvTask`, `ata_cbw`, `CMD_Parsing` | host and controller; the command modules (calls) |
| Control transfers | `usbdevice_interrupt.c` 447-598, 758-1118, 1265-1282 | `ep0state`, `setup_pkt`, registers of endpoint 0, the device address | `setup_phase`, `handle_ep0`, `ep0_out_start`, `usb_dev_reset`, `device_int_enum_done` | host and controller; arms the bulk endpoints |
| Firmware update (type 8) | `usb_ata.c` 35-75, `flash_fp.c` | `page_old`, the flash | `FWupdate_Parsing`, block erase, page program | the SPI flash |
| TestIO commands (type 1) | `testio_gpio.c` | the batch, the target's access units and registers | `Testio_Parsing`, `Testio_Processing`, accesses with the MCU running or stalled; GPHY, EFUSE and EPHY channels | the chip under test over MDIO bits on GPIO pins |
| GPIO commands (type 0) | `i2c_gpio.c` | the batch, the expanders' registers | `GPIO_Parsing`, `GPIO_Processing`, `set_port_dir`, `set_port_val`, `get_port_val` | port expanders over bit-banged I2C |
| MMD commands (type 2) | `mmd.c`, `mdio_bitbang.c` | the batch, the target's registers | `MMD_Parsing`, `MMD_Processing`, `OCD_Read`, `OCD_Write`, post-reads, GPHY/EFUSE/EPHY | the chip under test over MDIO clause 45 |
| On-chip GPIO, in-band access | `OOBMAC_COMMON.c` | GPIO control registers, one busy access channel | `OOBMAC_gpio_*`, `OOB_READ_IB`, `OOB_WRITE_IB_BIT` | all bit-banged buses |
| I2C masters | `i2c_gpio_master.c`, `PD_gpio.c` | `started`, the two wires | start, stop, bytes, retry | the charger chip |
| TCP connections and sockets | `tcp.c`, `rtskt.c`, `netlib.c` | a PCB per connection with its queues and numbers, the list and count of a listening port, the sockets and their semaphores | `tcpInput`/`tcpProcess`, `tcpSend`, `tcpDequeue`, `removePCB`, timer, link change, `rtSktListen`, `rtSktAccept`, `rtSktRx`, `rtSktSend`, `rtSktClose` | the network; the services' tasks |
| The rest | see `components` in `PROJECT.json` | | other network layers, management services, TLS/SSH/Kerberos, VNC/VGA/KCS, sensors, EHCI, PCI host, uC/OS-II, build tools | not run by this configuration, third-party, or register sequences |

A command travels so: the host writes a command block to bulk endpoint 2; the
controller's DMA stores it in the one CBW buffer and interrupts; the handler masks
the USB interrupt and posts a message to `USBQ`; the task takes it, parses the
buffer with interrupts disabled, calls the module of the command's type, which
leaves its answer in the one CSW buffer; the task starts the transfer on endpoint 1
and unmasks the interrupt; the completion of that transfer arms endpoint 2 for the
next command. Control transfers on endpoint 0 run in the handler alone.

A TCP connection has three parties in the firmware: the receiving task (`tcpInput`), the
timer task, and the task that owns the socket. Each holds `SktSem` while it works on
connections; they wake the socket's owner through the semaphores `rxSem` and `txSem`.

### What is hard in it

- **Concurrency.** The DMA, the interrupt handler and the task share one-slot buffers
  without a lock. What keeps them apart is only a chain of hand-overs: mask, queue,
  parse, arm, complete, re-arm.
- **Ordering.** The handler reads cause registers once and works through them in a
  fixed order, so events of an old transfer can meet the state of a new one, and a
  bus reset can overtake both. The network repeats and reorders segments, and a client may
  come again from the port it had.
- **Failure.** The target of TestIO may answer late or never, an I2C byte may not be
  acknowledged, the host may stop reading, and power may go during an update. A client
  may vanish, reset or stay half open, and the link may change under every connection.
- **Tokens.** A task sleeps on a semaphore that counts what it has to look at; a token
  too few is a task asleep for good, and the connection may go while it sleeps.
- **Timing bounds.** Polls are counted, and the access they give up may still happen.
- **Arithmetic.** Byte enables, masks, places in the response and the split of a page
  are computed with shifts and remainders.

`PROJECT.json` lists each hazard at its line with the properties aimed at it.

### What makes each component correct

- *Bulk engine*: buffers are used by one party at a time; every command is answered,
  once, in order, with its own outcome; mask and unmask pair up whatever the host
  does; the interrupt state survives critical sections.
- *Control transfers*: host and device agree on the stage and on the address; every
  request with a case is completed; after a reset endpoint 0 listens in the right buffer.
- *Firmware update*: an acknowledged page is in the flash and stays there; nothing is
  programmed over unerased bytes, power cuts and lost answers included.
- *TestIO*: without timeouts a batch does exactly what its commands say; with
  timeouts the damage stays inside the registers and bytes the batch may write; units
  never overlap; a batch ends; an access reaches the MCU it names.
- *GPIO*: directions and levels as asked, inputs sampled after outputs are set, and no
  pin driven by accident when a byte is lost.
- *TCP*: lists, counters and sockets agree; data arrives once, in order, and is kept until
  it is acknowledged; the send window is exact; no task misses a wake-up; calls return and
  connections end whatever the client does.
- *MMD*: as TestIO, and the MCU selection is restored after each access; nothing changes
  that no write names, however late the chip is.

## 2. Modules

| Module | Models | Proofs |
|---|---|---|
| `CommandChannel` | the abstract promise of the bulk engine: accept, serve, deliver | implemented by `UsbDevice` |
| `UsbDevice` | the bulk engine, with host and controller | `UsbDevice_proofs` |
| `UsbControl` | control transfers on endpoint 0 | `UsbControl_proofs` |
| `FwUpdate` | firmware update and the flash | `FwUpdate_proofs` |
| `TestIo` | TestIO batches on registers and channels, with the target | `TestIo_proofs` |
| `GpioExpander` | GPIO batches, with the expanders | `GpioExpander_proofs` |
| `Mmd` | MMD batches on every route, with the chip's access units | `Mmd_proofs` |
| `Tcp` | a listening port: its connections, timer and sockets, with network and clients | `Tcp_proofs` |
| | facts about iterated functions and least elements | `Iteration_proofs` |
| `MCUsbDevice`, `MCUsbControl`, `MCFwUpdate`, `MCTestIo`, `MCGpioExpander`, `MCMmd`, `MCTcp` | values of the constants for TLC | |

Definitions named `X_Something` and commented "Faulty variant" are plausible bugs of
`X`. No specification uses them; each is there so that a property can be seen to fail
when `X` is replaced by it (`mutants` in `PROJECT.json`).

### UsbDevice

State: the host's view (`host`, `sent`, `rcvd`), the controller's interrupt bits and
endpoints (`usbRst`, `setup`, `outReady`, `outDone`, `inState`, `inDone`, `txfifo`),
the shared memory (`CBW`, `CSW`, `epstate`, `USBQ`) and the processor (`isr`,
`irqMasked`, `taskIe`, `cpu_sr`, `pc`). The handler is one action per part
(`IsrEnter` reads GINTSTS, then `IsrReset`, `IsrOut0`, `IsrOut2`, `IsrIn`), with the
snapshot of the causes in `isr`, because the controller goes on between them. The task
is one action per step the DMA or the handler can come between (`TaskPend`,
`TaskEnter`, `TaskHeader`, `TaskExec`, `TaskSend`, `TaskUnmask`, `TaskExit`), and
`TaskSendTimeout` is the ten-second disconnection. The task does not run while the
handler does; the handler does not start while the USB interrupt is masked. A task
that waits lets others run, with their own interrupt enable bit, so the interrupt is
taken even when the USB task would run with interrupts disabled.

A command is a number and a type, an answer is a number, an echoed type and, in
`body`, the number of the command whose outcome it carries: that is what the
properties tell apart. What the command modules do is in their own modules; in
`UsbDevice` a supported command sets `body`, and an unsupported one leaves the old one.

### UsbControl

The requests are the cases of `setup_phase`, by kind: reads, commands without data,
writes (the HID ones included), a stalled one and those without a case. `ep0` holds
`ep0state` and the registers of endpoint 0. The host may reset the bus while the device
has nothing to handle (`HostReset`, `SpeedFound`, `HostSetup`), or at any moment, with a
handler that comes too late (`HostResetRacy`, `SpeedFoundRacy`, `HostSetupRacy`);
`lastReset` remembers which, and most properties are about a device that has met its
last reset in peace (`Met`), whatever came before. Assumed of the controller: a SETUP waits until
endpoint 0 OUT is enabled and goes where DOEPDMA0 points; a bus reset clears no
interrupt bit of an endpoint; a SETUP clears a stall. Assumed of the host: it gives a
request up only by a reset, and sets the address once per reset.

### FwUpdate

The flash is a function of pages and bytes, each a payload, erased, or `Corrupt`.
`Receive` is the entry of `FWupdate_Parsing` up to the counter, `Erase` the block
erase, `Write` one call of `Flash_write_one_channel_User`, `Reply` the answer, which
may not reach the host. `Crash` may come at any step: it loses `page_old` and
spoils the block or chunk in progress. `acked` is the host's memory since its last page 0.

### TestIo

A batch is performed access by access: `Start` is everything up to the polling,
`PollBusy`, `PollDone` and `GiveUp` the polling and what follows. `Serve` is the target,
at any time or never. A masked write is a read and a write; a stalled double word is
two accesses. Registers are sets of bits. `ReadOCPRegTestIO` has no `return`
statement: the object file of the repository leaves the callee's result in the result
register, and the model takes that value.

The PHYs and the EFUSE are reached through a register each (GPHY, EPHY, EFUSE channel), by
accesses of the same kind: a double word starts the channel, others read its flag until it
says done, without a bound on how often. `chan` holds what each channel was last started
for; `ServeChannel` is the target serving such an access, `ChannelDone` the channel doing
what it was started for, and `ReturnChannel` the end of the access: repeated, while the flag
is not as expected. An access that is given up returns 0, which the polls of a PHY read take
for "not done" and all other polls for "done" (`Raises`). The functions that read a channel
have no `return` statement either, so an EFUSE word is what the register held, without the
removal of its seventeenth bit. Channels are modelled as the comments of the cases have
them: words, with the MCU running, through the PLA or PCI registers.

### GpioExpander

A batch is two loops around a delay. `SetDir` and `SetVal` are read-modify-write as
the code does it, each transfer either acknowledged or lost (a lost read gives 0xFF, a
lost write nothing). The levels of inputs are what the wired pins drive, or anything.

### Mmd

A command has a route: a unit of the chip (`ocp` for alive accesses, or one of the GPHY,
EPHY and EFUSE channels), or MDIO directly. A unit access is `Setup` (the selection and the
data), `Start` (the command word), polls and the fetch; the target may serve at any moment
in between, since what was given up is not cancelled. `OCD_Read` and `OCD_Write` return on
a timeout, and a read command then answers with the `readval` of before; the channels go on
and fetch what is there, and EFUSE_write does not wait at all. `Lossy` lets any MDIO read
return 0xFFFF, which the polls of a GPHY or EPHY read take for done and the others for busy.
`OCD_Read` selects the DMA MCU with 0x0800 where `OCD_Write` and TestIO use 0x0080
(`mmd.c:171`, 124; `testio_gpio.c:158`, 237): the model has both values, `sel = "unknown"`
for the first, and only the second reaches that MCU.

### Tcp

One listening port. `pcb` holds the connection of each client (`state`, `seqNum`,
`sendAckNum`, `delayAck`, `sendPkts`, the retransmission queue `txQ`, the packets not yet
read `rxQ`), `clientList` and `curConnections` the list and the three-bit count of the
listener's PCB, `skt` the accepted socket of each task with the point the task has reached
in a socket call, `listenSem` the tokens of the listening socket. A critical section under
`SktSem` is one action: `RxListen` to `RxTimeWait` are the states of `tcpProcess`, `Timer`
is one round of the timer task, `LinkReset` is `resetIPPtl`. A socket call is one action
per critical section (`rtSktSend`, `SendTest`, `SendWait`; `CloseQueue`, `CloseFin`,
`CloseWait`). `SendTest` is the read of `s->pcb->sendPkts` without the lock: when the
connection has gone meanwhile, what a null pointer yields is either answer.

`removePCB` finds a connection in the list by the client's port alone (`tcp.c:766`), and
`Victim` does the same: two clients with the same port on different hosts are told apart
by `tcpInput`, but removing the younger frees the older. `SocketsPaired`, `NoLostWakeup`
and `WindowExact` are stated, run and proved for clients with different ports
(`PortsDistinct`); `TypeOK` and `StreamIntact` hold without.

A packet of data has length 1. Payloads are named by the epoch of the client and their
number. The network keeps a set of segments: a segment not lost may arrive at any time and
in any order, and retransmission makes it arrive again. The clients are external: they
follow the protocol, may stop at any point, repeat themselves, close, reset, and come again
(a new epoch) once no segment of theirs is left, as the protocol's own quiet time has it.

Left as the code has it: a pure ACK is put off once; a refused segment is answered with a
RST but a FIN with an ACK; a RST closes whatever its number; after the firmware has closed,
any acknowledgement frees packets and a FIN is taken whatever its number, so
`WindowExact` excepts FIN_WAIT_1. `rtSktAccept` spends its token also when the oldest
connection not yet accepted is not established, and looks no further.

## 3. What the code gets wrong

Five runs end in a counterexample. Each is a property the source itself states or
relies on, and each is in `findings` with its quotation.

- `usb_critical`: nested critical sections save to one global `cpu_sr`; after its
  first command the USB task runs with interrupts disabled (`usb_ata.c:88`).
- `usb_control_race`: a bus reset met with an event of endpoint 0 still pending leaves
  endpoint 0 enabled with another buffer than `setup_pkt` (`usbdevice_interrupt.c:574`).
- `testio_dma`: starting a stalled write clears the bit that selects the DMA MCU
  (`testio_gpio.c:259`).
- `mmd_restore`: an access for the DMA MCU that is given up leaves the selection it made,
  against the comment that says why it must not (`mmd.c:147`).
- `gpio_outputs`: setting an output clears the other outputs of its port (`i2c_gpio.c:282`).

## 4. Runs

| Run | Module, cfg | Checks | Distinct states |
|---|---|---|---|
| `usb_engine` | `MCUsbDevice`, `Usb.cfg` | `TypeOK`, `SingleBaton`, `OneInFlight`, `BuffersIntact`, `EveryCommandAnswered`, `ImplementsChannel`, `MaskReleased`, `NeverWedged` | 297,008 |
| `usb_critical` | `MCUsbDevice`, `UsbCritical.cfg` | `InterruptStatePreserved` (violated) | |
| `usb_control` | `MCUsbControl`, `UsbControl.cfg` | `TypeOK`, `RequestIntact`, `PacketForStage`, `AddressAgreed`, `WaitsForSetup`, `RequestsCompleted`, `ResetRecovers` | 1,549,066 |
| `usb_control_race` | `MCUsbControl`, `UsbControlRace.cfg` | `EnabledForSetup` (violated) | |
| `fw_update` | `MCFwUpdate`, `FwUpdate.cfg` | `TypeOK`, `AckedPagesPresent`, `NeverOverprogrammed` | 205,837 |
| `testio_batch` | `MCTestIo`, `TestIo.cfg` | `TypeOK`, `DoneAsAsked`, `NoOverlap`, `OnlyTouchedBytes`, `BatchEnds` | 228,313 |
| `testio_dma` | `MCTestIo`, `TestIoDma.cfg` | `ReachesDevice` (violated) | |
| `mmd_batch` | `MCMmd`, `Mmd.cfg` | `TypeOK`, `DoneAsAsked`, `DefaultSelected`, `OnlyNamedWords`, `BatchEnds` | 347,304 |
| `mmd_restore` | `MCMmd`, `MmdRestore.cfg` | `SelectionRestored` (violated) | |
| `gpio_batch` | `MCGpioExpander`, `GpioExpander.cfg` | `TypeOK`, `DirectionsSet`, `InputsSeeOutputs`, `OnlyCommandedOutputs` | 368,989 |
| `gpio_outputs` | `MCGpioExpander`, `GpioOutputs.cfg` | `OutputsHeld` (violated) | |
| `tcp` | `MCTcp`, `Tcp.cfg` | `TypeOK`, `SocketsPaired`, `StreamIntact`, `AckedBeforeFreed`, `WindowExact`, `NoLostWakeup`, `CallsReturn`, `HalfOpenEnds` | 238,239 |

What they show, and what they do not:

- `usb_engine` has a host that may reset and reconfigure the device with commands in
  flight. `SingleBaton`, `BuffersIntact`, `EveryCommandAnswered` and `ImplementsChannel`
  are about a device the host has not yet disturbed: after that they do **not** hold,
  since `usb_dev_reset` (460-500) leaves DOEPINT2 as it is and SET_CONFIGURATION (947)
  arms endpoint 2 with a command in flight. The code promises nothing there. The other
  properties hold whatever the host does.
- `NeverWedged` asks that the host is configured for good; a device that has
  disconnected after an unread answer is no longer, so it is excepted.
- `RequestsCompleted` leaves out the requests `setup_phase` has no case for
  (GET_STATUS, CLEAR_FEATURE of an interface, test modes it does not know): they are in
  the model, are never answered, and end with a reset.
- `testio_batch` leaves out stalled writes to the DMA MCU, which `testio_dma` shows to
  be misdirected.
- `BatchEnds` of `TestIo` excepts a batch that reads a PHY after an access was given up:
  `ReadPhyRegNoPageTestIO` then polls inside the critical section for as long as the target
  does not answer (`testio_gpio.c:523`).
- `DoneAsAsked` is about batches without a timeout and without an access left pending
  by an earlier batch: a stalled access is never cancelled when it is given up
  (`RdOCPAddr`, `WtOCPAddr`), so an old write can land before the next batch starts its
  first access. `OnlyTouchedBytes` covers exactly that case.
- `mmd_batch` leaves out reads and masked writes of the DMA MCU, whose read goes to the
  PLA MCU (section 2), and writes for a PCI chip: these make no selection and would go to
  the DMA MCU after an access to it was given up, which is the consequence of
  `mmd_restore`. The theorem `OnlyNamedWordsChange` has the same premise (`UsbChip`).
- In `Mmd`, `DoneAsAsked` is about batches in which every read was answered, and before
  the end of which no access was given up or started over another; an EFUSE write that was not served before the next EFUSE command is one of those.

- `tcp` is ten scenarios rather than all at once: a repetition, a client that closes, a
  FIN or SYN again, a window that fills, reordering, a reset and a second coming with and
  without data, a link change, and two clients of which one or both are admitted. The
  scenario bounds only what clients and network do, never the firmware.
- `AckedBeforeFreed` holds while a connection has not sent 2^32 bytes: `tcpDequeue`
  compares the end of a packet with the acknowledgement as plain numbers (`tcp.c:1025`). In
  the run `SeqSpace` is 16 and the firmware's numbers, which start at 0, stay below; the
  client's start at 15 and wrap. In the proof that is the premise `NumbersLast`. Beyond it
  the property fails, although the comment (`tcp.c:1023-1024`) says that a packet is freed
  correctly when the "sequence number is greater than //2^32". With `SeqSpace = 8` and
  `Plans` the one scenario `[Only(1, 0, 7) EXCEPT !.again = 0]` TLC finds it: the client has
  packet 6 of the 7 it is sent, packet 7, which ends at 8, wrapped to 0, is lost, and the
  acknowledgement of packet 6, which is 7, frees both.
- `StreamIntact` needs that no two positions of a client's streams have the same 32-bit
  number (`NumbersApart`), which is the client's business: its initial numbers and the life of
  a segment. Without it the property fails. With an `Isn` of 3 in both epochs TLC finds a
  client that resets unheard, comes again, and is answered by the connection of its first
  epoch, still in SYN_RCVD, which then takes the data of the second for its own: `tcpInput`
  has only ports, address and numbers to tell them apart.

Bounds, and why they are enough:

- `UsbDevice`: the engine's state has no memory of earlier commands but the CSW
  buffer's stale body, so two commands in a row exercise every hand-over; `MaxCmds` is
  3, with up to two disturbances. `QSize` is 1, where the code has 16: one message too many
  overflows it at once. One supported and one unsupported type. The safety results are
  also proved for all values.
- `UsbControl`: one address bit, so that one left over from before a reset shows; three
  requests and three resets: enough for a request a reset overtakes, a second reset that
  is met in peace and a request after it. Nothing survives a transfer but `ep0`, and the
  address, which a reset clears.
- `FwUpdate`: half pages of 2 bytes (lengths 0 to 3: empty remainder, one chunk, two
  chunks, full), blocks of 2 pages, images of 3 (a block boundary inside), 2 payloads,
  one power cut. All of it is proved for any geometry and any number of cuts.
- `TestIo`: bytes of 2 bits and a double word per MCU, so fields can lie in one byte,
  cross bytes and cross words; two commands, in one batch (result places, read then write)
  or in two (an access that the first leaves behind); 2 polls, so that an access can be polled, finish in time and be given up.
- `Mmd`: words of 2 bits, one double word per space (the EFUSE's unit), posts of up to 2
  words, 2 polls; two commands, in one batch for the merges and the result places, in two
  for accesses that are left pending.
- `GpioExpander`: two ports of two pins and a pin number past the byte, each pin wired
  to one of the other port; batches of 2, two batches, one lost byte. One pin's
  transfers touch one port, so a second pin per port and a second port show every interference.

- `Tcp`: one task, two packets in the window, a connection given up after two ticks of the
  timer, no patience elsewhere: every timeout comes about within a few rounds. The number
  of clients and tasks, and every limit, are free in the proofs.

Deadlock checking is off where a bound on the host's actions lets the system stop;
`fw_update` and `tcp` keep it on.

Fairness: a pending unmasked interrupt is taken and the task runs, since USBSrvTask is
the only application task and uC/OS-II schedules by priority; the DMA progresses; the
host finishes an enumeration or control transfer it began and reads what it is offered.
Nothing obliges it to send, except in `NeverWedged`, whose very question is whether it
can. In `TestIo` and `Mmd` the firmware is fair and the target's units owe it nothing: they
may never answer. A channel of `TestIo` that was started is done some time, since the polls
of it have no bound and the code ends only if it is. In `Tcp`
the timer task is periodic, and a task that is inside `rtSktSend` or `rtSktClose` goes on, one fairness
condition per task; accepting, reading and sending are the server's own choice, and clients
and network may stop at any point.

## 5. Proofs

| Theorem | States |
|---|---|
| `UsbDevice_proofs`: `TypeCorrect` | `DisturbSpec => []TypeOK` |
| `OneCommandInFlight` | `DisturbSpec => []OneInFlight` |
| `BuffersExclusive` | `DisturbSpec => []SingleBaton` |
| `BuffersNotOverwritten` | `DisturbSpec => BuffersIntact` |
| `EngineImplementsChannel` | `DisturbSpec => ImplementsChannel` |
| `UsbControl_proofs`: `TypeCorrect`, `RequestNotStale`, `PacketsMatchStages` | `TypeOK`, `RequestIntact`, `PacketForStage` |
| `AddressesAgree`, `SetupBufferReady` | `AddressAgreed`, `WaitsForSetup` |
| `Tcp_proofs`: `TypeCorrect` | `Spec => []TypeOK` |
| `SocketsAgree`, `NoWakeupLost`, `WindowKept` | `SocketsPaired`, `NoLostWakeup`, `WindowExact`, if `PortsDistinct` |
| `StreamInOrder` | `Spec => []StreamIntact`, if `NumbersApart` |
| `FreedWhenAcked` | `Spec => []AckedBeforeFreed`, if `PortsDistinct` and `NumbersLast` |
| `FwUpdate_proofs`: `ChunksCoverPayload` | the chunks of a payload are non-empty, at most half a page, and add up to it |
| `TypeCorrect`, `AckedPagesStay`, `NoOverprogramming` | `TypeOK`, `AckedPagesPresent`, `NeverOverprogrammed` |
| `TestIo_proofs`: `TypeCorrect`, `AccessesNeverOverlap` | `TypeOK`, `NoOverlap` |
| `OnlyTouchedBytesChange`, `BatchesDoneAsAsked` | `Spec => OnlyTouchedBytes`, `Spec => []DoneAsAsked`, if no stalled write is for the DMA MCU (`Routed`) |
| `Mmd_proofs`: `TypeCorrect`, `SelectionDefault` | `TypeOK`, `DefaultSelected` |
| `OnlyNamedWordsChange` | `Spec => OnlyNamedWords`, if no command is for a PCI chip |
| `BatchesDoneAsAsked` | `Spec => []DoneAsAsked`, if the alive commands for the DMA MCU are posts and whole writes (`DmaWritesWhole`) |
| `GpioExpander_proofs`: `TypeCorrect`, `OnlyCommandedPinsDrive` | `TypeOK`, `OnlyCommandedOutputs` |
| `DirectionsAsAsked`, `InputsAnswered` | `DirectionsSet`, `InputsSeeOutputs` |

They hold for every value of the constants that satisfies the named assumption of the
module (`ConstantsAssumption`, `FlashAssumption`, `TestIoAssumption`, `GpioAssumption`,
`MmdAssumption`, `TcpAssumption`), which only say that bounds are numbers and that the geometry makes sense.

- *Bulk engine.* `OneInFlight` alone is not inductive: a handler in the middle of its
  work may still post. `MaskInv` adds that the parts that can post or reset run only
  while the interrupt is unmasked, and that before its first wait the task holds it
  masked. `SingleBaton` needs `EngineInv`: nothing is in use before the configuration
  (`ConfigInv`), what the handler's snapshots still say when it acts on them
  (`SnapshotInv`), and that the buffers belong to the last command sent (`BufferInv`).
  The refinement maps `request` to the CBW buffer while it holds an unserved command,
  `last` to the body of the CSW buffer, and `outbox` to the transmit FIFO followed by
  the answer being sent; `HostSend`, `TaskExec` and `HostRead` are the three abstract
  actions and every other step stutters.
- *Control transfers.* Once a reset was met in peace, exactly one of host, controller and
  firmware has to act next. `Phase` lists these situations (a reset pending or handled,
  waiting for a SETUP, a request to parse, data or status on its way in either direction, a
  request without an answer), each with what endpoint 0 is programmed for; a step leads
  from one to the next, and the four properties are read off the list. A race leaves the
  list, and the next reset met in peace enters it again.
- *TCP.* `Inv` is the type, that a client with segments in flight has started
  (`PeersStarted`: only then does `Isn` name a number), and that the list holds each open
  connection once and the count is its length (`Listed`). `Owned` says that a socket's
  connection is open and names the socket; it is the half of `SocketsPaired` that needs no
  assumption on ports. `Joined` adds the other half and what both sides owe each other: a
  socket in `rtSktRx` or `rtSktSend` has a token per unread packet (`Good`), one whose
  connection is gone has one left (`Lone`), a connection not yet accepted has sent no data
  (`Fresh`), and `sendPkts` counts the data packets of the queue (`Window`). The
  twenty-odd actions are reduced to a few shapes first: a segment opens a connection
  (`Comes`), changes one (`GoesOn`) or removes one, and likewise for timer, link, server
  and clients; the invariants are shown kept by each shape.
- *TCP, the streams.* `ClientsKeepTo` is what the clients guarantee: a segment in flight is of
  the client's present epoch, has the number of its place in the stream, and acknowledges no
  more than the client has. `StreamInv` adds to `StreamIntact` that a connection that still
  takes data expects the number after its last packet (`Stream`): since no two places have
  the same number, a packet with that number is the next one. `SentInv` adds to
  `AckedBeforeFreed` how packets and numbers of the queue belong together and that the
  connection is not of an epoch to come (`Sent`): packet n ends at n + 1, so what
  `tcpDequeue` frees lies below an acknowledgement that the client gave. What a step of the
  firmware does to one connection is reduced to a few cases first (`Receives`, `Sends`); the
  clients' steps only add to what they have, or begin an epoch with nothing in flight.
  `WrapNext` is the arithmetic: numbers go on modulo `SeqSpace`.
- *Firmware update.* `FlashInv`: what the local state means at each step, that the pages
  still to come in the block are erased (`FreshInv`), what the page in progress holds
  (`PageInv`), and that acknowledged pages lie before it (`AckedInv`). The only
  arithmetic is that a page that is not the first of its block is in the block of its
  predecessor.
- *TestIO.* An alive access ends idle or cancelled, and a stalled one is cancelled by
  the selection at the next start. `TypeInv` adds what the accesses left of a command are
  (`LoopOK`, `Fits`) and what a started access is for (`JobFits`): a channel only with the
  MCU running and for a word, a stalled access for one word, so that no shift or merge
  leaves the bits of a double word. `NamedInv` ties what is pending to a command: the alive
  unit's access to the command in progress, the write of the stalled unit and of a channel
  to a command of the batch or to `earlier`, and once the first access of a batch was started
  a stalled one to the command in progress, which is what `Receive` relies on when it
  forgets the others. `EnabledBytes` and `MergeKeeps` are the arithmetic: an enabled bit lies
  in a byte of the mask, and words merged and split again keep the bits not enabled.
- *TestIO, whole batches.* `DoneAsAsked` compares the end of a batch with what its commands
  do one after the other. `BatchInv` says it for every step: what is left of a command's
  accesses is a chain, each followed by its successor (`ChainInv`); what is pending is of a
  command sent (`LeftInv`); while nothing is late the target works only for the access being
  made and the channel it polls (`OnTimeInv`); the data register and the channel hold what
  that access reads or stores (`ReadInv`, `DataInv`, `ChanInv`); the target holds what the
  commands so far are meant to leave and, of the one in progress, the words already stored
  (`MemInv`); a write of a part of a register has read what it merges (`RetInv`); and the
  response holds the answers so far, each in its place (`AnswerInv`). `MergeWrites` shows that
  merging and splitting words is writing the enabled bits.
- *MMD.* `TypeInv` adds what accesses are left of a command (`TodoOK`), which places the
  words of a post-read. A selection other than the default belongs to an access to the DMA
  MCU under way, or to one given up (`SelectionInv`). `NamedInv` ties each pending write of
  a unit to a command of the batch or to `earlier`, and says that a unit about to be started
  for a write has the right MCU selected; the rest is that only `DirectWrite` and `Serve`
  change a word.
- *MMD, whole batches.* As for TestIO, with the chip's units: while every access has been
  served in its time, a unit has one pending only while it is polled for it, or for an EFUSE
  write, which nobody polls (`OnTimeInv`). So the chip is compared with the commands through
  what it holds or is about to hold (`MemoryInv`), a write that reads first has read the word
  as it is (`ReadInv`), and the response holds the answers of the commands before and the
  words of a post so far (`AnswerInv`).
- *GPIO.* The byte read is the register's or all ones, so the byte written back has
  every other input still in it; and the loops stand at commands of their direction (`LoopOK`).
  Without a lost byte, a pin has the direction of the commands performed so far (`DirInv`;
  `GotoOrder` says that a loop leaves no command of its direction behind), and the last output
  of a port keeps its level once set (`SeesInv`): the output loop is over when the first input
  is sampled, and the input's place in the answer is its own (`Places`).

What the commands of a batch do is a recursive function of their number. Its value is needed
only for the number reached, and from one number to the next; that such a function exists is
an induction, made in `Iteration_proofs` by the least counterexample, which needs no
theorem with an operator as a parameter.

Only model-checked: the liveness properties (`EveryCommandAnswered`, `MaskReleased`,
`NeverWedged`, `RequestsCompleted`, `ResetRecovers`, `BatchEnds`, `CallsReturn`,
`HalfOpenEnds`), which are beyond the prover. Every invariant and every action property that
a passing run checks is also proved.

## 6. Not modelled

- Electrical and bit timing: MDIO and I2C bits, delays, `bsp_wait`. The modules above
  take an I2C byte or an MDIO register access as one step.
- USB descriptors, lengths of data stages, test modes, suspend, PHY set-up.
- Heap exhaustion and failed initialisation: `malloc` results are mostly unchecked.
- TestIO's seventeenth bit of an EFUSE word, and commands whose `dev` names no MCU.
- MMD post commands on a channel (the code treats them as writes) and unknown codes.
- TCP: active opens (`rtSktConnect`), services that take packets without a socket (`apRx`),
  TLS sockets, UDP, window and segment sizes, the probes of an idle connection, port
  filters, `rtSktCloseSend` and `rtSktShutdown`. A refused FIN is answered through a
  connection without a socket, whose `skt` `addTcpHeader` dereferences; what it reads only
  sets the window field, so the model answers without it. `rtSktListen` stores its limit
  in three bits (`rtskt.c:896`, `tcp.h:151`), so the 10 of `tcp.c:3471` admits two:
  `maxConnections` is the number after that.
- Everything else this configuration does not run (section 1).

## 7. Plan

In this order; the first entries matter most.

1. `Tcp`: the run with clients of equal ports, which breaks `SocketsPaired`, and the
   abstract connection (a stream in, a stream out, an end) that `Tcp` implements.
2. `I2cMaster`: start, stop, repeated start and retry against a slave that samples
   the two wires, and the expanders' reads and writes refined by it.
3. `SharedRegisters`: byte enables of `OOB_WRITE_IB_BIT` against a reference over all
   fields; GPIO registers with several pins.
4. A composition of `UsbDevice` with one command module, to show that a batch sees one
   command block from its first to its last byte.
5. `Tcp`: active opens and the services that take packets without a socket.
