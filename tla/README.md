# Verification of the CoCo 2/3 emulator for the TTGO VGA32

The program is a Tandy Color Computer emulator for an ESP32 with two cores.
Core 1 runs the machine (`loop()`, one frame at a time: CPU, video, disk, the
supervisor's on-screen menus). Core 0 runs WiFi and what talks to it (DriveWire
client, debug server), the audio task and the sound cartridge's chips. This
directory holds TLA+ models of its parts, the TLC runs that check them and the
TLAPS proofs of the results that matter most. `PROJECT.json` maps every
definition to the lines it models. Paths below are relative to the repository.

## 1. Inventory

| Component | State | Operations | Interacts with | What is hard |
|---|---|---|---|---|
| Becker port, `src/core/becker.cpp` | two byte rings, two flush requests with marks, reset request, wake-up flag | register read and write, reset, scanline notify; pop, push, link up/down, clear reset | CPU on core 1, back end on core 0, no lock | every interleaving of the two cores; wrapping 32-bit indices; flush and reset requests that cross |
| DriveWire client and bus, `src/net/dw_client.cpp`, `dw_bus.cpp` | connection state, socket, back-off, shutdown handshake; mode, host and port | connect, pump both directions, drop, back off, stop; load, save | Becker port, WiFi, server, restart path | replies in flight across a reset; link loss; a bounded wait for a task that may be blocked |
| Debug RPC, `src/net/debug_rpc.cpp` | one-slot command queue, completion semaphore, pause flag, key queue | submit with timeout, poll, key injection | HTTP server task (core 0), `loop()` (core 1), OSD | timeouts racing late answers; a queue nobody drains while the OSD is open |
| Speech/Sound Cartridge, `src/core/ssc/ssc.cpp` | command ring, sample ring, BUSY counters | register writes, reset, per-scanline sample; chip task | CPU (core 1), chip task (core 0) | full ring, reset with bytes queued, wrapping indices, READY that must come back |
| Floppy drives, `src/supervisor/sv_disk.cpp` | per drive: cache, dirty map, path, geometry | mount, eject, flush, sector access | SD card, FDC, menus | SD and allocation failures in the middle; the same image twice |
| WD1793 controller, same file | registers, transfer state, deferred interrupt, NMI, HALT, format parser | bus reads and writes, tick | CPU lines, drive table | any order of commands, drive changes and ejects; lost or doubled interrupts |
| Hard disk, `src/core/vhd.cpp`, `blockfile.cpp` | registers; per image a handle, its remembered position, direction and size | commands, mount, unmount, flush, idle close | SD card, machine | remembered position and size versus the file; short transfers; a card that fails a flush without a word |
| CPU, `src/core/mc6809_core_impl.h`, `hd6309_ops.h` | registers, flags, masks, wait flags, interrupt latches | run loop, interrupts, instructions, idle-loop skip | every device through its lines | interrupts in every state, frames of three shapes, flags, a short cut that must be invisible |
| PIAs, `mc6821.cpp`, and interrupt routing, `machine.cpp` | control and data registers, lines | register access, edges, per-scanline routing | CPU, GIME, ACIA, keyboard, mixer | shared lines, acknowledge racing the next edge |
| GIME, `tcc1014.cpp` | MMU, timer, interrupt and video registers, page tables, derived video state | register access, scanline tick, rendering | CPU, machine, display | timer overshoot, tables that must equal the registers, renderers that must equal the reference |
| SAM/VDG and memory map, `machine.cpp`, `sam6883.cpp`, `mc6847.cpp` | map type, video mode, counters, page tables | bus access, register writes, scan lines | CPU, display | several decoders of one address |
| Sound mixer, `sound.cpp` | sources, gains, output | PIA and cartridge writes | PIAs, audio | updates skipped as inaudible |
| RS-232 Pak, `mc6551.cpp`, `hal_rs232.cpp` | ACIA registers, receive ring, pacing | register access, tick | CPU FIRQ, UART | overrun, pacing, echo |
| Audio feed, `hal/audio_feed.h`, `hal_audio.cpp` | sample ring, rate averages, DMA buffers | produce per frame, refill in a task | core 1, core 0, DMA | producer moves the consumer's index; rate control that lags |
| WiFi manager, `net/wifi_mgr.cpp` | state, credentials, scan, who powered the radio | connect, timeout, scan, forget | DriveWire bus, menus | late answers |
| Keyboard, joystick, `hal/` | key matrix, paced change queue, SHIFT | key down/up, tick | PIA 0, supervisor | order under pacing; keys released under another shift state or in the menu |
| Video output, `hal/hal_video.cpp` | framebuffer layout, borders | draw line, skip line, repaint, OSD | GIME, supervisor | skipped lines that were overwritten |
| Supervisor and menus, `src/supervisor/` | screen, popups, settings in use, settings in NVS, mounted images | key handling, save and restart, mounts | everything | settings that share the cartridge slot, some in use and some waiting for a restart; popups closed from outside; power lost between the keys of one save; restart from another core |
| Cartridge chips, storage, ROM loading, diagnostics | – | – | – | not modelled, section 6 |

What makes each correct is stated by its properties below. Hazards, each at the
line where it bites and with the properties that cover it, are listed in
`PROJECT.json`.

## 2. Modules

| Module | Models | Notes |
|---|---|---|
| `Becker` | `becker.cpp`, whole | One step per load or store the other core can see; `cpc`, `bpc` are the positions of the two cores. |
| `BytePipe` | what one ring promises | FIFO of bytes, flushed up to a mark; `Becker` implements it for both rings (`PipeSpec`, by `INSTANCE ... WITH`). |
| `DwClient` | `dw_client.cpp`, the shutdown wait of `dw_bus.cpp` | EXTENDS `Becker`: the client drives the real rings. Bytes are tagged with session and reset epoch. |
| `DebugRpc` | `debug_rpc.cpp`, its callers in `debug_server.cpp`, `loop()` in `TTGO-VGA32-COCO.ino` | A command is valid while its request waits, because it lives on the handler's stack. |
| `Ssc` | `ssc.cpp` glue | Firmware reduced to its use of port A and BUSY. |
| `DiskGeometry`, `DiskCache`, `DiskSafety` | drive table of `sv_disk.cpp` | Addressing arithmetic with its widths; mount, eject, flush; the same driven by sector writes, with a history of what the card did. |
| `Fdc` | the controller over `DiskCache` | One step per bus access with everything it triggers. |
| `Vhd` | `vhd.cpp` over `blockfile.cpp` | The file handle is external: position, direction, unwritten sectors. A flush, a seek or a close may drop any of them, or the length of the file, unseen; `lost` has the sectors this cost each image and that were not written since. |
| `Cpu` | run loop, `check_interrupts()`, stacking, traps, TFM | One step per pass of the run loop. Instructions are abstract; frames are not. |
| `CpuState`, `Hd6309`, `Isa` | registers, memory, flags, addressing modes and opcode rows of both builds | Operators from machine to machine. `m.hd` tells the builds apart. |
| `Programs` | short programs on `Isa` | Each test says what exact integer arithmetic, or the matching inverse instruction, must leave. |
| `IdleLoop` | `idle_insn()`, `idle_loop_ok()`, `idle_loop_check()` | Two machines, one that skips and one that interprets. |
| `BitSets`, `Mc6821`, `Sound`, `Ports` | PIA, mixer and what hangs on the PIAs | A register byte is the set of its 1 bits. |
| `Gime`, `Coco3` | GIME registers and derived state; the CoCo 3's decode and scan line | Memory is where an access lands, not what it holds. |
| `SamVdg`, `Coco2` | SAM, VDG; the CoCo 2's decode, callbacks and scan line | |
| `Machine` | both machines' frame loops | Composes all of the above; a scene chooses the writes the run begins with (`SetUp`), the accesses, the lines and the addresses the decoders are compared on. |
| `GimeRender` | per-mode renderers and the reference renderer | Contents of video memory and font are parameters. |
| `Acia` | `mc6551.cpp`, `hal_rs232.cpp` | Bytes are numbered. |
| `AudioFeed`, `AudioRate` | ring and DMA, step by step; rate control, frame by frame | `AudioFeed` leaves the choice of stride open, `AudioRate` makes it with the code's numbers. |
| `Wifi` | `wifi_mgr.cpp`, `dw_bus.cpp` settings, the calls of `sv_wifi.cpp` | The radio joins and loses networks by itself. |
| `Keyboard` | `hal_keyboard.cpp`, `hal_joystick.cpp`, bindings of `sv_keymap.cpp` | FabGL is external. |
| `Display` | `hal_video.cpp`, the dirty-line skip, the frame part of `loop()` | Sizes scaled down; a line is what its pixels depend on. |
| `Supervisor` | `supervisor.cpp` and the `sv_*.cpp` screens | Which screen and popup is open, the settings of this boot, those in NVS, the drives. A handler that saves several keys commits them one by one in the code's order (`saving`: what NVS held and will hold); power may be lost between any two commits, and `torn` has the parts (slot, bus, images) that were left neither old nor new. ENTER picks any row and a text is typed in one step. |
| `ModTheorems`, `PeripheralProofs`, `RequestProofs`, `DiskProofs`, `DeviceProofs`, `ChipProofs`, `GimeProofs`, `BoardProofs` | proofs | Section 5. |

`MC*` modules and `.cfg` files give the constants small values. Components that
do not touch each other share a run (`MCConsole`, `MCProcessor`, `MCRequests`,
`MCDevices`): the MC module has a variable `part` that is
chosen in `Init`, and a step is a step of that part while the others keep one
initial state. This adds no behaviour and hides none; every property still sees
each state of its own part. Operators whose comment starts with "Mutant" are bugs
such code could have; replacing the definition that follows by one of them breaks
a property (`mutants` in `PROJECT.json`), which shows that the property depends on
the code being as it is.

## 3. Runs

| Run | Question | Bounds |
|---|---|---|
| `dw_client` | Does each ring stay a FIFO within its size, with no slot read and written at once, and does a flush spare what comes after it, across resets, link loss and shutdown? Are resets, restarts and queued bytes always served? | RX ring of 1, TX of 2, indices modulo 8 from 6 so that they wrap after two bytes, two connects, one reset, back-off 1 to 2 (one doubling and the cap). The system stops after `esp_restart()`, so deadlock is not checked. |
| `ssc` | Does READY mean the byte was taken, do rings keep free what they overwrite, does a program that waits for READY lose nothing, and does READY return? | Command ring of 4, sample ring of 2, indices modulo 8, 3 data and 2 control writes: the ring fills and wraps. |
| `processor` | Does RTI find what was stacked, do waits end, do TFM and NMI survive interruption? Do instructions compute what they should, and is the idle-loop skip invisible? | `Cpu`: HD6309 build, two frames deep, W up to 2, two CC and two MD values besides those reset and interrupts give. `Programs`: both builds, operands at every sign, carry, half-carry and decimal boundary. `IdleLoop`: 31 loop bodies of every kind accepted or refused, two run calls with a write between. |
| `requests` | What core 1 does on request. Disk controller: one interrupt per command, never halted for ever, NMI and BUSY consistent, writes stored, deferred interrupts delivered. Debug bridge: no command executed twice, success means executed when no earlier command is pending, framebuffer held still, every request answered if the OSD closes. Menus: has the cartridge slot one owner in this boot and in the next, an External bus its host and ROM, a hard disk that is off no images, but for what a power loss tore? Is what applies at once saved? Does a restart bring up what its question named, with the disks that were mounted, also after a torn save? | One drive, one sector of two bytes, a raw track of 14 bytes, enough for one formatted sector; `FormatAlone` tries a track's bytes on one setting of registers and drive. Three requests: one that times out, one that meets its remains, one after. Menus: a cartridge named rgbdos.rom, one too large for a CoCo 2 and one refused, one floppy and one hard disk image, two floppy drives and one hard disk, two memory sizes, and at most two (`MaxChanges`) changes of the other settings, the bus, the drives or the power, so that a save may be torn and the next one too; Multi-Pak and Load Cart are not bounded. `OneTopic` opens screens whose settings depend on nothing else, and saves the processor, the memory size, the Speech/Sound Cartridge and the live settings, from the states of a first boot only. |
| `devices` | Is what the DAC plays what was queued, in order, once? Does the RS-232 Pak lose nothing it does not report? Is the radio on exactly when somebody answers for it? Is what the CoCo wrote to the hard disk on the card or in the open handle, but for what the card dropped, and does it read back? | Audio ring of 6, indices modulo 12, 13 samples, 3 DMA buffers of 2. ACIA: receive ring of 2, two bytes each way, two byte times, an `int32_t` scaled to 3 bits. WiFi: two networks, one server, timeout of 2. Hard disk: two drives, one image, sectors 0 and 1 and the refused offset, all six card faults; `OneDriveEach` leaves out states with the image in both drives, which the properties exclude as well. The view `MCView` leaves out what no later step and no property depends on: the variables of the parts that do not run, a core's locals before they are set again, the data register and ring places without a byte, the position of a handle that the next access moves or reopens, the content of a sector that the card lost, the hard disk's status and the sector it read last. |
| `board` | Do all decoders of an address agree after any order of register writes? Is a frame the lines, rows and interrupts it should be? Does the timer keep its rate, the mixer follow the pins, each mode's renderer equal the reference, a PIA interrupt come back each field? | 19 scenes, each with the registers it needs and up to 6 accesses; 16, 64 and 256 pages of RAM; full frames of 262 lines; real timer numbers. Decoders are compared on an address of every page, device and vector (`AllProbes`), in the scenes of whole frames, which are not about memory, on four. Renderers: up to 4 register writes over 1 KB of video memory with its wrap. |
| `console` | Are sectors dirty until on the card and nothing lost unless the card failed? Does the detected image fit its file? Does typing arrive in order and nothing stick? Is the picture current after a frame? Does the sound follow a change of speed? | Two drives, one image of two sectors, three values, all faults. Real file sizes on both sides of every threshold. Key queue of 2, hold 2 and gap 1, two keys held. Displays of 5, 6 and 8 lines, four events. Real frame intervals of 60, 55.6 and 39 FPS, one change, 200 frames. |
| `stale_reply`, `rpc_success`, `failed_flush`, `idle_list_walk`, `hd_picker` | Violations, see findings. | as the runs above; RX ring of 2 in `stale_reply` |

Passing runs fire every action of their next-state relations. Where several
statements describe one component a run checks their conjunction under one name,
and the parts keep theirs: `BeckerInv`, `DwInv`, `RpcInv`, `RingsSafe`, `DiskInv`,
`FdcInv`, `VhdInv`, `CpuInv` include the type invariants; `RequestsServed` is
`ResetDropsLink`, `ShutdownAnswered` and `TxDrains`; `ReadyFaithful` is
`ReadyMeansTaken`, `PoliteLosesNothing` and `ReadyAfterReset`; `InterruptsKeepWork`
is `NmiNotLost` and `TfmResumes`; `ComputesExactly` is `OperationsExact`,
`BranchesFollowOrder` and `CarriesChain`; `DiskInv` includes `NothingLostQuietly`;
and so on, at the definitions.

### Findings

* `stale_reply`: `dw_client.cpp:76`. A reply to a pre-reset request can reach
  the CoCo after its reset, which `becker.cpp:44` says cannot happen: the reset
  request is tested once per turn of `run_link()`.
* `rpc_success`: `debug_rpc.cpp:197`. `debug_rpc_submit()` can return true for a
  command that did not run; `debug_rpc.h:109` promises otherwise. The completion
  of a timed-out command is taken for the next one's.
* `failed_flush`: `sv_disk.cpp:894`. A stalled write is forgotten; `sv_disk.cpp:873`
  says the image "stays dirty if it fails".
* `idle_list_walk`: `mc6809_core_impl.h:2920`. `LDX ,X` / `BNE` walks a linked list,
  but LDX is classed as an instruction that repeats, so part of the walk is
  skipped; `mc6809_core_impl.h:2850` says "the result is the same as interpreting
  every pass". Its cfg gives `MCProcessor` that body alone.
* `hd_picker`: `sv_menu.cpp:854`. F3, and F1, close the menu before the Hard Disk
  picker sees the key, so `s_hd_open` stays set and the next Orchestra-90 or
  Speech/Sound row shows, and obeys, the Hard Disk picker; `sv_menu.cpp:780` says
  that "The Hard Disk row has its own picker".

### Known deviations without a run

Seen while modelling; the models contain the behaviour, the properties exclude it
or are weaker for it.

* `becker.cpp:176`: a second reset between the read of the mark and the clearing
  of the request is cleared with it, while the bytes queued between the two resets
  stay in the ring (`becker.h:82-83` says that clearing "discards the pre-reset TX
  bytes").
* `becker.cpp:187`: link loss that overlaps a reset drops bytes the CoCo queued
  after the reset.
* `debug_rpc.cpp:203`: core 1 may execute a command whose handler has returned.
* `debug_rpc.cpp:201`: with the OSD open a second request blocks the server
  although `docs/wifi-debug.md` describes a timeout.
* `debug_server.cpp:288`: save-and-restart flushes the disk caches from core 0
  while core 1 may be writing into them; the models make each cache operation one
  step, so this overlap is not in them.
* `ssc.cpp:528`: a data byte dropped at a full ring is counted as written. The engine
  never consumes it, so READY does not come back until the next reset of the
  cartridge, and not even then if the byte is dropped after the reset was queued
  (four control writes in a ring of two show it); `ReadyAfterReset` speaks of runs
  without a dropped byte.
* `blockfile.cpp:131`: `File::flush()` reports nothing, so a flush that the card fails
  leaves a clean image and command 2 answers OK, although `docs/vhd.md:92` says that
  it does "flush the image to the SD card". `CleanIsOnCard` bounds the damage: the
  sectors in `lost`, those that flush, seek or close was passing on, until they are
  written again.
* `sv_menu.cpp:953`, and `:795`: the owners of the cartridge slot are committed to NVS
  one by one, so a power loss in between leaves two, although `sv_menu.cpp:793` says
  "turning one on turns the other off". `SettingsSafe` says that only such a loss does
  it (`torn`).
* `supervisor.cpp:585`: a power loss between the commit of `vhd_en` and the removal of
  the images keeps them, so the hard disk, turned on again, does not start empty as
  `supervisor.cpp:583-584` says. `SettingsSafe` and `RestartObeys` exclude it through
  `torn`.
* `sv_disk.cpp:662`: the `.vdk` header is subtracted twice, so the last track of
  such an image may be cut off.
* `sv_disk.cpp:813`: eject frees a cache that could not be flushed.
* `sv_disk.cpp:100`: NMI is gated by the density bit.
* `sv_disk.cpp:340`: a deferred read uses the drive selected at that moment.
* `vhd.cpp:31-40`: a read that the card fails returns zeroes and status OK.
* `mc6809_core_impl.h:2755`: serving NMI resets the remembered level of the line,
  so a write to DSKREG while INTRQ is still up latches a second NMI, although the
  comment says "require new transition".
* `machine.cpp:962`: on the CoCo 2 both outputs of a PIA assign the same CPU line,
  so a keyboard read takes a pending vertical-sync request off the line;
  `FieldShape` says that each field raises it again.
* `machine.cpp:1201`: the comment says "GM0-GM2 come from SAM V0-V2, not PIA1";
  `update_vdg_mode_coco2()` takes them from PB4-PB6, as its own comment says they must be.
* `machine.cpp:714`: on the CoCo 3 the CPU's lines change at the end of a line
  only, so a source that was acknowledged still interrupts within its line.
* `machine.cpp:772`: if a program moves the top border down during the bottom
  border, the active area is entered a second time in a frame, against the
  comment's "exactly once". `FrameShape` speaks of frames whose video registers
  stay.
* `docs/coco3-gime.md:340`, `docs/video.md:154`: with 50 Hz, COCO mode and 192
  lines the area ends with the frame and VBORD does not come.
* `machine.cpp:362-366`: with MC3 clear, a write to $FE00-$FEFF over ROM is
  dropped although the comment says writes always reach the RAM beneath.
* `tcc1014.cpp:1476`: a line not drawn because its signature is unchanged is stale
  if another line was drawn over its row when the number of lines changed;
  `DisplayCurrent` speaks of pictures whose height stays.
* `sound.cpp:95`: switching the mixer keeps a MAME multiplexer state computed
  before the switch.
* `mc6551.cpp:204`: with no byte waiting the receive countdown goes on down and
  wraps as an `int32_t` after some twenty minutes, and a byte that comes then
  waits as long (`mc6551.cpp:216`: "picked up promptly").
* `mc6551.cpp:102`: an echoed byte overwrites one that is pending; a programmed
  reset reports TDRE while the line is busy. `TxInOrder` allows both.
* `audio_feed.h:134-153`: below 48 FPS the average only grows, so after a change
  from one such speed to a faster one playback stays at the slower rate
  (`docs/audio-hal.md:148`: "playback slows with it"); for a step to a speed between
  48 and 54 FPS the average lags and the ring runs dry once.
* `wifi_mgr.cpp:174-177`: after the saved network was forgotten,
  `wifi_mgr_connect_saved()` reports OFF and leaves a joined radio joined.
* `sv_joystick.cpp:89`: F3 or F1 on Mouse Sensitivity closes the menu without
  saving the level that is in use; `SettingsSafe` excludes it.
* `sv_filebrowser.cpp:398`: a mount that fails leaves the drive empty and its
  earlier image in NVS, so it comes back with the next boot; `RestartObeys`
  excludes drives after a failed mount.
* `sv_menu.cpp:397`: a change of machine may leave an External bus without the
  HDB-DOS ROM of the new machine; `debug_server.cpp:270-288` saves External without
  looking for any.

## 4. Fairness

Safety properties assume none. Liveness properties assume:

* `dw_client`: the client task and the CoCo's current call take their next step
  (FreeRTOS runs both cores; every blocking call in the task has a timeout).
* `requests`: `sv_disk_tick()` is called in every scanline; `loop()` and the server
  task go on. The OSD closing is a premise of the property, not an assumption.
* `ssc`: the chip task and the front end go on, and the firmware, which polls its
  port for ever, takes a byte it is offered again and again (strong fairness,
  because resets interrupt it).
* `processor`: the run loop is entered in every scanline, so a pass that ends a
  wait is made. HALT could stop it; `FdcInv` says it does not do so for ever.

## 5. Proofs

All proofs hold for every value of the constants that satisfies the named
assumptions in the modules: `SizeAssumption`, `DivideAssumption` (ring sizes divide
`W`, as powers of two divide 2^32), `BudgetAssumption` (fewer than `W \div 2` bytes
pass, which keeps `skip_to()`'s signed comparison right), `TagAssumption` (bytes are
named by the session and epoch they belong to), `NoneAssumption`,
`NoHandleAssumption` (a missing cache or handle is no image and no handle), and the
positive sizes in `SscAssumption`, `KeyqAssumption`, `DiskAssumption`,
`VhdAssumption`, `CpuAssumption`, `AciaAssumption`, `DisplayAssumption`, `BackoffAssumption` and
`BoundAssumption`. `ScenesAssumption` says that addresses have 16 bits, bytes 8, and there is RAM.
`FeedAssumption` has the order of the audio ring's limits, an index that wraps at a
multiple of the ring, and how late each core and the DMA may be. `WifiAssumption` says
that an empty name is no network. `FdcAssumption` says that an image is a whole number
of tracks (`sv_disk_mount()` computes `cache_size` so) and `BufferAssumption` that image
contents are sectors of bytes and a missing cache is no image. `KeyboardAssumption` says
that no joystick key is SHIFT, `ViewAssumption` that video memory holds bytes and a line
starts inside it.
`SupervisorAssumption` keeps floppy and hard disk images and slots apart, numbers the slots,
floppies first (`supervisor_save_state()` saves them in that order), names no file
with an empty string, and `orch90.rom` is not an RGB-DOS ROM. The inductive
invariants of the proofs are definitions of the component modules, where
TLC has checked them too.

* **Becker port** (`PeripheralProofs`): `BeckerCorrect`, `BeckerRingsBounded`,
  `BeckerRaceFree`, `BeckerCopies`, `BeckerIsPipe`. A ring's distance between head
  and tail is bounded, but the step that moves an index uses values read several
  steps earlier, so the bound alone is not inductive. `BeckerInv` adds, for each
  position of each core, how the values it holds relate to the indices (a tail read
  earlier is behind the tail; a flush mark lies between tail and head), as distances
  modulo `W`. `ModTheorems` has the arithmetic. `BeckerIsPipe` is the refinement of
  `BytePipe`: `RxQueue` and `TxQueue`, the bytes of the slots from tail to head, are
  the abstract queues. A copy is several steps and the tail moves at the last, so
  `CopiedInv` says that what was copied are the bytes at the front of the queue; that
  the slots stay what they are meanwhile is `BeckerInv` (`SlotsApart`: indices less
  than a ring apart lie in different slots). Then each step is a push, a pop, a drop
  of a prefix (both kinds of flush) or leaves both queues.
* **DriveWire client** (`PeripheralProofs`): `DwCorrect`, `DwPort`, `DwRaceFree`,
  `DwIsPipe`, `DwFlushSparesNew`. The client's steps are steps of the port's back end or leave it
  alone, which carries the port's theorems over to the composition. `ClientInv` ties
  the position of the task to the socket and to `bpc`, and says that what it is about
  to push fits. `RxTagInv` and `TxTagInv` give each byte in a ring, in the socket and
  in a core's hands a session or epoch that is not ahead of the present one, and an
  earlier one below a flush mark; a flush therefore skips old bytes only, also when
  the other core serves it late.
* **Speech/Sound Cartridge** (`ChipProofs`): `SscCorrect`, `SscRings`, `SscReady`.
  `SscInv` relates the copies of the indices each core works on to the rings
  (`CmdIndices`, `SmpIndices`), counts every byte (`BytesCounted`: consumed, in the
  ring, being pushed or dropped) and bounds what a program that waits for READY can
  have in the ring (`PoliteRoom`). Lemmas count the data bytes between two indices
  when a slot is filled or taken.
* **Debug bridge** (`RequestProofs`): `RpcCorrect`. A request is queued, executing,
  executed or given up; `CommandOnce` says that it is in one place only, `CleanRequest`
  that one that found the queue and the semaphore empty finds nothing but its own, and
  `PictureHeld` that `loop()` has drawn its last picture before the copy begins.
* **Menus** (`RequestProofs`): `SupervisorCorrect`, `RestartsObey`. Power may be lost after
  any commit, so the settings in NVS are sound only while no save is in progress. `SaveFits`
  speaks of the save instead: what it goes from and what it goes to are both right
  (`Good`, but for parts torn earlier), the latter is what the question named, with what is in
  the drives. It is shown once, of the settings as a whole (`Whole`), before the first commit; a
  commit leaves it alone, because it moves `prefs` only. When power is lost, a part
  of `prefs` equals the old or the new, and is right with it, or is torn from then on. A
  part is no longer torn when a save has written all of it whatever it found (`Settled`):
  Orchestra-90 either way, the hard disk on, or another cartridge settles the slot, but
  the hard disk off does not, since `hd_mode_save()` then leaves `orch90` as it is.
  A screen keeps a value between the question and its answer; `AnswersFit` says that it still
  fits then (a bus that was looked at, an image for which this boot has a drive), and
  `SettingsShape` which fields there are. "Hard disk off" needs that `orch90.rom` is not an
  RGB-DOS name, or turning it off could take Orchestra-90's ROM away. Orchestra-90 comes back
  with the boot's own cartridge (`CartSaved`) because that boot, unless its slot is torn, had
  no hard disk and neither has the next.
* **Floppy drive table** (`DiskProofs`): `DiskCorrect`. `DirtyCovers` (a sector in
  which cache and card differ is marked) is not inductive when an image is mounted
  twice, because one drive's flush changes the card under the other's cache:
  `SharedKnown` says that such images are in `shared`, and `MarkedWritten` that a
  marked sector holds what the CoCo wrote, which keeps the zero fill of a short load
  off the card.
* **Floppy images** (`DiskProofs`): `GeometryCorrect`, for every file size. What is left
  of a file behind its header is inside it or, when the subtraction wrapped, more than the
  510 tracks a disk can have (`GeometryAssumption`, true of 2^32); so what passes the test
  is inside, and halving and the `uint8_t` of the track count lose nothing but an odd track.
* **WD1793** (`DiskProofs`): `FdcCorrect`, `FdcOnce`, `FdcStores`. `FdcIInv` strengthens
  `FdcInv` and `InterruptsOnce` with `TransferHasRoom` (a sector transfer in progress has a
  byte left in the buffer, the WRITE TRACK parser's positions are in range, and nothing is
  deferred while a command runs) and `CachesWhole` (a mounted drive has the cache of a whole
  image). HALT can never stop the CPU for good because a busy controller always has DRQ
  up, which is why `NeverHalted` needs `BusyAgrees`. `Steady` is the invariant for an
  arbitrary record, so each lemma follows one operation from a steady record to a steady
  one: every command begins at rest (`Begun`), whatever it interrupts, and ends at once or
  starts a transfer. `CachesWhole` is proved for the drive table's own steps, which may come between
  any two bytes; `stable` says that none touched the drive of the transfer, and
  `FdcStores` is about those.
* **Display** (`PeripheralProofs`): `PictureCorrect`. `DisplayIInv` says that unless the OSD
  or the overlay has drawn since, a line with a signature is on its row as that says, if
  all lines were drawn at one height, and a border row kept as painted has that colour.
  A clean line may then be skipped because no two lines share a row and no line's row is
  a spare one: `LineBack` and `RowBack` show that `RowsLine` undoes `gime_display_y()`, for
  pictures lower than the layout and for those it drops lines of, one in `period`.
* **Keyboard** (`PeripheralProofs`): `KeyboardCorrect`. A queued change carries the SHIFT it was
  typed with. `KeyboardIInv` says that the changes of a cell alternate, from what the
  matrix has to what was typed (`QueueTypes`), and that a character was typed with the
  SHIFT which the changes before it leave (`ShiftsKept`). Both survive taking out the first
  change of its cell if it overtakes releases of other keys only, which is what the scan
  allows, and a full queue forces out the very first. `HeldDown` explains all that is
  down: a held key that is not a joystick direction, or the supervisor's coming. A SHIFT key
  explains SHIFT only if it cannot be a joystick direction, hence `KeyboardAssumption`: arrows
  and space are not SHIFT. `LeastOf` (any set of numbers has a least, from the
  well-foundedness of `<`) gives the tick its oldest due change.
* **Hard disk** (`DeviceProofs`): `VhdCorrect`, `VhdPosition`, `VhdSize`, `VhdClean`,
  `VhdReadsBack`. `VhdInv` says that the image seen through a drive (card merged
  with what the handle holds) is what the CoCo wrote but for the sectors in `lost`
  (`Shows`, `Agrees`), that a clean handle holds no write back, and that a known position and
  direction are the handle's. The last is what makes a skipped seek harmless; the
  first gives `ReadsBack` and `CleanIsOnCard`. What a failing card costs is bounded by what
  was pending (`Loss`): a dropped write falls back to what the card held before, and
  a dropped length cuts off what lies beyond it, so `bf->size` lies between the
  file's length and that of what was written. Lemmas show it operator by operator
  (reopening, seeking, transfer, flush, close), then action by action. Images that were in
  both drives at once are excluded through `shared`.
* **Audio feed** (`DeviceProofs`): `FeedCorrect`. The producer rewrites the consumer's
  index when it restarts a dry ring, on a fill it computed earlier, so `RingAgreed` needs
  what each core knows at each position (`RingKnown`), where each sample is (`RingHolds`)
  and what may have happened since the fill was computed (`SteerKnows`): a ring that was
  at its target is not dry before `audio_feed_steer()` is done, or the restart would go
  back to samples already played. This is where `BURST` enters: with
  `BURST < AUDIO_FILL_TARGET` only, TLC plays a sample again, because a word may take two
  samples. The target of 774 leaves room for 386 words, 24 ms. `DmaKnown` counts buffers
  from the last one polled: those the DMA passed and those to be refilled do not overlap.
* **RS-232 Pak** (`DeviceProofs`): `SerialCorrect`. `RxKnown` has the host's bytes in four
  places (read, register, ring, UART0), each rising and before the next (`InLine`), and
  counts them; lemmas follow one byte from a place to the next, and `RingTaken` and
  `RingFilled` show that the ring with its two indices is such a place. `TxKnown` says what
  the slot of one may hold: nothing, until an echo or a programmed reset lets a second byte
  in (`torn`), and afterwards a byte below all that went out, so what is lost is lost but
  nothing is sent out of order. The interrupt needs no strengthening.
* **WiFi manager** (`DeviceProofs`): `WifiCorrect`. `RadioAndBus` is not inductive: the
  state `off` with a live connection is allowed after `connect_saved()` without
  credentials, and the next scan or stop must not make it a joined radio that is off.
  `WifiIInv` adds `OffIsQuiet` and the types. `ScanGivesBack` follows a scan and its
  release as one value, because `scan_powered` is raised and lowered within one call and
  the radio it took over is off afterwards unless somebody was using it.
* **CPU** (`ChipProofs`): `CpuCorrect`, `CpuFrames`, `CpuOneFrame`, `CpuUnmasks`,
  `CpuKeepsWork`. Taking an interrupt pushes a frame and enters a handler, and after
  CWAI only the second; `Shape(c, n)` is the invariant with `n` frames not yet owned
  by a handler. CWAI needs one conjunct more: the waiting frame's CC is the CPU's, so
  the interrupt that ends the wait was unmasked in it. That an interrupted TFM goes
  on with its own `W` needs `WorkInv`: a FIRQ frame has no `W`, so the value is in the
  nearest frame above that has one, or still in the CPU, and a handler that runs a TFM
  itself owns a frame that keeps the outer one's.
* **Renderers** (`GimeProofs`): `RendererCorrect`, for every content of video memory and
  font and whatever is written to whichever address. `RenderIInv` says that the geometry
  which the GIME keeps is the one its registers give, though only some writes recompute it:
  lemmas show that the others (`Kept`) touch nothing it is computed from. Then both renderers
  stop at the same byte, `ReferenceFetches` and `LineFetches` show that the one-byte cache,
  the pointer and the staged copy give the same byte (the X offset is even, so the second
  byte of a pair never leaves the window), and `BytesAgree` compares mode by mode.
* **Machine** (`BoardProofs`, over the lemmas of `GimeProofs`): `DecodersAlwaysAgree`,
  `MixerAlwaysFollows`, `TimerAlwaysKeepsRate`, for both machines, any RAM size, cartridges, keys and accesses,
  and any 16-bit addresses; the only assumption is `ScenesAssumption`, that addresses are
  addresses, bytes bytes, and there is RAM. `MachineIInv` has for each of them what its
  property leaves out, and is proved step by step through the whole machine: a write may
  reach the GIME, both PIAs, the SAM, a cartridge and the mixer at once, and a line moves
  the timer, the interrupts and the video counters.
  `InForce` says that the eight page pointers, the bank and `Geometry` are those of the registers
  (`Mapped` for the GIME's MMU, `Paged2` for the CoCo 2's map type). `DecodersAgree`
  compares answers, not pointers, and at an address of each 8 KB page with a RAM pointer the
  registers could have moved unseen; so each write is shown to leave pointers and registers
  together, by recomputing the page or because nothing it depends on has changed. Then four
  ways of answering are compared region by region: the CPU's pointers, the short cuts of
  `machine_read()`, the decode chain and the vectors' page.
  The mixer needs no strengthening but must be carried through every other operation, since
  the multiplexer and the DAC share their pins with the keyboard and the joystick.
  `TimerLeft` gives what the timer has left as its period times the expiries plus
  one, less what the lines took; that the remainder lies within one period makes the number
  of expiries the quotient. On the fast clock a line may expire the timer
  several times; the code's loop over them is one step here (`Expiries`), and reload 0 and
  the line clock are cases of their own.
* **Frames** (`BoardProofs`): `FramesKeepShape`. `FrameShape` speaks of the end of a frame
  and of the row the beam has reached; `FrameIInv` says, for every line, what `l` lines after
  the vertical blanking imply: the line counter is `l`, the area is active exactly between the
  top border and its end (`Beam`), the rows drawn give address and row (`RowReached`), and
  VBORD is neither latched nor counted until the area ends and is counted once after
  (`Bordered`). It rests on `MachineIInv` (the geometry in force is the registers') and needs
  one fact more, which is why it is not part of that: no IL input is VBORD's, else a key
  would latch it. Each operation is shown to leave alone what a frame depends on
  (`SameView`, and `SameWatch` for VBORD), as far as the history claims it: a write to
  `VideoRegs` ends `steady`, one to `IntRegs` ends `listening`. Reading `$FF92` clears VBORD in
  a listening frame; then it is not latched again, because the area ends once. `NextOfRow`
  turns the row counter, which the code resets when `RowFull` holds, into a quotient and a
  remainder; `RowEnds` checks that for every row mask of the tables.
* **Fields** (`BoardProofs`): `FieldsKeepShape`, an action property of the CoCo 2's lines,
  for every matching pair of SAM and VDG modes and every display base. `FieldShape` speaks of
  the byte that a line shows; `FieldIInv` adds `Walked`, what the SAM holds between two
  lines: the address of the row reached, modulo 64 KB, and how many of the row's lines are
  counted, by X where a row has 16 bytes and by Y where it has 32 (`RowTables` reads that
  off the tables). `LongLine` and `ShortLine` take the counter through a line: the fetch in
  chunks, each through the divide stages, then the horizontal sync's addition and the clearing
  of the low bits, which returns to the start of the row or goes on to the next. `VdgFollows` keeps
  the VDG's copy of the display base equal to the SAM's, which text mode reads. A write that
  ends no `steady` frame is shown to leave both chips alone, so the history must know every
  address that reaches them: port B of PIA 1 repeats every four addresses on the CoCo 2
  (`Mirrors`), and a program that turns graphics on at $FF26 in mid-field is the scene
  `Mirrored`. That no frame is steady before the setup is over comes from `FrameIInv`. The
  interrupt half needs no strengthening: the edge sets bit 7 of the control register
  and assigns the line, and nothing after it in the line assigns it again.

Only model-checked: liveness, which the proof system does not reach; what recursive
functions compute; `SoundFollowsSpeed`, which follows the
rate control from frame to frame with the code's own numbers, and holds of the speeds of the run, not of all. `CpuState` uses
bitwise operators, which rules proofs about it and the modules over it
(`Programs`, `IdleLoop`) out.

## 6. Not modelled

Sound synthesis and the cartridge's chips (data without control, or a ROM that is
not here), ROM loading, HTTP and JSON parsing, drawing, cursors, scrolling and
folders of the menus, the settings the debug server changes by itself, measurement
code, vendored libraries. In modelled parts: cycle counts of instructions, glyphs
and VDG colours, sample values, the second side of a floppy in `Fdc` (covered by
`DiskGeometry`).

## 7. Plan

1. The save-and-restart path of `debug_server.cpp:288` against cache operations
   split into their steps.
2. The bits of `CpuState` as sets (`BitSets`), so that `SkipIsInterpreting` could be
   proved as well as checked.
