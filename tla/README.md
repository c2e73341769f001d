# Formal model of the doorbell camera firmware

The repository is the firmware of a battery-powered doorbell camera. Three processors share the
work:

- the **Anyka application processor** (`src/baterycam/platform/apps`), which encodes video and
  audio, takes pictures, records clips and uploads them;
- the **CC3200** WiFi processor, which carries everything to and from the network and is reached
  over one SPI bus;
- the **STM8** (`src/baterycam/component/3rdparty/STM8L151F3`), which switches the supply.

This directory holds TLA+ modules for the parts of the application in which several tasks, or a
task and another processor, can get in each other's way; TLC configurations that check them on small
instances; and TLAPS proofs for every value of the constants. Paths below are relative to
`src/baterycam/platform/apps`, those of the STM8 to
`src/baterycam/component/3rdparty/STM8L151F3/ak_stm8/project`.

The modelled build is the one `config/ak_apps_config.h` and `config/config_model.h` select:
model 003 (`DOORBELL_TINKLE820`), no SD card, `CFG_USE_SCHEDULER` not set. Two parts go beyond
it, because their logic is worth it: the streaming of recordings (`p2p_sdcard_streaming/`), which
needs an SD card, and the STM8's partner `ring_ipc/camview_main.c`. The makefile does not list the
latter; it is the application of the tree that speaks the STM8 firmware's protocol in full, with
restart count and fast link (`ring_call/`, which the makefile lists, speaks an older subset).

## 1. Inventory

### How the parts interact

    camera --> video encoder --+--> FLV engine --> ping-pong buffer --> recorder --> clip (memory)
    microphone -> audio encoder+                                                        |
         |                                                                              v
         |       ring --> spi_cmd --> snapshot task --> picture buffer --------> uploader
         |                  ^                                                      |   ^
         v                  |                                                      v   |
      data channel     command channel    fw-upgrade channel <-> fwupgrade    upload channel
         \____________________|___________________|___________________________/
                              SPI task (bus master)  <=====>  CC3200

Every task is a thread; they talk through the channels of the SPI layer (a ring buffer and a
mutex each), through plain global flags without a lock, through one semaphore, and through a
file kept in memory.

### Components

| Component | State it keeps | Operations | What is hard |
|---|---|---|---|
| Ring buffer (`ringbuffer/`) | `length, start, end, buffer` | write, read, available data and space | cells come back only when it is drained; amounts by subtraction and `%` |
| SPI transfer layer (`spi_layer/spi_transfer.c`) | a tx and an rx ring per channel, their mutexes, the dummy timer | `spi_*_send`, `spi_*_receive`, `spidata_put`, `spidata_pop`, the SPI task's loop | several producers per ring; one task that serves all channels; packets lost on the bus |
| Event pipeline (`spi_cmd/`, `video/ak_video.c`, `flv_recorder/rec.c`, `uploader/upload_main.c`) | `g_event_info`, `g_SpiCmdSnapshot`, `g_iDoneSnapshot`, `g_isDoneUpload`, `g_RecordDone`, the picture buffer, the clip | a ring; take a picture; start, run and end a recording; add the event; send picture and clip | four tasks, no lock, flags read and written in any order |
| FLV recorder (`flv_recorder/`) | the engine's lock, two halves, the third buffer, the muxer's header | push audio or video, flush to file, search for a key frame, write | two producers and a slow reader; state changes between two critical sections |
| Firmware upgrade (`fwupgrade/`) | the task's state, the image in memory, `KERNEL` and `UPFLAG` partitions | receive, verify, burn, reset | power may go at any moment; packets repeated or of another image; errors of the flash, some of them not seen |
| Upload transport (`uploader/upload_over_spi.c`, `connect.c`) | `g_iPosition`, the window, the rings of the upload channel | send a block, poll for positions, end the request, receive, close | lost packets and answers, old answers, timeouts, calls that come back short |
| P2P streaming (`p2p_sdcard_streaming/`) | the packets' acknowledgements and times, `iPidSend`, `iSmallPidSend`, `g_iP2pSdStreamStart` | load, send, resend, take an acknowledgement, end | losses, acknowledgements of an earlier stream, a full ring, two tasks on one flag |
| Settings (`spi_cmd/doorbell_config.c`, the flip commands, the video task's loop) | the flash, the table in memory, `flip_update_*`, the sensor | get, set, apply | no lock between command and video task, on the flags and on the table they both clear and print; failing writes; values out of range |
| Other commands, start-up (`spi_cmd/`, `main_ctrl/`) | single settings | one handler per command | little: one task |
| Video and audio encoders, talkback (`video/`, `audio/`) | encoder handles, a jitter buffer | encode, play | real time, vendor libraries |
| Scheduler layer, SD card (`scheduler_layer/`, `sdcard/`) | packet queues, resend lists | not built | resending, windows |
| STM8 power controller (`main.c`, `usart1.c`, `stm8l15x_it.c`) | the supply, the wake-up source, the command in hand, the restart count | switch on and off, answer, restart, halt | interrupts at every place of the main loop |
| Camera application (`ring_ipc/camview_main.c`) | `wakeup_cnt`, whether the network is up | ask, connect, restart, sleep | loses its memory with its power; requests sent once; a watchdog |
| Kernel, libraries, other applications | | | vendor's, or not linked |

### What makes each of them correct

- *Channel*: a FIFO of whole packets whatever its callers do at the same time; refusals only
  while something is queued; the index arithmetic never leaves the buffer.
- *SPI task*: no channel waits for ever because of its own traffic; commands are worked off.
- *Event pipeline*: a picture is sent whole and at most once; it is never overwritten while it
  is needed; a request is answered or turned down; the handshake never gets stuck; the clip that
  is sent is finished.
- *FLV recorder*: no buffer overrun; a clip opens with a key frame, is in order, and lacks only
  what was deliberately given up; every recording that finds the engine initialised ends.
- *Firmware upgrade*: `UPFLAG` says "finished" only over a whole kernel, whenever the power
  goes (which holds except after failures the code does not see); an image sent properly is
  installed.
- *Upload transport*: what counts as sent has arrived; every packet carries the bytes of its
  position; a request that is ended is whole; the request gets through when the losses stop; an
  answer is taken without gap or repetition, and the socket is closed whatever the CC3200 does.
- *P2P streaming*: what is marked acknowledged has arrived; a stream that counts as done is whole;
  the oldest missing packet is always tried again; a stream ends.
- *Settings*: an answer of success is what the flash holds; what is stored takes effect.
- *Power controller and camera*: in halt it can be woken; the source it tells is true; the
  restarts are bounded although the camera forgets them; a fast start only of a WiFi chip that
  sleeps; a camera that asked to sleep does not stay up for good, and no command waits for ever.

The hazards behind these properties, each with the line where it bites, are listed in
`PROJECT.json` under `hazards`.

## 2. Modules

| Module | Models | Extends / instantiates |
|---|---|---|
| `RingBuffer` | `ringbuffer.c` as operators on the struct | |
| `BoundedFifo` | *abstract*: what a channel promises | |
| `SpiChannel` | `spidata_put`, `spidata_pop` under the mutex, step by step | `RingBuffer`; refines `BoundedFifo` |
| `SpiTransfer` | the SPI task, all channels, the CC3200's packets | `RingBuffer` |
| `PictureSlot` | *abstract*: what snapshot task and uploader promise about the picture buffer | |
| `EventPipeline` | the four tasks from ring to upload | refines `PictureSlot` |
| `FlvPPBuff` | engine, ping-pong buffer, recording loop | |
| `FlvMuxer` | what the muxer reads in a video frame | |
| `Installation` | *abstract*: what the upgrade promises about the kernel that can be started | |
| `FwUpgrade` | `fwupgrade_task` and `fwupgrade_kernel_ota` | refines `Installation` |
| `Delivery` | *abstract*: what a sender in pieces over a lossy way promises | |
| `UploadLink` | what both directions of an upload share: `g_iPosition`, the two rings, the caller | |
| `UploadSend` | `upload_send_api` and the loops that call it | `UploadLink`; refines `Delivery` |
| `UploadRecv` | `upload_recv_api`, `upload_close_api` and the loops that call them | `UploadLink` |
| `UploadSession` | a request and its answer, one after the other over the same rings and `g_iPosition` | `UploadSend`, `UploadRecv` |
| `P2pSdStream` | the streaming task, the commands that start it, the phone | refines `Delivery` |
| `Settings` | the flip settings in flash, table, flags and sensor | |
| `Stm8Power` | the power controller: main loop, commands, interrupt handlers | |
| `Camview` | the camera application as far as its power goes | |
| `WakeCycle` | both together, with the UART between them | `Stm8Power`, `Camview` |
| `MC...` | values for TLC | the module of the same name |
| `...Proofs` | theorems and proofs | the module of the same name; `SpiProofs` is about both `Spi` modules, `UploadProofs` about `UploadSession` |

Operators in the modules that follow a comment `Fault:` are not the code: they are faults used
to show that a property notices them, each listed in `PROJECT.json` under `mutants`.

### RingBuffer, SpiChannel and BoundedFifo

The struct is a record, a cell is a group of bytes that always moves together.
`RingBuffer_write` and `RingBuffer_read` are split in two halves, memcpy and commit of the
index, as two threads could interleave them. `SpiChannel` runs them under the lock: a call is
the four steps lock, copy, commit (or refusal), unlock, one action each, so that it is the mutex
and not the model that keeps the calls apart. `ImplementsFifo` states that the whole is the
atomic `BoundedFifo`: the mapping takes a put to its commit and a pop to its copy (`Queue`,
`Returned`). The property is not obvious from the code: the "ring" hands cells back only when it
is empty, in two different places (a write's reset when `available_data == 0`, a read's when it
has caught up), and an amount is computed as `end % length - start`.

### SpiTransfer

The atomic channel that `SpiChannel` justifies is used here for every channel. `TopOfLoop`,
`TakePacket`, `ChannelDrained` and `Exchange` are `spi_main_loop`: one pass over the channels in
their order, each drained by an inner loop that does not end while packets are there, with a
dummy exchange after the data channel while dummies are still sent. Every exchange may bring one
packet from the CC3200, which goes to the rx ring its type selects or is dropped when that is
full; any exchange may fail. `iSendDummy1Second` is the flag `dummies`, which falls for good at
some time.

### EventPipeline and PictureSlot

One action reads or writes one shared variable, except where no other task can change a second
one in between. The locals each task holds on to across its waits are variables (`snapMode`,
`upMode`, `firstTime`). Waits with a limit may run out at any moment: `ClipTimeout`,
`AddEventFails`. The variable `record` is `g_RecordDone`, which nobody clears before a new
recording; `clip` is the file in memory. `PictureSlot` is the promise: filled, published,
claimed, sent or discarded, in that order. The mapping `Slot` reads it off the places of the two
tasks and the flag `g_iDoneSnapshot`.

### FlvPPBuff

A packet is a number, the kind of its producer and whether it is a key frame; sizes are counted
in small units (a key frame takes `KeySize`). The engine's lock is explicit (`engine`), because
the room that `PrepareSize` makes under the buffer's own lock is used after that lock is
released. The recording loop is broken up at every point where the producers can run: copy of
the half, search for the key frame, second reading of the size, write, check of the clock.
`StartRecording` opens the file and `WriteHeader` is the first part of the loop, which is tried
again every half second as long as the engine is not initialised (`rec.c:90-97`) and looks neither
at the clock nor at a limit meanwhile: only once the buffer is `ready`, and so the engine
initialised, is the header sure to be written. A header that is refused for want of room is left
out: the file is new and takes 2 MB, while `mux->header` has 2048 bytes.

`dropped` is a history variable: the packets in a half that was overwritten unread or reset, or
passed over before the first key frame.

Only a frame whose time stamp is 0 resets the buffer (`tsReset`), the bytes of the FLV tags are
left out, `FLVPPBuffFlushCurrent` is never called, and the wait for `ready` has no
limit.

### FlvMuxer

The pure part of the muxer: `ParseFrame` as a recursive function over the units of a frame
(`Search`; `TakeUnit` is one turn of the loop at a sync word), and what `FLVMuxerFillVideo` keeps of
it. `EncoderFrame` says what the encoder makes: a slice, all slices of one kind, and only parameter
sets or slices right after a parameter set. The order matters to the code: see the observation about
`mux.c:236`. `Frames` are the frames TLC tries: other units first, parameter sets of sizes on both
sides of the room for them, one or two slices. The reference, `LastOf`, looks at the list of units
and not at how the search found them. The module has no state; `FlvPPBuff` extends it and ties it to
its packets (`ParametersKept`).

### FwUpgrade

`binary` is the image as far as it has been received, `inbox` the rx ring of the channel, in
which the CC3200 may put any packet of any image at any time. `fwupgrade_kernel_ota` is a handful of
actions, so that the power can go between any two and within the burn (`Torn`). The digest of an
image is the image.

`ak_partition_write` may answer -1, "failed" (`platform/libplat/include/ak_partition.h:19`), and
`fwupgrade_write_partition` takes that for success (`fwupgrade.c:135`). These are the actions
`EraseUnseen`, `BurnUnseen` and `FinishUnseen`: the partition stays as it was (`KERNEL` torn) and the
upgrade goes on. A partition that cannot be opened is an error the code sees (`Refused`). Images
differ in length. The buffer is as long as the image of the first packet (`room`), while the packets
are checked for their position only, so the packets of a longer image go beyond it; what lies there
is somebody else's and may be overwritten at any moment (`Overwrite`). What the task itself destroys
there is not modelled. The history variable `unreported` says that what the partitions hold is owed
to one of these two. `KernelIntact`, that a finished `UPFLAG` means a whole kernel, does not hold
(finding 2); `TornIsUnreported` says that nothing but these two breaks it. `ImplementsInstallation`
maps all of this to `Installation`: the kernel that may be started is the one under a finished
`UPFLAG`, it is withdrawn and replaced at one instant each, and only a failure nobody notices
suspends the promise, until the next step that withdraws the kernel or puts a whole one in place.

### UploadSend

A packet says which bytes it carries and for which position. The window's count and position are
variables, so a packet is one step and the SPI bus and the CC3200 can act between two. The
CC3200 is external: it takes the packet at the position it wants, passes over the others, and
answers with the position it wants then; this is what `upload_send_api` relies on when it reads
positions. Packets and answers may be lost. The two kinds of caller differ in what they do after
a short call: `upload_all_in_one_add_eventid` closes the socket, `make_request_event_add` goes
on from its own count, which must agree with `g_iPosition`. The second is reached only under
`FIRST_EVENT_REST` (`http.c:715`), which the modelled build does not define; it is modelled because
the transport is written for both, and every theorem about the transport holds for both.

### UploadRecv

The other direction. `RecvCall` is the beginning of `upload_recv_api`: the first one tells a position
and later ones go on from `g_iPosition`; `TakeData`, `PassOver` and `SeeEnd` take one packet out of
the rx ring (data in place, data out of place, the end); `Wait` repeats the position, `TimesOut` is
the call's clock. `first` is `g_first_recv_call`. The callers differ again:
`upload_all_in_one_add_eventid` is content with the first packet, whatever is left of the answer,
and counts its calls; `fetch_response` (again only with `FIRST_EVENT_REST`) appends packets until a
call brings none, so a call that runs out of time in the middle ends the answer unnoticed. How much
of the answer a caller keeps is therefore no property of this code; that what it has been given is
without gap or repetition, and that the CC3200 never takes more for confirmed, is. A CC3200 that
never answers is `CCSilent`; it may also answer the same position twice.

### UploadSession

Both directions over the same variables (`UploadLink`): `BeginAnswer` is the first call of
`upload_recv_api`, when packets of the request may still be in the tx ring and positions in the rx
ring; neither is an answer (`Leftover`, `Other`), and the first is still answered with a position.
`CloseUnsent` is the close after a short call. `g_first_recv_call` may have been left set by an
earlier answer that was not read to its end (`SessionInit`). The packet that ends the request is sent
once and not answered; if it is lost the CC3200 is silent and the calls run out. The session ends
with the socket closed, and the run allows deadlock. `ImplementsDelivery` maps the bytes the CC3200
has and the bytes `upload_send_api` counts to `Delivery`: what is counted has arrived
(`AckedHasArrived`, which the proof needs as an invariant), it is never counted back from one call,
window or round to the next, and the request is ended when all of it is counted.

### P2pSdStream

One pass of the task is cut where it looks at the clock, the ring or a variable of the command
task. `Wanted` decides about the packet at `iPidSend`: never sent, or unacknowledged for 1.3 s
(`Due`). A packet may be refused by the ring and is then passed over (`PassOver`), as in the code.
An acknowledgement names the smallest missing packet and a bit for each one that follows; it does
not name its stream, so one of an earlier stream that arrives late is taken for one of this
(`trusted` is a history variable that becomes false then). `late` stands for an acknowledgement
still on its way when a stream begins. A stream is a `Delivery` too, of its packets, as long as
`trusted` holds: it begins with nothing acknowledged, forgets no acknowledgement and, where a stop
or the 7 s have not ended it, is done with all of them. The task may exit when a recording cannot be opened at the
start; the run allows deadlock for that.

### Settings

The command task's handling of a flip is cut at every access that the video task can come
between: reading the flash (and the table with it), comparing and storing, raising the flag. A value
of the command is a flip or `Invalid`; `SetInRange` turns the latter down, and `RaiseFlag` puts it
into the flag all the same, as `spi_cmd.c:651` does. The flip command reads into the flag itself and
the flag is read once more for the table (`PrintFlag`), when the video task may have taken it back
to -1. The video task's pass is: see a flag; for each item read it, clear its entry of the table and
print what was read into it; apply both; take the flag back. The entry is shared without a lock, so
`ClearEntry` (`memset`, `doorbell_config.c:441`) and `PrintEntry` (442) are steps of their own: in
between the command task compares with 0. In the command task, the only one that writes and
compares, clearing and printing is one step. A print is one step; two tasks that print into one
entry at the same time are not modelled.

`doubt`, `sure` and `missed` are history variables: they name the situations in which the
code's answer or effect is knowingly wrong (see the observations), so that the properties can say
that nothing else goes wrong.

### Stm8Power, Camview and WakeCycle

`Stm8Power` has one action per stretch of the main loop between two places where an interrupt
makes a difference, and one per interrupt handler; handlers may run at any of them. `TestUart` and
`Serving` dispatch on the command; `which_wakeup` is three steps (look the source up, send it,
erase it), because handlers record sources meanwhile. `Camview` is a small machine: off, booting,
asking, connecting, working, put to sleep, hanging, configuring. `WakeCycle` joins their actions:
the controller's `PowerOff` resets the camera, the camera's requests are `Receive` interrupts, the
answer wakes the camera's wait. The threads that keep the network up go on when the main loop has
put the WiFi chip to sleep (`Online`): they share `g_net_conn_sta` with it without a lock, and
`Connect` may write `NET_STA_NORMAL` over `NET_STA_WIFI_SLEEP`. `since`, `hit`, `cycles` and `gaveUp`
are history variables.

## 3. Runs

| Run | Question | Result |
|---|---|---|
| `spi_channel` | Is a channel a bounded FIFO of whole packets, whatever the interleaving? | holds |
| `spi_transfer` | Does a channel's own traffic starve it? Is the command channel worked off? | holds |
| `event_pipeline` | Is the picture handed over whole, once, in order, and the first clip finished? Does every request end, and the handshake return? | holds |
| `flv_buffer` | Overruns, order, key frame, silent losses, end of a recording; parameter sets | holds |
| `fw_upgrade` | Power cuts, mixed transfers, images of two lengths, unseen errors of the flash: is a torn kernel always owed to one of them, and a properly sent image installed? | holds |
| `upload_session` | Request: losses, short calls, old positions beyond a block. Answer: no gap, no repetition, no confirmation ahead of the caller. Is the socket closed? | holds |
| `p2p_stream` | Is what is acknowledged there, is a finished stream whole, does it end? | holds |
| `settings` | Is an answer of success true? Does what is stored take effect? | holds, with the excuses named in the properties |
| `wake_cycle` | Is what the controller tells true, are restarts bounded, does the camera get to sleep? | holds, with the excuses named in the properties |
| `clip_complete` | Is the clip that is sent finished? | **violated** (finding 1) |
| `fw_silent_write` | Is a kernel under a finished `UPFLAG` whole, whatever the flash answers? | **violated** (finding 2) |
| `lost_wakeup` | Can every source wake a controller in halt? | **violated** (finding 3) |

The type invariants of most modules are proved (section 4) and not part of the runs; that
of `SpiTransfer` is checked as well, since it holds the order of the ring indices.

### Bounds, and why they are enough

- `spi_channel`: two producers and one consumer, packets of two cells (so that one can be torn),
  room for three packets and one odd cell (so that a put can be refused with cells free, and the
  drained ring can be rewound by either side). Threads of one role are alike, and the ring looks
  only at amounts.
- `spi_transfer`: three channels: data, which has no poller; command, which has; and one more;
  one to three packets each, which is enough for full, refused and drained. The other channels
  are copies of these. `BootDummies` first packets as in the code.
- `event_pipeline`: two pictures, so that the wrong one shows; no other bound: the state space
  is finite because every flag is. Rings come at any time, for ever.
- `flv_buffer`: two producers, halves of three units (a key frame takes two, so both "fits" and
  "does not fit" arise), six packets and two clips: enough for two switches of the halves during
  one clip and for a second clip over what the first one left. `MaxPackets`, `MaxClips` and
  `ClipRoom` bound the behaviour; they are in the guards and named in the module. `LiveSpec` is
  `Spec` and the fairness; when the packets are used up the producers rest, so the run allows
  deadlock. The frames of `ParametersKept` have up to two other units, three parameter sets and two
  slices, so that a set comes twice and a slice follows a slice; sets of 5, 1023 and 1024 bytes lie
  on both sides of the room of 1024. The proof has no such bounds.
- `fw_upgrade`: three images, of two and three packets, one of which begins like another, so that a
  transfer can be mixed up, be too long for its buffer, and be caught by the digest only; two packets
  in the ring. Any write may fail unseen, any number of times. `fw_silent_write` needs one image.
- `upload_session`: blocks of at most five bytes in packets of two and windows of two packets (a
  short last packet, more than one window per block), a request of six bytes (at least two
  blocks), rings of two packets (a window and its repetition do not fit), two old positions beyond
  a block; answers of four bytes, so of two packets or more; two packets out of place per call and
  three empty calls (in the code 10, and 30 or 20): enough for both limits to be reached in the
  middle of an answer, and the ring makes packets of repeated positions come late. Both callers. The
  state space is finite without further bounds. A closed session has no next step: the run allows
  deadlock.
- `p2p_stream`: files of one and two packets, two packets between looks at the acknowledgements,
  two bits in one, room for one packet in the ring: a hole behind an acknowledged packet, a refused
  packet, a full batch and a wrap of `iPidSend` all happen. Files of three packets pass as well
  (880,000 states, not part of the runs for its time).
- `settings`: two commands that ask for opposite flips, one of them with a value that the range check
  refuses, so that settings of both kinds, mixed ones and flags without a flip arise; commands and
  restarts go on for ever, there is no other bound. `Loaded = TRUE` is the longer path of
  `doorbell_cfg_set_item`; the proof covers both.
- `wake_cycle`: three restarts, as `APP_RESTART_CNT_MAX`; counts in a command up to the same.
  Sources fire at any time, for ever.

Deadlock is checked in the other runs.

### Fairness

- `SpiTransfer`: weak fairness of the SPI task, which never blocks, and of the tasks that poll
  their rx ring with a short sleep. Nothing is assumed of senders or of the CC3200.
- `EventPipeline`: weak fairness of snapshot task, recorder and uploader. Their waits poll or
  have a limit, or are for what another of the tasks does (a ring, a picture), which is in the
  model. Nobody has to ring.
- `FlvPPBuff`: weak fairness of each producer while packets are left, of the recorder, and of
  the clock that ends a clip; of the writing of the header only once the buffer is ready.
- `FwUpgrade`: weak fairness of the task. `Installs` states its further assumptions itself: from
  some time on no partition that cannot be opened, no write that answers -1, power that stays on, a
  CC3200 that follows the positions. What went wrong before is arbitrary.
- `UploadSession`, sending: weak fairness of the caller and of the CC3200's answers, strong fairness
  of reading an answer: a poll lasts 140 ms and reads what is there, so an unread position cannot
  be missed for ever. `Finishes` assumes that at some time the losses stop. Receiving: weak
  fairness of the caller and of its clock (`TimesOut`), since each wait is a loop with a limit;
  nothing is assumed of the CC3200.
- `P2pSdStream`: weak fairness of the task, which sleeps but never blocks, of time (`Due`), of the
  SPI exchange and of the phone's acknowledgements. `StreamEnds` assumes that from some time on
  packets arrive and no new start comes; `OldestIsRetried` assumes nothing of the phone.
- `Settings`: weak fairness of a command in hand and of the video task, whose loop goes on with
  every frame. Nobody has to send commands. While a recording is streamed the video task passes the
  flags by (ak_video.c:1032); that streams end is a property of `P2pSdStream`.
- `WakeCycle`: weak fairness of the controller's loop, of the battery thread, which asks every 3 s,
  and of the watchdog, which is hardware. Nobody need press the key or have a network.

### Findings

1. **The clip may be sent unfinished** (`clip_complete`, `uploader/upload_main.c:623`).
   `g_RecordDone` is still DONE from the last clip when the uploader asks; the snapshot task
   publishes the picture before it starts the recorder and sets RUNNING. Only the first upload
   after the start has no earlier DONE to read: its clip is always finished
   (`FirstClipIsComplete`, checked and proved).
2. **A kernel may be torn under a finished `UPFLAG`** (`fw_silent_write`, `fwupgrade.c:135`).
   `ak_partition.h:19` documents -1 as the failure of a partition write, the code takes only answers
   below -1 for failures. An erasure of `UPFLAG` that fails leaves it finished, the burn begins, and
   the power goes.
3. **A wake-up may be lost on the way to halt** (`lost_wakeup`, `main.c:457` of the STM8). The PIR
   and WiFi interrupts are enabled while the request to sleep is served. The handler of one that
   comes before `halt` disables both and records the source, which `main.c:457` clears; the
   controller then halts with only the key to wake it.

### Observations

Met while modelling; no run of its own shows them, either because they are plain from the line or
because the model excludes them on purpose.

Settings and commands

- `spi_cmd.c:647`: the flip command compares up-down with the stored *top-bottom*; if that equals
  what is asked for, up-down is answered as done and not stored (`sure` in `Settings`).
- `doorbell_config.c:441-442`: the video task clears the entry and then prints into it what it read
  before. A command that comes in between finds 0 in it, one that stores in between is printed over,
  and the next command for what the table says is answered and not stored (`doubt`). The flip command
  prints the flag (`spi_cmd.c:647`), which the video task may have taken back: the table then says -1.
- `ak_video.c:1038`: the flag is taken back after the settings were read, so a change in
  between does not take effect (`missed`). `spi_cmd.c:651`: a value the range check refuses goes into
  the flag all the same, and may cover a flip there that the video task has not seen yet, which does
  not take effect either (`missed`).
- `spi_cmd.c:410`: `itemp` is compared although the reading may have failed and left it unset.
- `spi_cmd.c:388`: a flicker value whose writing failed is remembered as set, and asking for it
  again is answered as done. `g_cfg_handle` is one handle for all tasks: one may destroy it while
  another reads, which the model takes for a failing reading.
- A bit rate set before the encoder is open is stored, but the encoder starts with the copy of
  power-on, and asking again finds "No Change" (`doorbell_config.c:1663`). The handlers of three
  commands are NULL in `SPI_CMD_TABLE` (`spi_cmd.c:89, 90, 98`) and would be called.
  `spi_cmd.c:2171` sends a response also for commands that have none: the previous one.

Events and pictures

- `video/ak_video.c:1533`: Done/Done is OK in the table above it (1443) and is turned down.
- `spi_cmd.c:2071`: a ring during the cooldown overwrites the event info without a picture.

Firmware upgrade

- `fwupgrade.c:376`: `length_bin` is taken from every packet, the buffer has the length of the first
  (583): the packets of a longer image are written beyond it.
- `fwupgrade.c:899`: the stop notification is overwritten by a position before it goes out.
  `fwupgrade.c:754`: DONE_UPGRADING is sent also when the burn failed. `fwupgrade.c:643`: an image
  of one packet is never complete.

Recording, transport, streaming

- `flv_recorder/mux.c:236`: a parameter set ends at the next unit that is a parameter set or a
  slice, but is measured at every sync word until then: another unit (SEI) between PPS and slice
  is kept as part of the PPS. The frames checked have none there. `mux.c:497` compares the room
  with the frame and 5 bytes, while the packet has 20 more than the frame.
- `flv_recorder/mux.c:424`: the header grows by one sequence header per clip, in 2048 bytes.
  `flv_recorder/flv_pp_buff.c:431`: the wait for the first half has no limit, nor have the tries to
  write the header before the engine is initialised (`flv_recorder/rec.c:90`).
- `uploader/upload_over_spi.c:799`: only old positions beyond a block are removed; a smaller one
  moves `g_iPosition_temp` to where the CC3200 has not come.
- `spi_layer/spi_transfer.c:1182`: after some time no dummies are sent, and without traffic of its
  own the board does not hear the CC3200.
- An acknowledgement of an earlier stream can keep a P2P stream going for ever; before the first
  acknowledgement there is no limit (`p2p_sdcard_streaming.c:591`).

STM8 and camera

- `main.c:261`: the condition of the photocell's loop is constantly true. A byte lost on the UART
  shifts the commands that follow; the models take a command as a whole.
- `camview_main.c:920`: `socket_connect_task` sets `g_net_conn_sta` to `NET_STA_NORMAL` and may
  do so after `app_wifi_sleep` has set it to `NET_STA_WIFI_SLEEP` (475). `battery_thread` (2481) then
  feeds the watchdog, and if the one request to sleep was dropped by a busy controller the camera
  stays up: the excuse of `SleepEnds`.
- `camview_main.c:2552`: the question for the wake-up's source is sent once and its answer awaited
  without limit, before the watchdog is open.

Talkback (not modelled)

- `ringbuf_1.c` counts with `cnt++` and `cnt--` in two tasks. `ak_audio.c:818` looks at the free
  space where the amount of data is meant, so a full loop-back ring stays full, although
  `ak_talkback.c:1287` says that the data are dropped. `spi_cmd.c:1626` announces a voice prompt
  before its number is set (1628), and the announcement is cleared after playing: a prompt asked
  for meanwhile is lost, or the old one is played.

## 4. Proofs

Each `...Proofs` module states what it proves for every value of the constants that satisfies
the named assumptions of the module.

- **`SpiProofs`**, channel: `IInv` is inductive: the type; the order of the indices; the lock is
  held by whoever is inside a call; the queue is a whole number of packets; between memcpy and
  commit a packet is in place. Without the last three the index order is not inductive: a commit
  moves `end` by a length that only the preceding check makes safe, and only the lock keeps that
  check valid. From `IInv` follow `TypeCorrect`, `IndicesStayInOrder`, and, step by step,
  `ImplementsBoundedFifo`.
- **`SpiProofs`**, task: `RingsStaySound` lifts this to all channels at once: whatever is sent,
  received and exchanged, each ring's indices stay in order, only packets lie between them, and
  `turn` names a channel. One lemma each says what `Write` and `Read` do to a sound ring; the
  strengthening is that the task leaves its boot phase with the last boot packet.
- **`EventPipelineProofs`**: `FlagsAreTruthful`, `RecorderNeverSpins` from `IInv` = type, flags
  and recorder together: each flag is written by one task, and the proof is that the other's
  position excludes the write. `ImplementsSlot`: every step of the four tasks maps to a step of
  `PictureSlot` or to none. `FirstClipAlwaysComplete` needs `FirstClipInv`: a second picture is
  taken only after an upload is DONE, so until then there is one recording at most, the file and
  `g_RecordDone` speak of that one, and its clip is growing or complete from the moment the
  recorder is started.
- **`FlvPPBuffProofs`**: `BufferInv` adds to `NothingOverrun` that the producer between lock and
  unlock holds the engine, and that the room it has made is still there when it appends
  (`RoomMade`). `ClipStaysInOrder` needs `QueueInv` and `ClipInv`: what is in the halves, the
  third buffer and the hands of producer and recorder is in order and later than what is in the
  clip. `ClipAlwaysOpensWithKey`: the packets of a clip follow its headers without another header
  between them, and while the recorder seeks, what its search has handed on begins with a key frame
  (`KeyInv`), also if a reset empties the buffer between the two readings of its size.
  `NothingElseMissing` is an account of every number (`AccountInv`, `Covered`): from any packet in
  the halves on, each number up to the last one muxed is still queued or was dropped; the same from
  any packet in the third buffer, in what is being written and in the file, with each stage counted
  in; and a third buffer that the recorder has finished with was given up. `EveryCopyFits` closes the
  gap between what the code checks and what it copies: `curSize` is the size of the packets in a half
  (`SizesCounted`), so `NothingOverrun` is about real bytes, and the copy into the third buffer,
  which the code does not check, has room as well (`CopiesFit`), like that into the file, whose check
  adds up sizes (`FileFits`).
- **`FlvPPBuffProofs`**, muxer: `ParserReadsWell`, for every frame of the encoder, of any number of
  units of any sizes, and whatever the muxer kept before. `SearchInv` is the invariant of the loop:
  after each unit, what it has noted of a parameter set is the last one of its kind so far, and its
  length is known as soon as the next unit has been met. `ParametersAlwaysKept` takes from it what
  the run checks, whose frames are encoder frames (`FramesAreEncoderFrames`).
- **Induction over data** in the same module: the library's theorems take a predicate as a parameter,
  which the installed provers cannot instantiate. `Induction` therefore speaks of the *set* of the
  numbers that are as they should be, and follows from the smallest one that is not (`Smallest`, from
  the well-foundedness of `<`). `Recursion` gives a function that goes on by a given *function*
  `step`, so a recursive definition, which is a `CHOOSE`, does what it says (`EndsUnfold`,
  `SearchUnfold`, `SizeUnfold`).
- **`FwUpgradeProofs`**: for images of every length and every answer of the flash. `ChunksInPlace`
  is `InPlace` for every sequence of packets: within the buffer. `KernelStaysIntact` is
  `TornIsUnreported`, with `BurnsVerified` as the strengthening: from the comparison of the digest to
  the end of the burn the image in memory is whole or longer than its buffer, and unless a failure is
  unreported `UPFLAG` is erased while `KERNEL` is written and the partition equals the image when the
  flag is set. With the same invariant every step maps to one of `Installation` or to none
  (`ImplementsAtomicInstallation`): only `EraseUpflag` withdraws, only `FinishUpflag` installs, and
  every unseen failure is a `Fail`. `OnlyImagesAreBurnt`: what is handed to the partition write is a
  whole image, or one longer than its buffer.
- **`UploadProofs`**, sending: all four safety properties under `OldBeyond`: no old position lies
  within one block (the observation about `upload_over_spi.c:799` shows why). `CallInv` (caller and
  callee agree on where the block is, the window lies inside it), `PacketsInv` (no packet on its
  way, and nothing the CC3200 wants, reaches beyond the block of an all-in-one upload) and
  `OldFirst` (old positions come before all others, and while there are any nothing has been
  acknowledged) are inductive only together. `SendingDelivers` maps the steps to `Delivery`: reading
  a position confirms, taking a packet delivers, the last call completes, all else is a stutter.
- **`UploadProofs`**, receiving: `PacketsContinueAnswer` and `EndSeenWithAll`, without any
  assumption on losses, repetitions or delays. `Reached` is how far the caller is, with what the
  call in hand returns. `PlaceInv` says that `g_iPosition` is just that until the end has been
  seen, and that `upload_all_in_one_add_eventid` never makes a second call after a packet, which
  would tear the two apart. The rest is about what is on its way: no position is told that the
  caller has not come to (`AskedUpTo`), so the CC3200 can say "end" only to a caller that has all
  (`AllTrue`). `SessionInv` joins this with the sending side; that `upload_send_api` leaves
  `g_iPosition` at 0 (`PositionReset`) and that what is left in the rings is no answer
  (`RingHandedOver`) is what carries it over `BeginAnswer`.
- **`P2pSdStreamProofs`**: `AcknowledgedArrived` and `WholeWhenDone` from `IInv` = type; where
  each variable stands between two streams (`Between`); an acknowledgement in the mailbox is true
  of what has arrived (`AckIsTrue`); everything below `iSmallPidSend` is marked (`SmallIsFirst`);
  and `AckedHasArrived` itself. `ImplementsTransfer` maps the steps to `Delivery`: only `CheckStart`
  can complete a stream, and where it does `SmallIsFirst` says that nothing is missing.
- **`WakeCycleProofs`**: `IInv` adds to the type where controller and camera can be at the same
  time (`Places`: the power pin agrees with the camera's state, the interrupts are enabled on the
  way to halt unless one fired, a command is in hand exactly while it is served, the recorded
  source has fired, the camera has asked once, the fast-link flag goes with a sleeping chip) and
  `CountCarried`: whoever holds the restart count, controller, answer on its way or camera, holds
  no less than the restarts carried out. From it
  `HaltListensAlways`, `RestartsAlwaysBounded`, `FastlinkAlwaysTrue`, `NeverPhantom`,
  and `LedOffWithPower` (the infrared LED is off with the power), which no run
  checks.
- **`SettingsProofs`**: `AnswersAreTrue` from `IInv`: where there is no doubt the table is the
  flash, and what was surely read is still true when it is compared, although the video task may
  have cleared the entry or taken the flag back meanwhile. `SettingsTyped`: flash and sensor hold
  settings whatever is asked for and printed.

Only model-checked: liveness (`EveryTxDrains`, `EveryRxDrains`, `RequestConsumed`,
`AcceptsAgain`, `Installs`, `RecordingEnds`, `Finishes`, `Closes`, `OldestIsRetried`, `StreamEnds`,
`SettingsTakeEffect`, `SleepEnds`, `CommandTaken`), because fairness and `ENABLED` are beyond the
prover. All other properties of the passing runs are theorems.

## 5. What is not modelled, and why

- Bytes: checksums, byte order, FLV and HTTP text, URL and JSON parsing. A corrupt packet is a
  lost one.
- Time: limits may run out at any moment; no property depends on how long a wait is.
- `RingBuffer_create`'s and other allocation failures.
- `fwupgrade_main`, a test command; MD5, taken to be injective.
- The P2P flag of the snapshot task (`g_iP2pSdStreamStart`), since model 003 does not start that
  task; `P2pSdStream` is on its own.
- Opening the upload socket.
- Settings: the other items, which go through the same two functions; flicker and its flag; two
  prints into one entry of the table at the same time.
- Firmware upgrade: what an image too long for its buffer destroys in the memory behind it.
- FLV muxer: frames with another unit between a parameter set and the slice.
- STM8: status LEDs, battery gauge, I2C, the bell's timing; a camera command that loses a byte.
- The components that `PROJECT.json` lists as `not_modelled`, each with its reason. Most of the
  tree by lines is none of the program's own logic: the headers of two lwIP versions, the vendor's
  driver interfaces and demos, copies of the application for other products, and tables.

## 6. Plan

The most important behaviour, the channel every task goes through, was modelled first, then the
ring-to-upload path, then the components with protocols of their own, then the power controller
and the parts the settings and recordings go through. Left, in this order:

1. `Talkback`: its buffer between the SPI task and the decoder, and the voice prompts.
2. The other commands that change shared state (system mode, bit rate, volume), composed with
   `EventPipeline`; flicker in `Settings`.
3. `PacketQueue`: the scheduler layer's queue and resending, for builds that set
   `CFG_USE_SCHEDULER`.

## 7. Running it

    tlc -workers 2 -config MCEventPipeline.cfg MCEventPipeline.tla
    tlapm EventPipelineProofs.tla

and likewise for the others; `PROJECT.json` lists module, configuration, properties and expected
result of every run.
