# TLA+ models of the USB audio device (`src/devices/dev-audio.c`)

This directory holds TLA+ models of the emulated USB Audio Class 1.0 device
in `src/devices/dev-audio.c`, together with the TLC configurations that check
them. Everything the device does runs on the emulator's main thread: the USB
core calls the handlers, and the audio backend calls the voice callbacks.
Each handler is therefore one atomic step of a model, and concurrency appears
as the interleaving of whole handlers.

## 1. The system (inventory)

| Part | Code | State | Operations |
|---|---|---|---|
| RingBuffer | `struct streambuf`, lines 403-463 | `size`, `prod`, `cons` (all `uint32_t`) and the heap storage | `streambuf_init`, `_fini`, `_put`, `_get`, `_alloc` |
| StreamState, twice (out, in) | `USBAudioState.out` / `.in`, lines 466-494 | `altset`, voice, `mute`, `vol`, `buf` | `usb_audio_set_{output,input}_altset` (527-567), `output_callback` / `input_callback` (496-525), data-out / data-in transfers (812-847) |
| ControlSurface | lines 569-787 | the `mute` and `vol` fields | `usb_audio_get_control`, `usb_audio_set_control`, `usb_audio_handle_control` |
| Device | lines 789-973 | all of the above, plus `s->buffer` | realize, reset, set_interface, handle_data, destroy, post_load (snapshot restore), host power-event callback |
| Descriptors | lines 38-355 | constant tables | served by the USB core; they fix which interface and alternate-setting pairs `set_interface` receives, and the stream formats |
| Backend | `AUD_*` (external) | voices | open, close, activate, set volume, suspend, resume |

How the parts interact:

- **Playback data.** A host OUT packet goes through `streambuf_put` into
  `out.buf`. The backend then calls `output_callback(avail)`, which hands the
  voice whole 192-byte packets while there is room and data.
- **Capture data.** The backend calls `input_callback(avail)`. Its
  `streambuf_alloc` lets the voice fill packets into `in.buf`. A host IN
  transfer then takes `MIN(192, transfer size)` bytes with `streambuf_get`.
- **Switching a stream.** `set_interface` and `reset` switch a stream between
  OFF and ON. OFF re-creates the buffer and deactivates the voice; ON
  activates the voice.
- **Controls.** Class control requests read or write mute and volume. Every
  SET pushes the stream's values to its voice.

The hard behaviours in this code are these:

- the order of handler calls;
- `uint32_t` cursor wrap;
- transfer lengths that are not whole packets;
- snapshot restore into a freshly realized device;
- teardown while a host callback is still registered;
- the `uint16_t` fixed-point volume codec.

## 2. Modules

| Module | Models | Variables | Actions |
|---|---|---|---|
| `StreamBuf` | the `streambuf_*` functions as pure operators over `[size, prod, cons]` | none | none |
| `StreamFifo` | what a stream buffer promises (spec §4.1): a bounded FIFO of units | `q`, `out` | `Append_`, `Take`, `Discard` |
| `UsbAudioDesc` | `desc_iface` / `desc_device`: interfaces, alternate settings, endpoints and stream formats | none | none |
| `StreamStateSpec` | what the two streams promise (spec §4.2): OFF/ON per direction, the buffered level and the voice | `alt`, `level`, `voice` | `SwitchOff`, `SwitchOn`, `Write`, `Forward`, `Fill`, `Read` (per direction) |
| `StreamBufSpec` | one buffer together with its storage contents | `buf`, `data`, `seq`, `view`, `faults` | `Put`, `AllocFill`, `Get(len)`, `Reinit` |
| `UsbAudioStream` | both streams, their altsets, buffers and voices, and the device lifecycle | `st`, `phase`, `faults`, `suspended` | `Reset`, `SetInterface`, `HandleData` (routing to `DataOut` / `DataIn`), `OutputCallback`, `InputCallback`, `Destroy`, `Restore`, `PowerEvent` |
| `VolumeCodec` | the GET CUR / SET CUR formulas in `uint16_t`, and the little-endian data stage | none | none |
| `VolumeCodecSpec` | a host that sets, reads and writes back one volume | `vol`, `reply`, `code` | `GetCur`, `SetCur`, `WriteBack` |
| `UsbAudioControl` | the mute and volume fields, class GET/SET dispatch, voice pushes, realize and post_load | `mute`, `volOut`, `volIn`, `pushed`, `reply`, `phase` | `ControlGet`, `ControlSet`, `ControlOther`, `Attach`, `Restore` |

How the modules correspond to the code:

- **Units.** Lengths are counted in units. In `UsbAudioStream` a unit is
  32 bytes, so a packet is 6 units and a mono 96-byte frame is 3. In
  `StreamBufSpec` a unit is 96 bytes, so a packet is 2 units. Every unit
  there carries its own cell, which keeps the contents small enough to
  enumerate.
- **Abstractions noted.** `StreamBufSpec!AllocFill` is one `input_callback`
  iteration without the `avail` test, which allows more fills than the
  code makes. `Destroy` leaves out `streambuf_fini`, since no handler
  touches a buffer after it. `Restore` fires only from the freshly
  realized device, with no reset in between, which is how a snapshot is
  loaded into a new device.
- **Helpers.** `VolumeCodec!Signed` reads a `uint16_t` code as the signed
  value it stands for. Only the codec properties use it, so it has no map
  entry.
- **Cursors.** A cursor is a mathematical natural number. Every value the
  code computes from it goes through `U32(x) = x % CursorMod`, so the
  `uint32_t` wrap happens where it does in the code.
- **Faults.** A `% buf->size` on a buffer of size 0 (a division by
  zero), a memory access outside the storage, or a failed `assert`, is
  recorded in the history variable `faults` rather than stopping the
  behaviour.
- **Callback loops.** The `for`/`while` loops of the callbacks are the
  recursive operators `output_loop` and `input_loop`, evaluated inside one
  atomic action.
- **Transfer sizes.** `DataOut(size)` and `DataIn(size)` take the host's
  transfer size. `streambuf_put` copies a whole packet out of a data-out
  packet of any size; when the packet is shorter, `usb_packet_copy` asserts,
  and the model records the fault `packet_assert`.
- **Control data stages.** A SET carries the data stage the host sent,
  which may be shorter than the bytes the handler reads (`data[0]` for
  mute, `data[0]` and `data[1]` for volume). Bytes past the stage are what
  the USB core's control buffer held before, a nondeterministic choice
  from `StaleBytes`. The reply records whether the handler read past the
  stage (`overread`).
- **Descriptors.** `UsbAudioStream` enumerates `set_interface` inputs from
  `UsbAudioDesc!AltsOf`. The capture frame size the `stream_shortread`
  host asks for is `UsbAudioDesc!FrameBytes` of the capture format: mono,
  16-bit, 48 kHz, so 96 bytes per 1 ms frame.
- **Stalls.** A transfer that stalls or drops its packet changes no device
  state, so it is a stuttering step and has no action of its own.
- **Power events.** `suspended` records which of suspend or resume the last
  host power event asked the voices for. The model does not let it gate the
  callbacks, because that depends on the backend.

The `map` section of `PROJECT.json` gives, for every definition, the lines of
code it translates.

The two control-side modules do not share variables with `UsbAudioStream`.
The device's fields split cleanly: altset and buffer on one side, mute and
volume on the other. The only handlers touching both halves are realize,
reset and post_load, and each half models its own part of them. No handler
reads a field of one half and writes one of the other. A product of the two
modules would therefore interleave independent steps and could show nothing
that the two runs do not, so the device is checked as its two halves.

## 3. Runs

Pass runs:

| Run | Configuration | Properties | States |
|---|---|---|---|
| streambuf | `MCStreamBufSpec.cfg` | `TypeOK`, `MemorySafe`, `RefinesFifo` | 2000 |
| stream | `MCUsbAudioStream.cfg` | `TypeOK`, `MemorySafe`, `PlaybackDelivered`, `CaptureFilled`, `RefinesStreamState` | 1518 (about 30 s) |
| codec | `MCVolumeCodecSpec.cfg` | `TypeOK`, `GetCurInRange`, `ReadBackStable` | 1036 |
| control | `MCUsbAudioControl.cfg` | `TypeOK`, `VoiceVolumeSynced`, `PlaybackVolumeReadBack` | 41761 (about 1 min) |

What the pass runs show:

- **streambuf.** `RefinesFifo` is `StreamFifo!Spec` under the mapping
  `q <- Contents` (the units between `cons` and `prod`, read at the offsets
  the code uses) and `out <- view` (the chunk the last get returned). It
  shows four things:
  - each get returns exactly the oldest units;
  - each put appends exactly its packet;
  - nothing is overwritten before it is read;
  - `streambuf_init` discards everything.

  `TypeOK` also requires `cons <= prod <= cons + size`.
- **stream.** The device takes every interleaving of transfers, callbacks,
  set_interface, reset, restore, destroy and power events. Through all of
  them:
  - `MemorySafe`: accesses stay inside the storage;
  - `RefinesStreamState`: the streams implement `StreamStateSpec!Spec`,
    the altset machine of spec §4.2. The mapping is: state <- `altset`,
    level <- the buffer's used count, voice <- open and active. Every step
    of every direction is a step the machine allows:
    - OFF discards the buffer and deactivates the voice;
    - ON activates the voice and keeps the buffer;
    - the host writes a whole packet, or reads at most one, only while ON;
    - the voice forwards or fills whole packets only while active;
    - the level never exceeds the capacity.

    This holds through realize, reset, set_interface, post_load and
    destroy, which move both directions in one step. The mutant in which
    ON also re-initialises the buffer breaks it; no invariant notices that
    mutant.
  - `PlaybackDelivered`: every queued playback packet reaches the voice
    unless the stream is switched off first;
  - `CaptureFilled`: an empty capture buffer is eventually filled while
    capture stays ON. `input_callback` only reads while `avail` exceeds a
    packet (line 518), so this rests on the backend offering two packets,
    which it does once one period's data is left unread.
- **codec.** This run covers all 256 stored volumes:
  - `GetCurInRange`: the GET CUR code lies between the advertised MIN and
    MAX, and it is strictly monotone;
  - `ReadBackStable`: writing a code read with GET CUR back with SET CUR
    leaves the volume unchanged.

  Remark: SET CUR with code 0x0000 stores 240. The `uint16_t` subtraction
  wraps, and 0x0000 is 0 dB in the class's signed 1/256 dB encoding, so
  this is the right value. The scenario in spec §8 says 0.
- **control.** After any sequence of requests, or a restore:
  - `VoiceVolumeSynced`: the voices carry exactly the stored mute and
    volumes;
  - `PlaybackVolumeReadBack`: a playback GET CUR decodes to the stored
    volume of the channel it names.

  Remark: the capture volume cases accept `cn < 2` (line 698), although
  capture is mono; spec §4.3 says such an index stalls. This changes
  nothing but `s->in.vol`, so no run is kept for it.

Violation runs. Each one is a finding in `PROJECT.json`:

| Run | Property | What TLC finds |
|---|---|---|
| stream_shortread | `MemorySafe` | A 96-byte data-in transfer, then 192-byte ones: the read at offset 15 of 18 units runs 3 units past the storage (line 835). |
| stream_wrap | `MemorySafe` | The producer cursor wraps (modulus 32 units, buffer 18). The offset `prod % size` jumps, and a packet region runs past the end. TLC reaches it through `streambuf_alloc` (line 460); `streambuf_put` (line 433) does the same arithmetic. The real modulus, 2^27 units, is not a multiple of the real 384-unit buffer either (remainder 128). |
| stream_restore | `StreamBufferAllocated` | Realize initialises `out.buf` with `s->buffer` still 0 (line 913). A restore with playback ON, without a reset, keeps that size-0 buffer. |
| stream_power | `NoPowerEventAfterDestroy` | Destroy, then a power event: the callback registered at line 937 is never removed. |
| stream_shortout | `PacketCopyInBounds` | Playback ON, then a 96-byte data-out packet: `streambuf_put` asks `usb_packet_copy` for 192 bytes and its assertion aborts the emulator (line 433). Spec §7 says nothing is fatal to the device. |
| stream_badaltset | `StreamingVoiceActive` | A snapshot with altset 2 (any value but 0 and 1; `VMSTATE_UINT32` loads it as is). `post_load` ignores the -1 from the altset setter (line 945), so transfers are accepted for a voice that is never activated. |
| control_capture | `CaptureVolumeReadBack` | Capture GET CUR encodes `s->out.vol[cn]` (line 624). |
| control_shortstage | `SetReadsOnlyDataStage` | A zero-length SET CUR MUTE succeeds and stores `data[0]`, a byte the control buffer held from an earlier transfer (line 666). A one-byte SET CUR VOLUME does the same with `data[1]` (line 673). |

Every property of a pass run also has a mutant in `PROJECT.json`: a plausible
bug in the definition it names. TLC finds the property violated when that
mutant replaces the definition.

## 4. Bounds, and why they are enough

- **Stream buffer.** The buffer is 3 packets in both `UsbAudioStream` and
  `StreamBufSpec`, instead of 64. Only the cursor arithmetic depends on the
  size, and that arithmetic only needs the size to be a whole number of
  packets.
- **Cursor bound.** Cursors are bounded at 7 packets (`MaxCursor` 42 units)
  or 9 packets. With these bounds every buffer goes round its storage at
  least twice, so full, empty and wrapped-offset states all occur.
- **Backend room.** The backend offers 1, 2 or 3 packets per callback: a
  partial drain or fill, the two-packet capture offer the fairness relies on,
  and a whole buffer.
- **Codes.** The host's codes are chosen at the boundaries of the signed
  range: silence, -64 dB, 0 dB, MAX, and above MAX.
- **Channels.** The wire channels are 0 (the master channel, which becomes
  index 255), 1 and 2.
- **Transfer sizes.** Data-out packets and data-in transfers are a whole
  packet in the pass run. The violation runs add one 96-byte frame.
- **Data stages.** Data stages are full length in the pass runs. In
  `control_shortstage` they may be one byte short, over a control buffer
  last holding 0x00 or 0xff.
- **SET attributes.** SET MAX stands for the SET attributes that no case
  accepts, since they all behave alike.

## 5. Fairness

The stream Spec has `WF_vars(OutputCallback(P))`. The audio backend keeps
calling an active playback voice's callback with at least a packet of room
each period.

It also has `WF_vars(InputCallback(2 * P))`. The backend keeps calling an
active capture voice's callback with what it has recorded, and what a call
leaves unread is still offered at the next. Because `input_callback` stops
at `avail <= P`, one packet is always left unread, so the next offer is at
least two packets.

No other fairness is assumed:

- the host may stop sending transfers at any time;
- the backend's capture demand is not relied on.

Both weak-fairness conditions assume the host has not left the voices
suspended by a power event (section 6).

## 6. Not modelled

Not modelled:

- **Descriptors.** The descriptor tables and `usb_desc_handle_control` are
  static data served by the USB core. Only the alternate settings of
  interfaces 1 and 2 are used.
- **Backend.** Mixing and resampling in the backend, and the sample bytes
  themselves. Units are identified by packet number and position instead.
- **Registration and logging.** Type registration, and the debug `fprintf`s.
- **Backend transfer counts.** `AUD_write` and `AUD_read` return how many
  bytes they moved, and both callbacks ignore it (lines 509, 522). The
  loops call them with a whole packet only while `avail` covers it, and
  `avail` is what the voice can take or give, so the counts are always a
  whole packet. The model hands over whole packets.
- **Descriptor contents.** Strings, terminal and unit descriptors and the
  class-specific endpoint descriptors carry no state the handlers read.
  The capture feature unit (ID 5) is under `#if 0`, so the controls the
  code serves at wIndex 0x0500 belong to a unit the host is never told
  about.

Considered and left out:

- **Capture contents with short host reads.** `StreamBufSpec` checks
  buffer contents against the FIFO. A half-packet read then produces the
  out-of-storage view that `stream_shortread` already shows.
- **Reply widths.** GET replies are built with the widths the code writes.
  The one-byte capture GET MAX is kept on purpose (spec §9), and the USB
  core truncates a reply to wLength.
- **Power events gating the callbacks.** Whether a suspended voice still
  calls back is up to the backend, so `suspended` does not gate the
  callbacks. The fairness in §5 therefore assumes the voices are not left
  suspended.
