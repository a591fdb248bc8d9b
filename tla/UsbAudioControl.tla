---------------------------- MODULE UsbAudioControl ----------------------------
(***************************************************************************)
(* The control side of the USB audio device (dev-audio.c): the mute flag   *)
(* and linear volumes of the playback and capture streams, the class-      *)
(* specific control requests that read and write them                      *)
(* (usb_audio_handle_control, usb_audio_get_control,                       *)
(* usb_audio_set_control), the volume the backend voices were last given   *)
(* (AUD_set_volume_out / AUD_set_volume_in), realize, and the post-load    *)
(* hook that re-applies restored values.                                   *)
(*                                                                         *)
(* A request is the code's own key: control selector cs, request code      *)
(* attrib, wIndex idif (feature unit << 8 | interface), and the wire       *)
(* channel number; data is the data stage the host sent, which may be     *)
(* shorter than the bytes the handler reads.                               *)
(***************************************************************************)
EXTENDS Naturals, Sequences, TLC

CONSTANTS
  Codes,        \* volume codes the host sends in SET CUR data stages
  MuteBytes,    \* first data byte of SET CUR MUTE
  Channels,     \* wire channel numbers (low byte of wValue)
  RestoreVols,  \* linear volumes a snapshot can carry
  SetAttribs,   \* the SET request codes the host sends, within 1..4
  StageShorts,  \* how many bytes short of its value a SET data stage is
  StaleBytes    \* what the control buffer holds past a short data stage

VC == INSTANCE VolumeCodec

Dirs == {"out", "in"}

(* Class-specific request codes (request & 0xff). *)
CR_SET_CUR == 1    CR_GET_CUR == 129
CR_SET_MIN == 2    CR_GET_MIN == 130
CR_SET_MAX == 3    CR_GET_MAX == 131
CR_SET_RES == 4    CR_GET_RES == 132
CR_GET_MEM == 133

GetRequests == {CR_GET_CUR, CR_GET_MIN, CR_GET_MAX, CR_GET_RES}

(* Feature-unit control selectors. *)
MUTE_CONTROL == 1
VOLUME_CONTROL == 2
BASS_CONTROL == 3

(* wIndex of the playback feature unit and of the capture unit. *)
OutUnit == 512     \* 0x0200
InUnit  == 1280    \* 0x0500
Indexes == {OutUnit, InUnit, 256}

USB_RET_STALL == "stall"

VARIABLES
  mute,     \* mute[d]: s->out.mute, s->in.mute
  volOut,   \* s->out.vol[0..1]
  volIn,    \* s->in.vol
  pushed,   \* pushed[d]: <<mute, left, right>> last given to the voice
  reply,    \* the outcome of the last control transfer
  phase     \* "realized" or "running"

vars == <<mute, volOut, volIn, pushed, reply, phase>>

(* uint8_t cn = cscn - 1: the channel index, 255 for the master channel 0. *)
ChannelIndex(cs, chan) == (cs * 256 + chan - 1) % 256

(* The arguments AUD_set_volume_out / AUD_set_volume_in are called with. *)
OutVolume(m, v) == << m, v[0], v[1] >>
InVolume(m, v) == << m, v, v >>

NoReply == [status |-> "none", data |-> << >>, key |-> << >>, overread |-> FALSE]

(* usb_audio_realize: unmuted, 240 (0 dB) on every channel, pushed. *)
Init ==
  /\ mute = [d \in Dirs |-> FALSE]
  /\ volOut = [c \in 0 .. 1 |-> 240]
  /\ volIn = 240
  /\ pushed = ("out" :> OutVolume(FALSE, [c \in 0 .. 1 |-> 240]))
              @@ ("in" :> InVolume(FALSE, 240))
  /\ reply = NoReply
  /\ phase = "realized"

(***************************************************************************)
(* usb_audio_get_control: the reply bytes for a (cs, attrib, idif) key,    *)
(* or USB_RET_STALL.  Both units read their volume from s->out.vol, and    *)
(* the capture unit's MAX is a single byte, as in the code.                *)
(***************************************************************************)
VolumeAttribute(attrib, idif, cur) ==
  CASE attrib = CR_GET_CUR -> cur
    [] attrib = CR_GET_MIN -> << 1, 128 >>
    [] attrib = CR_GET_MAX -> IF idif = OutUnit THEN << 0, 8 >> ELSE << 0 >>
    [] attrib = CR_GET_RES -> << 136, 0 >>

(* Mutant: GET CUR encodes channel 0's volume whatever the channel. *)
usb_audio_get_control_ch0(attrib, cs, cn, idif) ==
  LET key == << cs, attrib, idif >>
      cur == VC!LE16(VC!GetCurCode(volOut[0]))
  IN
  IF key = << MUTE_CONTROL, CR_GET_CUR, OutUnit >>
    THEN << IF mute["out"] THEN 1 ELSE 0 >>
  ELSE IF key = << MUTE_CONTROL, CR_GET_CUR, InUnit >>
    THEN << IF mute["in"] THEN 1 ELSE 0 >>
  ELSE IF cs = VOLUME_CONTROL /\ idif \in {OutUnit, InUnit} /\ cn < 2
    THEN VolumeAttribute(attrib, idif, cur)
  ELSE USB_RET_STALL

usb_audio_get_control(attrib, cs, cn, idif) ==
  LET key == << cs, attrib, idif >>
      cur == VC!LE16(VC!GetCurCode(volOut[cn]))
  IN
  IF key = << MUTE_CONTROL, CR_GET_CUR, OutUnit >>
    THEN << IF mute["out"] THEN 1 ELSE 0 >>
  ELSE IF key = << MUTE_CONTROL, CR_GET_CUR, InUnit >>
    THEN << IF mute["in"] THEN 1 ELSE 0 >>
  ELSE IF cs = VOLUME_CONTROL /\ idif \in {OutUnit, InUnit} /\ cn < 2
    THEN VolumeAttribute(attrib, idif, cur)
  ELSE USB_RET_STALL

(* usb_audio_handle_control, class interface IN request: the reply of     *)
(* usb_audio_get_control, or a stall.                                      *)
ControlGet(attrib, cs, chan, idif) ==
  LET r == usb_audio_get_control(attrib, cs, ChannelIndex(cs, chan), idif) IN
  /\ phase = "running"
  /\ reply' = [status |-> IF r = USB_RET_STALL THEN "stall" ELSE "ok",
               data   |-> IF r = USB_RET_STALL THEN << >> ELSE r,
               key    |-> << cs, attrib, idif, ChannelIndex(cs, chan) >>,
               overread |-> FALSE]
  /\ UNCHANGED <<mute, volOut, volIn, pushed, phase>>

(***************************************************************************)
(* usb_audio_set_control for the four keys it handles: store the new mute *)
(* flag or volume, then push the stream's mute and volumes to its voice.  *)
(***************************************************************************)
(* Mutant: the voice is given the mute flag from before the store. *)
SetOutMute_stale(data) ==
  /\ mute' = [mute EXCEPT !["out"] = (data[1] % 2 = 1)]
  /\ pushed' = [pushed EXCEPT !["out"] = OutVolume(mute["out"], volOut)]
  /\ UNCHANGED <<volOut, volIn>>

SetOutMute(data) ==
  /\ mute' = [mute EXCEPT !["out"] = (data[1] % 2 = 1)]
  /\ pushed' = [pushed EXCEPT !["out"] = OutVolume(mute'["out"], volOut)]
  /\ UNCHANGED <<volOut, volIn>>

SetOutVolume(cn, data) ==
  /\ volOut' = [volOut EXCEPT ![cn] = VC!SetCurVolume(VC!Word(data))]
  /\ pushed' = [pushed EXCEPT !["out"] = OutVolume(mute["out"], volOut')]
  /\ UNCHANGED <<mute, volIn>>

SetInMute(data) ==
  /\ mute' = [mute EXCEPT !["in"] = (data[1] % 2 = 1)]
  /\ pushed' = [pushed EXCEPT !["in"] = InVolume(mute'["in"], volIn)]
  /\ UNCHANGED <<volOut, volIn>>

SetInVolume(data) ==
  /\ volIn' = VC!SetCurVolume(VC!Word(data))
  /\ pushed' = [pushed EXCEPT !["in"] = InVolume(mute["in"], volIn')]
  /\ UNCHANGED <<mute, volOut>>

(* The bytes data[0] and data[1] the handler reads from the control       *)
(* buffer: the data stage, then what the buffer held beyond it.            *)
ControlBytes(data, stale) ==
  [i \in 1 .. 2 |-> IF i <= Len(data) THEN data[i] ELSE stale]

(* usb_audio_handle_control, class interface OUT request.  A mute SET     *)
(* reads data[0], a volume SET data[0] and data[1], whatever the length.  *)
ControlSet(attrib, cs, chan, idif, stage, stale) ==
  LET cn  == ChannelIndex(cs, chan)
      key == << cs, attrib, idif >>
      data == ControlBytes(stage, stale)
      mutes == {<< MUTE_CONTROL, CR_SET_CUR, u >> : u \in {OutUnit, InUnit}}
      vols == {<< VOLUME_CONTROL, CR_SET_CUR, u >> : u \in {OutUnit, InUnit}}
      read == IF key \in mutes THEN 1 ELSE IF key \in vols /\ cn < 2 THEN 2 ELSE 0
      ok  == read > 0
  IN
  /\ phase = "running"
  /\ CASE key = << MUTE_CONTROL, CR_SET_CUR, OutUnit >> -> SetOutMute(data)
       [] key = << MUTE_CONTROL, CR_SET_CUR, InUnit >> -> SetInMute(data)
       [] key = << VOLUME_CONTROL, CR_SET_CUR, OutUnit >> /\ cn < 2 ->
            SetOutVolume(cn, data)
       [] key = << VOLUME_CONTROL, CR_SET_CUR, InUnit >> /\ cn < 2 ->
            SetInVolume(data)
       [] OTHER -> UNCHANGED <<mute, volOut, volIn, pushed>>
  /\ reply' = [status |-> IF ok THEN "ok" ELSE "stall", data |-> << >>,
               key |-> << cs, attrib, idif, cn >>, overread |-> Len(stage) < read]
  /\ UNCHANGED phase

(* usb_audio_handle_control, any other class request: stall. *)
ControlOther ==
  /\ phase = "running"
  /\ reply' = [status |-> "stall", data |-> << >>, key |-> << >>,
               overread |-> FALSE]
  /\ UNCHANGED <<mute, volOut, volIn, pushed, phase>>

(* The USB reset that precedes enumeration; it leaves mute and volume. *)
Attach ==
  /\ phase = "realized"
  /\ phase' = "running"
  /\ UNCHANGED <<mute, volOut, volIn, pushed, reply>>

(* A snapshot restore into the freshly realized device: the saved mute and *)
(* volume fields are loaded, then usb_audio_post_load pushes them to the  *)
(* voices.                                                                 *)
Restore(mo, vo, mi, vi) ==
  /\ phase = "realized"
  /\ mute' = ("out" :> mo) @@ ("in" :> mi)
  /\ volOut' = vo
  /\ volIn' = vi
  /\ pushed' = ("out" :> OutVolume(mo, vo)) @@ ("in" :> InVolume(mi, vi))
  /\ phase' = "running"
  /\ UNCHANGED reply

(* The data stage of a SET: one byte for mute, a little-endian code for  *)
(* volume, and a code for any other selector, each possibly cut short.    *)
DataStages(cs) ==
  LET full == IF cs = MUTE_CONTROL THEN {<< b >> : b \in MuteBytes}
                                   ELSE {VC!LE16(c) : c \in Codes}
  IN  {SubSeq(s, 1, Len(s) - k) : s \in full, k \in StageShorts}

Next ==
  \/ \E attrib \in GetRequests, cs \in {MUTE_CONTROL, VOLUME_CONTROL, BASS_CONTROL},
        chan \in Channels, idif \in Indexes :
       ControlGet(attrib, cs, chan, idif)
  \/ \E attrib \in SetAttribs, cs \in {MUTE_CONTROL, VOLUME_CONTROL, BASS_CONTROL},
        chan \in Channels, idif \in Indexes :
       \E stage \in DataStages(cs), stale \in StaleBytes :
       ControlSet(attrib, cs, chan, idif, stage, stale)
  \/ ControlOther
  \/ Attach
  \/ \E mo, mi \in BOOLEAN, vo \in [0 .. 1 -> RestoreVols], vi \in RestoreVols :
       Restore(mo, vo, mi, vi)

Spec == Init /\ [][Next]_vars

-----------------------------------------------------------------------------

Reply == [status : {"none", "ok", "stall"}, data : Seq(0 .. 255), key : Seq(Nat),
          overread : BOOLEAN]

TypeOK ==
  /\ mute \in [Dirs -> BOOLEAN]
  /\ volOut \in [0 .. 1 -> 0 .. 255]
  /\ volIn \in 0 .. 255
  /\ pushed \in [Dirs -> BOOLEAN \X (0 .. 255) \X (0 .. 255)]
  /\ reply \in Reply
  /\ phase \in {"realized", "running"}

(* The mute flag and volumes the backend voices were last given are the   *)
(* ones the device stores, after realize, every SET CUR and a snapshot     *)
(* restore alike: set_control pushes the stream's values after storing     *)
(* them, and post_load pushes the restored ones.                           *)
VoiceVolumeSynced ==
  /\ pushed["out"] = OutVolume(mute["out"], volOut)
  /\ pushed["in"] = InVolume(mute["in"], volIn)

(* The GET CUR VOLUME reply of a unit, decoded by the SET CUR formula,    *)
(* is the volume the unit stores for that channel: a host that reads the   *)
(* volume back and writes it again changes nothing.                        *)
CurReply(unit) ==
  /\ reply.status = "ok"
  /\ reply.key[1] = VOLUME_CONTROL /\ reply.key[2] = CR_GET_CUR
  /\ reply.key[3] = unit

PlaybackVolumeReadBack ==
  CurReply(OutUnit) =>
    VC!SetCurVolume(VC!Word(reply.data)) = volOut[reply.key[4]]

(* The same for the capture unit, whose one volume is s->in.vol           *)
(* (spec section 4.3: GET CUR returns the encoding of the stored volume).  *)
CaptureVolumeReadBack ==
  CurReply(InUnit) => VC!SetCurVolume(VC!Word(reply.data)) = volIn

(* A SET that succeeds stores a value decided by the data stage the host  *)
(* sent: the handler never reads past it into what the control buffer     *)
(* held before (set_control reads data[0] and data[1] whatever `length`   *)
(* is; spec section 4.4 passes the length with the buffer).                *)
SetReadsOnlyDataStage == ~reply.overread

=============================================================================
