----------------------------- MODULE VolumeCodec -----------------------------
(***************************************************************************)
(* The mapping between the linear volume the device stores (0..255) and    *)
(* the 16-bit volume code of the USB audio class (signed 1/256 dB, 0x8000  *)
(* meaning silence), as usb_audio_get_control and usb_audio_set_control    *)
(* compute it in uint16_t arithmetic, and the little-endian byte layout    *)
(* of the control transfer's data stage.                                   *)
(***************************************************************************)
EXTENDS Integers, Sequences

U16(x) == x % 65536

(* The uint16_t code read as the signed value it stands for (a helper   *)
(* of the properties, not code of the device).                           *)
Signed(c) == IF c >= 32768 THEN c - 65536 ELSE c

(* The two bytes of a uint16_t, little-endian (data[0], data[1]). *)
LE16(c) == << c % 256, c \div 256 >>

(* data[0] + (data[1] << 8) *)
Word(bytes) == bytes[1] + 256 * bytes[2]

(* GET CUR: vol = (v * 0x8800 + 127) / 255 + 0x8000, kept in a uint16_t. *)
(* Mutant: the rounding term is 255 instead of 127. *)
GetCurCode_bias(v) == U16((v * 34816 + 255) \div 255 + 32768)

GetCurCode(v) == U16((v * 34816 + 127) \div 255 + 32768)

(* SET CUR: vol -= 0x8000; vol = (vol * 255 + 0x4400) / 0x8800; clamped  *)
(* to 255, all on a uint16_t.                                              *)
(* Mutants: no rounding bias; no clamp to 255. *)
SetCurVolume_nobias(code) ==
  LET x == U16(code - 32768)
      y == U16((x * 255) \div 34816)
  IN  IF y > 255 THEN 255 ELSE y

SetCurVolume_noclamp(code) ==
  U16((U16(code - 32768) * 255 + 17408) \div 34816)

SetCurVolume(code) ==
  LET x == U16(code - 32768)
      y == U16((x * 255 + 17408) \div 34816)
  IN  IF y > 255 THEN 255 ELSE y

(* The constant MIN and MAX replies of the playback feature unit. *)
VolMinCode == Word(<< 1, 128 >>)
VolMaxCode == Word(<< 0, 8 >>)

=============================================================================
