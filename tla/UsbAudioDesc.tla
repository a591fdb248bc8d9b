----------------------------- MODULE UsbAudioDesc -----------------------------
(***************************************************************************)
(* The parts of the device's descriptor tables (dev-audio.c, desc_iface    *)
(* and desc_device) that the handlers depend on: which alternate settings  *)
(* each interface has, which endpoint an alternate setting opens in which  *)
(* direction, and the PCM format it streams.  The USB core serves these    *)
(* tables to the host, and passes set_interface only the settings they     *)
(* declare.  Strings, terminal and unit descriptors, and the class-        *)
(* specific endpoint descriptors carry no state the handlers read.         *)
(***************************************************************************)
EXTENDS Naturals, FiniteSets

USBAUDIO_PACKET_SIZE == 192
USBAUDIO_SAMPLE_RATE == 48000
USBAUDIO_PACKET_INTERVAL == 1

(* One record per entry of desc_iface: interface number, alternate        *)
(* setting, its endpoints as <<direction, number, wMaxPacketSize>>, and    *)
(* the Type I format (channels, bytes per sample, sampling frequency);     *)
(* the entries without a format have channels 0.                           *)
NoFormat == [nch |-> 0, subframe |-> 0, freq |-> 0]

desc_iface ==
  { [ifnum |-> 0, alt |-> 0, eps |-> {}, fmt |-> NoFormat],
    [ifnum |-> 1, alt |-> 0, eps |-> {}, fmt |-> NoFormat],
    [ifnum |-> 1, alt |-> 1, eps |-> {<< "out", 1, USBAUDIO_PACKET_SIZE >>},
     fmt |-> [nch |-> 2, subframe |-> 2, freq |-> USBAUDIO_SAMPLE_RATE]],
    [ifnum |-> 2, alt |-> 0, eps |-> {}, fmt |-> NoFormat],
    [ifnum |-> 2, alt |-> 1, eps |-> {<< "in", 1, USBAUDIO_PACKET_SIZE >>},
     fmt |-> [nch |-> 1, subframe |-> 2, freq |-> USBAUDIO_SAMPLE_RATE]] }

(* desc_device: one configuration holding every entry of desc_iface. *)
Interfaces == {e.ifnum : e \in desc_iface}

(* The alternate settings the USB core accepts for an interface. *)
AltsOf == [i \in Interfaces |-> {e.alt : e \in {x \in desc_iface : x.ifnum = i}}]

(* The bytes one bInterval (1 ms) of the declared format takes. *)
FrameBytes(e) ==
  (e.fmt.nch * e.fmt.subframe * e.fmt.freq * USBAUDIO_PACKET_INTERVAL) \div 1000

(* The streaming setting of a direction (alternate setting 1). *)
StreamingSetting(d) ==
  CHOOSE e \in desc_iface : \E ep \in e.eps : ep[1] = d

=============================================================================
