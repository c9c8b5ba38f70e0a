------------------------------ MODULE LightCodec ------------------------------
(***************************************************************************)
(* The frames of the lights (devices/codecs), as byte strings without the  *)
(* leading 0x33 or 0xAA, the padding and the checksum.  A colour is a      *)
(* triple of bytes.  Three codecs: "common" (CommonLightCodec), "rgbic"    *)
(* (RgbicLightCodec) and "dreamcolor" (OldDreamColorCodec, which is also   *)
(* what the bespoke GoveePlugH6163 sends).                                 *)
(***************************************************************************)
EXTENDS Integers, SequencesExt

RGB == [1..3 -> 0..255]

\* base.single_frame of opcode 0x01, 0x04 and 0x05.
power(on) == <<1, IF on THEN 1 ELSE 0>>
brightness(level) == <<4, level>>
Color(payload) == <<5>> \o payload

\* MAX_SEGMENTS: what the two bytes of a codec's mask cover.
MAX_SEGMENTS(codec) == IF codec = "dreamcolor" THEN 15 ELSE 16

\* _segment_mask: bit k % 8 of byte k \div 8 is segment k; others are ignored.
segment_mask(codec, segments) ==
  LET bit(s) == IF s \in segments /\ s < MAX_SEGMENTS(codec) THEN 1 ELSE 0
      byte(s) == bit(s) + 2 * bit(s + 1) + 4 * bit(s + 2) + 8 * bit(s + 3)
                   + 16 * bit(s + 4) + 32 * bit(s + 5) + 64 * bit(s + 6)
                   + 128 * bit(s + 7)
  IN <<byte(0), byte(8)>>

segment_color(codec, color, segments) ==
  Color((IF codec = "rgbic" THEN <<21, 1>> ELSE <<11>>)
        \o color \o segment_mask(codec, segments))

ALL_SEGMENTS == 0..15

rgb(codec, color) ==
  IF codec = "rgbic" THEN segment_color(codec, color, ALL_SEGMENTS)
  ELSE Color(<<2>> \o color \o <<0, 255, 174, 84>>)

color_temp_rgb(codec, white) ==
  Color(IF codec = "rgbic" THEN <<13>> \o white
                           ELSE <<2, 255, 255, 255, 1>> \o white)

\* COMMON_EFFECTS: "Normal" is just power-on; a scene stands for all the others.
effects == [Normal |-> power(TRUE), Sunrise |-> Color(<<4, 0>>)]

----------------------------------------------------------------------------
(* A lamp (external) takes the frames for what the stock app means by them. *)

Weight == <<1, 2, 4, 8, 16, 32, 64, 128>>
Bit(mask, k) == (mask[k \div 8 + 1] \div Weight[(k % 8) + 1]) % 2 = 1

\* What a lamp, a record of power, level, a colour for every segment and a
\* scene, becomes by a frame.  A colour or a scene switches it on and a colour
\* ends the scene.
LampAfter(lamp, frame) ==
  LET Lit == [lamp EXCEPT !.power = "on"]
      Coloured(c) == [Lit EXCEPT !.colour = c, !.scene = "none"]
      Uniform(c) == Coloured([s \in DOMAIN lamp.colour |-> c])
      Painted(c, mask) == Coloured(
        [s \in DOMAIN lamp.colour |-> IF Bit(mask, s) THEN c ELSE lamp.colour[s]])
      Is(bytes) == IsPrefix(bytes, frame)
  IN CASE frame = power(TRUE) -> Lit
       [] frame = power(FALSE) -> [lamp EXCEPT !.power = "off"]
       [] Is(<<4>>) -> [lamp EXCEPT !.level = frame[2]]
       [] Is(<<5, 2, 255, 255, 255, 1>>) -> Uniform(SubSeq(frame, 7, 9))
       [] Is(<<5, 2>>) /\ ~Is(<<5, 2, 255, 255, 255, 1>>)
            -> Uniform(SubSeq(frame, 3, 5))
       [] Is(<<5, 13>>) -> Uniform(SubSeq(frame, 3, 5))
       [] Is(<<5, 21, 1>>) -> Painted(SubSeq(frame, 4, 6), SubSeq(frame, 7, 8))
       [] Is(<<5, 11>>) -> Painted(SubSeq(frame, 3, 5), SubSeq(frame, 6, 7))
       [] Is(<<5, 4>>) -> [Lit EXCEPT !.scene = "Sunrise"]

\* Its answers to query_brightness, query_color and query_power; a lamp whose
\* segments differ answers with the colour of any.
Replies(lamp, query) ==
  CASE query = "brightness" -> {<<4, lamp.level>>}
    [] query = "color" -> {<<5, 1>> \o lamp.colour[s] : s \in DOMAIN lamp.colour}
    [] query = "power" -> {power(lamp.power = "on")}
===============================================================================
