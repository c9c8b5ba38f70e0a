----------------------------- MODULE SensorCodec -----------------------------
(***************************************************************************)
(* Readings in bytes: the manufacturer data that the thermo-hygrometers    *)
(* broadcast (devices/codecs/sensor.py) and the power frames of the H5086  *)
(* (plugs.py).  Temperatures and humidities are in tenths, as the bytes    *)
(* are; the code divides by 10 afterwards.  0-based offsets as in the code.*)
(***************************************************************************)
EXTENDS Integers, SequencesExt

Nothing == [nothing |-> TRUE]

\* The values of a byte, of two and of three.
Bytes == 0..255
Max16 == 65535
Max24 == 16777215

\* The range of plausible temperatures.
TEMP_MIN == -400
TEMP_MAX == 1000

Byte(data, i) == data[i + 1]
be16(data, i) == 256 * Byte(data, i) + Byte(data, i + 1)
be24(data, i) == 65536 * Byte(data, i) + be16(data, i + 1)

\* Mutant of raw24: the sign is not masked out.
raw24_signed(data, off) == be24(data, off)

\* The 24 packed bits without the sign, the highest one.
SignBit == 8388608
raw24(data, off) == be24(data, off) % SignBit

\* _decode_packed_th: does the reading at this offset pass the gates?
Passes(data, off) ==
  LET negative == Byte(data, off) >= 128
      tenths == raw24(data, off) \div 1000
  IN /\ Byte(data, off) # 127
     /\ \E i \in 0..2 : Byte(data, off + i) # 255
     /\ IF negative THEN -tenths >= TEMP_MIN ELSE tenths <= TEMP_MAX

\* What is read at an offset that passes.
DecodedAt(data, off) ==
  LET tenths == raw24(data, off) \div 1000
  IN [temperature |-> IF Byte(data, off) >= 128 THEN -tenths ELSE tenths,
      humidity |-> raw24(data, off) % 1000,
      battery |-> Byte(data, off + 3)]

\* parse_th_broadcast: the first offset that passes.
parse_th_broadcast(data) ==
  LET offsets == <<1, 3, 0, 2>>
      Hit(off) == /\ Len(data) >= off + 4
                  /\ Passes(data, off)
                  /\ Byte(data, off + 3) <= 100
      hits == {i \in 1..4 : Hit(offsets[i])}
  IN IF hits = {} THEN Nothing ELSE DecodedAt(data, offsets[Min(hits)])

\* _parse_power_response.
parse_power(data) ==
  IF Len(data) < 16 \/ Byte(data, 0) \notin {170, 238} \/ Byte(data, 1) # 25
  THEN Nothing
  ELSE [time_on |-> be24(data, 2), energy |-> be24(data, 5),
        voltage |-> be16(data, 8), current |-> be16(data, 10),
        power |-> be24(data, 12), power_factor |-> Byte(data, 15)]

----------------------------------------------------------------------------
(* What the devices (external) send.                                       *)

Bytes16(n) == <<n \div 256, n % 256>>
Bytes24(n) == <<n \div 65536, (n \div 256) % 256, n % 256>>

PackedReading(r) ==
  LET tenths == IF r.temperature < 0 THEN -r.temperature ELSE r.temperature
      sign == IF r.temperature < 0 THEN SignBit ELSE 0
  IN Bytes24(sign + 1000 * tenths + r.humidity) \o <<r.battery>>

\* Broadcasts: leading bytes and the packed reading, or the mark of a failed one.
Broadcast(lead, r) == lead \o PackedReading(r)
FailedBroadcast(lead, battery) == lead \o <<255, 255, 255, battery>>

PowerFrame(header, r) ==
  <<header, 25>> \o Bytes24(r.time_on) \o Bytes24(r.energy)
    \o Bytes16(r.voltage) \o Bytes16(r.current) \o Bytes24(r.power)
    \o <<r.power_factor, 0, 0, 0, 0>>
===============================================================================
