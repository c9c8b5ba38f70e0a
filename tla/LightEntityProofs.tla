--------------------------- MODULE LightEntityProofs ---------------------------
(***************************************************************************)
(* Proofs about LightEntity for any drivers, colours, levels and segments  *)
(* and any number of service calls and status queries: types; that the     *)
(* entity shows whether the lamp is on and its settings, however calls     *)
(* overlapped; and that a call which runs alone is obeyed.                 *)
(***************************************************************************)
EXTENDS LightEntity, SequenceTheorems, WellFoundedInduction, TLAPS

----------------------------------------------------------------------------
(* Types.                                                                  *)

OnOff == {"on", "off"}
AllLevels == Levels \cup {FullLevel}
Effects == {"Normal", "Sunrise"}

ApiStates ==
  [is_on : {"unknown"} \cup OnOff,
   brightness : AllLevels \cup {0, NoBrightness},
   last_brightness : AllLevels,
   rgb : RGB \cup {NoColor},
   mode : {"rgb", "color_temp"},
   effect : Effects]

Lamps ==
  [power : OnOff, level : AllLevels, scene : {None, "Sunrise"},
   colour : [Segments -> RGB]]

\* The commands of the drivers.
Message(name, arg, frame) == [name |-> name, arg |-> arg, frame |-> frame]
AnyGroup == UNION {{groups[i] : i \in 1..Len(groups)} : groups \in Groups}
GroupMessage(g) == Message("segments", g.rgb, segment_color(Codec, g.rgb, g.segments))
SegmentMessages == IF driver = "plain" THEN {} ELSE {GroupMessage(g) : g \in AnyGroup}
Messages ==
  {Message("off", 0, power(FALSE))}
    \cup {Message("effect", e, effects[e]) : e \in Effects}
    \cup {Message("rgb", c, rgb(Codec, c)) : c \in RGB}
    \cup {Message("temp", Warm, color_temp_rgb(Codec, Warm))}
    \cup {Message("brightness", b, brightness(b)) : b \in AllLevels}
    \cup SegmentMessages

Goals == [rgb : RGB, brightness : AllLevels \cup {0}]

ServiceCalls ==
  [op : Ops \cup {None}, plan : Seq(Messages),
   state : {"none", "running", "ended"}, goal : Goals \cup {None}, alone : BOOLEAN]

\* Answers: the lamp's level, a colour, its power.
Answers ==
  {<<4, b>> : b \in AllLevels} \cup {<<5, 1>> \o c : c \in RGB} \cup {<<1, 0>>, <<1, 1>>}

Commands == {m.frame : m \in Messages}
Queue == [call : Calls, frame : Commands]
Verdicts == [call : Calls, ok : BOOLEAN]

Typed ==
  /\ driver \in Drivers
  /\ api \in ApiStates
  /\ call \in [Calls -> ServiceCalls]
  /\ begun \in 0..MaxCalls
  /\ line \in Seq(Queue)
  /\ executed \in BOOLEAN
  /\ ready \in Seq(Verdicts)
  /\ lamp \in Lamps
  /\ poll \in {"idle", "brightness", "color", "power"}
  /\ polls \in 0..MaxPolls
  /\ air \subseteq Answers /\ (air # {} => poll # "idle")
  /\ known \in BOOLEAN /\ told \in BOOLEAN /\ followed \in BOOLEAN

----------------------------------------------------------------------------
(* Calls and their commands.                                               *)

\* The calls that wait for a verdict or are about to run on, one command each.
Once(s) == \A i, j \in 1..Len(s) : s[i].call = s[j].call => i = j
Has(s, k) == \E i \in 1..Len(s) : s[i].call = k

Waiting ==
  /\ Once(line) /\ Once(ready)
  /\ \A k \in Calls : ~(Has(line, k) /\ Has(ready, k))
  /\ \A k \in Calls : k \in Running <=> Has(line, k) \/ Has(ready, k)
  /\ \A i \in 1..Len(line) : line[i].frame = Head(call[line[i].call].plan).frame
  /\ executed => line # <<>>

\* What the calls consist of: a turn-off is the one command for it, and what
\* ends with a brightness began with white.
Shaped(c) ==
  /\ c.op \in Ops /\ c.plan # <<>>
  /\ \A i \in 1..Len(c.plan) : c.plan[i].name = "off" <=> TurnsOff(c)
  /\ TurnsOff(c) => Len(c.plan) = 1
  /\ Last(c.plan).name = "brightness" /\ Len(c.plan) # 1 =>
       Len(c.plan) = 2 /\ c.plan[1].name = "temp"

CallsShaped ==
  \A k \in Calls :
    /\ call[k].state = "running" <=> call[k].plan # <<>>
    /\ k > begun => call[k].state = "none"
    /\ k \in Running => Shaped(call[k])

----------------------------------------------------------------------------
(* The lamp's power.                                                       *)

Intent(k) == IF TurnsOff(call[k]) THEN "off" ELSE "on"
Executing(k) == executed /\ Head(line).call = k

\* The lamp is as the command executed last wants it, if it is its call's last.
FollowsLatest ==
  /\ executed /\ Len(call[Head(line).call].plan) = 1
       => lamp.power = Intent(Head(line).call)
  /\ ~executed /\ ready # <<>> /\ Len(call[Last(ready).call].plan) = 1
       => lamp.power = Intent(Last(ready).call)

\* A call that ends with a brightness relies on the white before it: once that
\* was executed the lamp stays on, and turn-offs still to come are executed
\* before it.
Fades(k) == k \in Running /\ Last(call[k].plan).name = "brightness"
White1st(k) == Len(call[k].plan) = 2 /\ ~Has(ready, k) /\ ~Executing(k)
Undone == {i \in 1..Len(line) : i = 1 => ~executed}

FadesLit ==
  \A k \in Calls : Fades(k) =>
    /\ ~White1st(k) => lamp.power = "on"
    /\ \A i \in Undone : TurnsOff(call[line[i].call]) =>
         White1st(k) /\ \E j \in (i + 1)..Len(line) : line[j].call = k

ShownAtRest ==
  told /\ Running = {} => api.is_on \in {"unknown", lamp.power}

PowerInv == followed => FollowsLatest /\ FadesLit /\ ShownAtRest

IndInv == Typed /\ Waiting /\ CallsShaped /\ PowerInv

----------------------------------------------------------------------------
(* What a lamp makes of the frames.                                        *)

LEMMA Prefix ==
  ASSUME NEW s \in Seq(Int), NEW t \in Seq(Int)
  PROVE  IsPrefix(s, t) <=> Len(s) <= Len(t) /\ \A i \in 1..Len(s) : s[i] = t[i]
<1>1. /\ Len(s) \in Nat /\ Len(t) \in Nat
      /\ \A i \in 1..Len(s) : s[i] \in Int
      /\ \A i \in 1..Len(t) : t[i] \in Int
  BY LenProperties, ElementOfSeq
<1>2. SubSeq(s, 1, Len(s)) = s
  BY SubSeqFull
<1> SUFFICES ASSUME Len(s) <= Len(t)
             PROVE  s = SubSeq(t, 1, Len(s)) <=> \A i \in 1..Len(s) : s[i] = t[i]
  BY <1>2 DEF IsPrefix
<1> DEFINE u == SubSeq(t, 1, Len(s))
<1>3. /\ u \in Seq(Int)
      /\ Len(u) = IF 1 <= Len(s) THEN Len(s) - 1 + 1 ELSE 0
      /\ \A i \in 1..(Len(s) - 1 + 1) : u[i] = t[1 + i - 1]
  <2>1. \A i \in 1..Len(s) : t[i] \in Int
    BY <1>1
  <2>2. 1 \in Int /\ Len(s) \in Int
    BY <1>1
  <2> QED
    BY <2>1, <2>2, SubSeqProperties
<1> HIDE DEF u
<1>4. Len(u) = Len(s) /\ \A i \in 1..Len(s) : u[i] = t[i]
  BY <1>1, <1>3
<1>5. (\A i \in 1..Len(s) : s[i] = u[i]) => s = u
  BY <1>3, <1>4, SeqEqual
<1> QED
  BY <1>4, <1>5 DEF u

\* What the first bytes of a frame say.
LEMMA Opcodes ==
  ASSUME NEW f \in Seq(Int)
  PROVE  /\ IsPrefix(<<4>>, f) <=> Len(f) >= 1 /\ f[1] = 4
         /\ IsPrefix(<<5, 2>>, f) <=> Len(f) >= 2 /\ f[1] = 5 /\ f[2] = 2
         /\ IsPrefix(<<5, 13>>, f) <=> Len(f) >= 2 /\ f[1] = 5 /\ f[2] = 13
         /\ IsPrefix(<<5, 11>>, f) <=> Len(f) >= 2 /\ f[1] = 5 /\ f[2] = 11
         /\ IsPrefix(<<5, 4>>, f) <=> Len(f) >= 2 /\ f[1] = 5 /\ f[2] = 4
         /\ IsPrefix(<<5, 21, 1>>, f)
              <=> Len(f) >= 3 /\ f[1] = 5 /\ f[2] = 21 /\ f[3] = 1
         /\ IsPrefix(<<5, 2, 255, 255, 255, 1>>, f)
              <=> /\ Len(f) >= 6 /\ f[1] = 5 /\ f[2] = 2
                  /\ f[3] = 255 /\ f[4] = 255 /\ f[5] = 255 /\ f[6] = 1
<1>1. Len(f) \in Nat
  BY LenProperties
<1>2. IsPrefix(<<4>>, f) <=> Len(f) >= 1 /\ f[1] = 4
  <2> DEFINE s == <<4>>
  <2>1. s \in Seq(Int) /\ Len(s) = 1 /\ s[1] = 4
    OBVIOUS
  <2> HIDE DEF s
  <2>2. IsPrefix(s, f) <=> Len(s) <= Len(f) /\ \A i \in 1..Len(s) : s[i] = f[i]
    BY <2>1, Prefix
  <2> QED
    BY <1>1, <2>1, <2>2 DEF s
<1>3. \A b \in Int :
        IsPrefix(<<5, b>>, f) <=> Len(f) >= 2 /\ f[1] = 5 /\ f[2] = b
  <2> SUFFICES ASSUME NEW b \in Int
               PROVE  IsPrefix(<<5, b>>, f) <=> Len(f) >= 2 /\ f[1] = 5 /\ f[2] = b
    OBVIOUS
  <2> DEFINE s == <<5, b>>
  <2>1. s \in Seq(Int) /\ Len(s) = 2 /\ s[1] = 5 /\ s[2] = b
    OBVIOUS
  <2> HIDE DEF s
  <2>2. IsPrefix(s, f) <=> Len(s) <= Len(f) /\ \A i \in 1..Len(s) : s[i] = f[i]
    BY <2>1, Prefix
  <2>3. 1..Len(s) = {1, 2}
    BY <2>1
  <2> QED
    BY <1>1, <2>1, <2>2, <2>3 DEF s
<1>4. IsPrefix(<<5, 21, 1>>, f) <=> Len(f) >= 3 /\ f[1] = 5 /\ f[2] = 21 /\ f[3] = 1
  <2> DEFINE s == <<5, 21, 1>>
  <2>1. s \in Seq(Int) /\ Len(s) = 3 /\ s[1] = 5 /\ s[2] = 21 /\ s[3] = 1
    OBVIOUS
  <2> HIDE DEF s
  <2>2. IsPrefix(s, f) <=> Len(s) <= Len(f) /\ \A i \in 1..Len(s) : s[i] = f[i]
    BY <2>1, Prefix
  <2>3. 1..Len(s) = {1, 2, 3}
    BY <2>1
  <2> QED
    BY <1>1, <2>1, <2>2, <2>3 DEF s
<1>5. IsPrefix(<<5, 2, 255, 255, 255, 1>>, f)
        <=> /\ Len(f) >= 6 /\ f[1] = 5 /\ f[2] = 2
            /\ f[3] = 255 /\ f[4] = 255 /\ f[5] = 255 /\ f[6] = 1
  <2> DEFINE s == <<5, 2, 255, 255, 255, 1>>
  <2>1. /\ s \in Seq(Int) /\ Len(s) = 6 /\ s[1] = 5 /\ s[2] = 2
        /\ s[3] = 255 /\ s[4] = 255 /\ s[5] = 255 /\ s[6] = 1
    OBVIOUS
  <2> HIDE DEF s
  <2>2. IsPrefix(s, f) <=> Len(s) <= Len(f) /\ \A i \in 1..Len(s) : s[i] = f[i]
    BY <2>1, Prefix, ZenonT(40)
  <2>3. 1..Len(s) = {1, 2, 3, 4, 5, 6}
    BY <2>1
  <2>4. (\A i \in 1..Len(s) : s[i] = f[i])
          <=> /\ f[1] = 5 /\ f[2] = 2
              /\ f[3] = 255 /\ f[4] = 255 /\ f[5] = 255 /\ f[6] = 1
    BY <2>1, <2>3
  <2>5. Len(s) <= Len(f) <=> Len(f) >= 6
    BY <1>1, <2>1
  <2> QED
    BY <2>2, <2>4, <2>5 DEF s
<1> QED
  BY <1>2, <1>3, <1>4, <1>5

\* What becomes of the lamp.
Lit(l) == [l EXCEPT !.power = "on"]
Coloured(l, c) == [Lit(l) EXCEPT !.colour = c, !.scene = "none"]
Whole(c) == [s \in Segments |-> c]
Parts(l, c, mask) == [s \in Segments |-> IF Bit(mask, s) THEN c ELSE l.colour[s]]

Reads(l, f) ==
  /\ f = power(TRUE) => LampAfter(l, f) = Lit(l)
  /\ f = power(FALSE) => LampAfter(l, f) = [l EXCEPT !.power = "off"]
  /\ f[1] = 4 => LampAfter(l, f) = [l EXCEPT !.level = f[2]]
  /\ f[1] = 5 /\ f[2] = 4 => LampAfter(l, f) = [Lit(l) EXCEPT !.scene = "Sunrise"]
  /\ f[1] = 5 /\ f[2] = 2 /\ Len(f) >= 6 /\ f[6] = 0
       => LampAfter(l, f) = Coloured(l, Whole(SubSeq(f, 3, 5)))
  /\ /\ Len(f) >= 6 /\ f[1] = 5 /\ f[2] = 2
     /\ f[3] = 255 /\ f[4] = 255 /\ f[5] = 255 /\ f[6] = 1
    => LampAfter(l, f) = Coloured(l, Whole(SubSeq(f, 7, 9)))
  /\ f[1] = 5 /\ f[2] = 13
       => LampAfter(l, f) = Coloured(l, Whole(SubSeq(f, 3, 5)))
  /\ f[1] = 5 /\ f[2] = 11
       => LampAfter(l, f) = Coloured(l, Parts(l, SubSeq(f, 3, 5), SubSeq(f, 6, 7)))
  /\ Len(f) >= 3 /\ f[1] = 5 /\ f[2] = 21 /\ f[3] = 1
       => LampAfter(l, f) = Coloured(l, Parts(l, SubSeq(f, 4, 6), SubSeq(f, 7, 8)))

LEMMA LampReads ==
  ASSUME NEW l \in Lamps, NEW f \in Seq(Int), Len(f) >= 2
  PROVE  Reads(l, f)
<1>1. DOMAIN l.colour = Segments
  BY DEF Lamps
<1>3. Len(f) \in Nat /\ f[1] \in Int /\ f[2] \in Int
  BY LenProperties, ElementOfSeq
<1> DEFINE isOn == f = power(TRUE)
           isOff == f = power(FALSE)
           is4 == IsPrefix(<<4>>, f)
           isWhite == IsPrefix(<<5, 2, 255, 255, 255, 1>>, f)
           is2 == IsPrefix(<<5, 2>>, f)
           is13 == IsPrefix(<<5, 13>>, f)
           is21 == IsPrefix(<<5, 21, 1>>, f)
           is11 == IsPrefix(<<5, 11>>, f)
           isScene == IsPrefix(<<5, 4>>, f)
<1>4. LampAfter(l, f) =
        CASE isOn -> Lit(l)
          [] isOff -> [l EXCEPT !.power = "off"]
          [] is4 -> [l EXCEPT !.level = f[2]]
          [] isWhite -> Coloured(l, Whole(SubSeq(f, 7, 9)))
          [] is2 /\ ~isWhite -> Coloured(l, Whole(SubSeq(f, 3, 5)))
          [] is13 -> Coloured(l, Whole(SubSeq(f, 3, 5)))
          [] is21 -> Coloured(l, Parts(l, SubSeq(f, 4, 6), SubSeq(f, 7, 8)))
          [] is11 -> Coloured(l, Parts(l, SubSeq(f, 3, 5), SubSeq(f, 6, 7)))
          [] isScene -> [Lit(l) EXCEPT !.scene = "Sunrise"]
  BY <1>1, Zenon DEF LampAfter, Lit, Coloured, Whole, Parts
<1>2. /\ isOn <=> f = <<1, 1>>
      /\ isOff <=> f = <<1, 0>>
  BY DEF power
<1>5. /\ is4 <=> Len(f) >= 1 /\ f[1] = 4
      /\ is2 <=> Len(f) >= 2 /\ f[1] = 5 /\ f[2] = 2
      /\ is13 <=> Len(f) >= 2 /\ f[1] = 5 /\ f[2] = 13
      /\ is11 <=> Len(f) >= 2 /\ f[1] = 5 /\ f[2] = 11
      /\ isScene <=> Len(f) >= 2 /\ f[1] = 5 /\ f[2] = 4
      /\ is21 <=> Len(f) >= 3 /\ f[1] = 5 /\ f[2] = 21 /\ f[3] = 1
      /\ isWhite <=> /\ Len(f) >= 6 /\ f[1] = 5 /\ f[2] = 2
                    /\ f[3] = 255 /\ f[4] = 255 /\ f[5] = 255 /\ f[6] = 1
  BY Opcodes
<1> HIDE DEF isOn, isOff, is4, isWhite, is2, is13, is21, is11, isScene
<1>6. ASSUME f = power(TRUE)
      PROVE  LampAfter(l, f) = Lit(l)
  <2>1. isOn /\ ~isOff /\ ~is4 /\ ~isWhite /\ ~is2
        /\ ~is13 /\ ~is21 /\ ~is11 /\ ~isScene
    BY <1>2, <1>3, <1>5, <1>6 DEF power
  <2> QED
    BY <1>4, <2>1
<1>7. ASSUME f = power(FALSE)
      PROVE  LampAfter(l, f) = [l EXCEPT !.power = "off"]
  <2>1. ~isOn /\ isOff /\ ~is4 /\ ~isWhite /\ ~is2
        /\ ~is13 /\ ~is21 /\ ~is11 /\ ~isScene
    BY <1>2, <1>3, <1>5, <1>7 DEF power
  <2> QED
    BY <1>4, <2>1
<1>8. ASSUME f[1] = 4
      PROVE  LampAfter(l, f) = [l EXCEPT !.level = f[2]]
  <2>1. ~isOn /\ ~isOff /\ is4 /\ ~isWhite /\ ~is2
        /\ ~is13 /\ ~is21 /\ ~is11 /\ ~isScene
    BY <1>2, <1>3, <1>5, <1>8
  <2> QED
    BY <1>4, <2>1
<1>9. ASSUME f[1] = 5, f[2] = 4
      PROVE  LampAfter(l, f) = [Lit(l) EXCEPT !.scene = "Sunrise"]
  <2>1. ~isOn /\ ~isOff /\ ~is4 /\ ~isWhite /\ ~is2
        /\ ~is13 /\ ~is21 /\ ~is11 /\ isScene
    BY <1>2, <1>3, <1>5, <1>9
  <2> QED
    BY <1>4, <2>1
<1>10. ASSUME f[1] = 5, f[2] = 2, Len(f) >= 6, f[6] = 0
      PROVE  LampAfter(l, f) = Coloured(l, Whole(SubSeq(f, 3, 5)))
  <2>1. ~isOn /\ ~isOff /\ ~is4 /\ ~isWhite /\ is2
        /\ ~is13 /\ ~is21 /\ ~is11 /\ ~isScene
    BY <1>2, <1>3, <1>5, <1>10
  <2> QED
    BY <1>4, <2>1
<1>11. ASSUME Len(f) >= 6, f[1] = 5, f[2] = 2,
             f[3] = 255, f[4] = 255, f[5] = 255, f[6] = 1
      PROVE  LampAfter(l, f) = Coloured(l, Whole(SubSeq(f, 7, 9)))
  <2>1. ~isOn /\ ~isOff /\ ~is4 /\ isWhite /\ is2
        /\ ~is13 /\ ~is21 /\ ~is11 /\ ~isScene
    BY <1>2, <1>3, <1>5, <1>11
  <2> QED
    BY <1>4, <2>1
<1>12. ASSUME f[1] = 5, f[2] = 13
      PROVE  LampAfter(l, f) = Coloured(l, Whole(SubSeq(f, 3, 5)))
  <2>1. ~isOn /\ ~isOff /\ ~is4 /\ ~isWhite /\ ~is2
        /\ is13 /\ ~is21 /\ ~is11 /\ ~isScene
    BY <1>2, <1>3, <1>5, <1>12
  <2> QED
    BY <1>4, <2>1
<1>13. ASSUME f[1] = 5, f[2] = 11
      PROVE  LampAfter(l, f) = Coloured(l, Parts(l, SubSeq(f, 3, 5), SubSeq(f, 6, 7)))
  <2>1. ~isOn /\ ~isOff /\ ~is4 /\ ~isWhite /\ ~is2
        /\ ~is13 /\ ~is21 /\ is11 /\ ~isScene
    BY <1>2, <1>3, <1>5, <1>13
  <2> QED
    BY <1>4, <2>1
<1>14. ASSUME Len(f) >= 3, f[1] = 5, f[2] = 21, f[3] = 1
      PROVE  LampAfter(l, f) = Coloured(l, Parts(l, SubSeq(f, 4, 6), SubSeq(f, 7, 8)))
  <2>1. ~isOn /\ ~isOff /\ ~is4 /\ ~isWhite /\ ~is2
        /\ ~is13 /\ is21 /\ ~is11 /\ ~isScene
    BY <1>2, <1>3, <1>5, <1>14
  <2> QED
    BY <1>4, <2>1
<1> QED
  BY <1>6, <1>7, <1>8, <1>9, <1>10, <1>11, <1>12, <1>13, <1>14, ZenonT(40) DEF Reads

\* A frame with a colour behind some bytes and in front of others.
LEMMA Joined ==
  ASSUME NEW s \in Seq(Int), NEW t \in Seq(Int)
  PROVE  /\ s \o t \in Seq(Int) /\ Len(s \o t) = Len(s) + Len(t)
         /\ \A i \in 1..Len(s) : (s \o t)[i] = s[i]
         /\ \A i \in 1..Len(t) : (s \o t)[Len(s) + i] = t[i]
<1>1. /\ s \o t \in Seq(Int) /\ Len(s \o t) = Len(s) + Len(t)
      /\ Len(s) \in Nat /\ Len(t) \in Nat
      /\ \A i \in 1..(Len(s) + Len(t)) :
           (s \o t)[i] = IF i <= Len(s) THEN s[i] ELSE t[i - Len(s)]
  BY ConcatProperties, LenProperties
<1> DEFINE m == Len(s)
           n == Len(t)
<1>2. \A i \in 1..m : i \in 1..(m + n) /\ i <= m
  BY <1>1
<1>3. \A i \in 1..n : m + i \in 1..(m + n) /\ ~(m + i <= m) /\ (m + i) - m = i
  BY <1>1
<1> QED
  BY <1>1, <1>2, <1>3

LEMMA ColourBytes == ASSUME NEW c \in RGB PROVE c \in Seq(Int) /\ Len(c) = 3
<1>1. c \in [1..3 -> Int]
  BY DEF RGB
<1>2. c \in Seq(Int)
  BY <1>1, SeqDef
<1>3. 1..Len(c) = 1..3 /\ Len(c) \in Nat
  BY <1>1, <1>2, LenProperties
<1>4. Len(c) = 3
  <2>1. \A m \in Nat : 1..m = 1..3 => m = 3
    <3> SUFFICES ASSUME NEW m \in Nat, 1..m = 1..3 PROVE m = 3
      OBVIOUS
    <3>1. 3 \in 1..m /\ (m \in 1..m => m \in 1..3) /\ m >= 3
      OBVIOUS
    <3> QED
      BY <3>1
  <2> QED
    BY <1>3, <2>1
<1> QED
  BY <1>2, <1>4

\* The part of a frame that is as long as a sequence and has its elements is it.
LEMMA Part ==
  ASSUME NEW f \in Seq(Int), NEW s \in Seq(Int), NEW m \in Nat,
         Len(f) >= m + Len(s), \A i \in 1..Len(s) : f[m + i] = s[i]
  PROVE  SubSeq(f, m + 1, m + Len(s)) = s
<1> DEFINE n == Len(s)
           u == SubSeq(f, m + 1, m + n)
<1>1. n \in Nat /\ Len(f) \in Nat
  BY LenProperties
<1>2. \A i \in (m + 1)..(m + n) : f[i] \in Int
  BY <1>1, ElementOfSeq
<1>3. m + 1 \in Int /\ m + n \in Int
  BY <1>1
<1>4. /\ u \in Seq(Int)
      /\ Len(u) = IF m + 1 <= m + n THEN (m + n) - (m + 1) + 1 ELSE 0
      /\ \A i \in 1..((m + n) - (m + 1) + 1) : u[i] = f[(m + 1) + i - 1]
  BY <1>2, <1>3, SubSeqProperties
<1> HIDE DEF u
<1>5. Len(u) = n
  BY <1>1, <1>4
<1>6. \A i \in 1..n : (m + 1) + i - 1 = m + i /\ i \in 1..((m + n) - (m + 1) + 1)
  BY <1>1
<1>7. \A i \in 1..n : u[i] = s[i]
  BY <1>4, <1>6
<1> HIDE DEF n
<1> QED
  BY <1>4, <1>5, <1>7, SeqEqual DEF u, n

\* f is the frame of a colour after the bytes pre and before the bytes post.
Carries(f, pre, c, post) ==
  /\ f \in Seq(Int) /\ Len(f) = Len(pre) + 4 + Len(post)
  /\ f[1] = 5 /\ \A i \in 1..Len(pre) : f[1 + i] = pre[i]
  /\ SubSeq(f, Len(pre) + 2, Len(pre) + 4) = c
  /\ \A i \in 1..Len(post) : f[Len(pre) + 4 + i] = post[i]
  /\ SubSeq(f, Len(pre) + 5, Len(pre) + 4 + Len(post)) = post

LEMMA ColourFrame ==
  ASSUME NEW pre \in Seq(Int), NEW post \in Seq(Int), NEW c \in RGB
  PROVE  Carries(Color(pre \o c \o post), pre, c, post)
<1> DEFINE five == <<5>>
           pc == pre \o c
           all == pc \o post
           f == five \o all
           n == Len(pre)
           p == Len(post)
<1>1. c \in Seq(Int) /\ Len(c) = 3 /\ n \in Nat /\ p \in Nat
  BY ColourBytes, LenProperties
<1>2. five \in Seq(Int) /\ Len(five) = 1 /\ five[1] = 5
  OBVIOUS
<1>3. /\ pc \in Seq(Int) /\ Len(pc) = n + 3
      /\ \A i \in 1..n : pc[i] = pre[i]
      /\ \A i \in 1..3 : pc[n + i] = c[i]
  <2>1. /\ pc \in Seq(Int) /\ Len(pc) = Len(pre) + Len(c)
        /\ \A i \in 1..Len(pre) : pc[i] = pre[i]
        /\ \A i \in 1..Len(c) : pc[Len(pre) + i] = c[i]
    BY <1>1, Joined, Zenon
  <2> QED
    BY <1>1, <2>1, Zenon
<1> HIDE DEF pc
<1>4. /\ all \in Seq(Int) /\ Len(all) = n + 3 + p
      /\ \A i \in 1..(n + 3) : all[i] = pc[i]
      /\ \A i \in 1..p : all[n + 3 + i] = post[i]
  <2>1. /\ all \in Seq(Int) /\ Len(all) = Len(pc) + Len(post)
        /\ \A i \in 1..Len(pc) : all[i] = pc[i]
        /\ \A i \in 1..Len(post) : all[Len(pc) + i] = post[i]
    BY <1>3, Joined, Zenon
  <2> QED
    BY <1>3, <2>1, Zenon
<1> HIDE DEF all, five
<1>5. /\ f \in Seq(Int) /\ Len(f) = 1 + (n + 3 + p)
      /\ f[1] = 5
      /\ \A i \in 1..(n + 3 + p) : f[1 + i] = all[i]
  <2>1. /\ f \in Seq(Int) /\ Len(f) = Len(five) + Len(all)
        /\ \A i \in 1..Len(five) : f[i] = five[i]
        /\ \A i \in 1..Len(all) : f[Len(five) + i] = all[i]
    BY <1>2, <1>4, Joined, Zenon
  <2>2. 1 \in 1..1
    OBVIOUS
  <2> QED
    BY <1>2, <1>4, <2>1, <2>2, Zenon
<1> HIDE DEF f
<1>6. f = Color(pre \o c \o post)
  BY DEF f, five, all, pc, Color
<1>7. \A i \in 1..n : f[1 + i] = pre[i]
  BY <1>1, <1>3, <1>4, <1>5
<1>8. \A i \in 1..3 : f[(n + 1) + i] = c[i]
  <2>1. \A i \in 1..3 : /\ n + i \in 1..(n + 3) /\ n + i \in 1..(n + 3 + p)
                       /\ (n + 1) + i = 1 + (n + i)
    BY <1>1
  <2> QED
    <3> SUFFICES ASSUME NEW i \in 1..3 PROVE f[(n + 1) + i] = c[i]
      OBVIOUS
    <3>1. f[1 + (n + i)] = all[n + i] /\ all[n + i] = pc[n + i] /\ pc[n + i] = c[i]
      BY <1>3, <1>4, <1>5, <2>1, Zenon
    <3> QED
      BY <2>1, <3>1, Zenon
<1>9. \A i \in 1..p : f[(n + 4) + i] = post[i]
  <2>1. \A i \in 1..p : /\ n + 3 + i \in 1..(n + 3 + p)
                       /\ (n + 4) + i = 1 + (n + 3 + i)
    BY <1>1
  <2> QED
    BY <1>4, <1>5, <2>1
<1>10. SubSeq(f, n + 2, n + 4) = c
  <2>0. \A i \in 1..Len(c) : f[(n + 1) + i] = c[i]
    BY <1>1, <1>8, Zenon
  <2>1. n + 1 \in Nat /\ Len(f) >= (n + 1) + Len(c)
    <3>1. \A x, y \in Nat : 1 + (x + 3 + y) >= (x + 1) + 3
      OBVIOUS
    <3> QED
      BY <1>1, <1>5, <3>1
  <2>2. SubSeq(f, (n + 1) + 1, (n + 1) + Len(c)) = c
    BY <1>1, <1>5, <2>0, <2>1, Part, Zenon
  <2> QED
    BY <1>1, <2>2
<1>11. SubSeq(f, n + 5, n + 4 + p) = post
  <2>1. n + 4 \in Nat /\ Len(f) >= (n + 4) + p
    BY <1>1, <1>5
  <2>2. SubSeq(f, (n + 4) + 1, (n + 4) + p) = post
    BY <1>1, <1>5, <1>9, <2>1, Part, Zenon
  <2>3. (n + 4) + 1 = n + 5
    BY <1>1
  <2> QED
    BY <2>2, <2>3
<1> HIDE DEF n, p
<1>12. Len(f) = n + 4 + p
  BY <1>1, <1>5
<1> QED
  BY <1>5, <1>6, <1>7, <1>9, <1>10, <1>11, <1>12 DEF Carries, n, p

LEMMA Masks ==
  ASSUME NEW codec, NEW s
  PROVE  segment_mask(codec, s) \in Seq(Int) /\ Len(segment_mask(codec, s)) = 2
<1> DEFINE bit(k) == IF k \in s /\ k < MAX_SEGMENTS(codec) THEN 1 ELSE 0
           byte(k) == bit(k) + 2 * bit(k + 1) + 4 * bit(k + 2) + 8 * bit(k + 3)
                        + 16 * bit(k + 4) + 32 * bit(k + 5) + 64 * bit(k + 6)
                        + 128 * bit(k + 7)
<1>1. \A k : bit(k) \in Int
  OBVIOUS
<1>2. segment_mask(codec, s) = <<byte(0), byte(8)>>
  BY Zenon DEF segment_mask
<1> HIDE DEF bit
<1>3. byte(0) \in Int /\ byte(8) \in Int
  BY <1>1
<1> HIDE DEF byte
<1> QED
  BY <1>2, <1>3

\* Commands for segments and for the whole lamp, and white.
LEMMA SegmentsTaken ==
  ASSUME NEW l \in Lamps, NEW c \in RGB, NEW s, NEW codec \in {"rgbic", "dreamcolor"}
  PROVE  LampAfter(l, segment_color(codec, c, s))
           = Coloured(l, Parts(l, c, segment_mask(codec, s)))
<1> DEFINE f == segment_color(codec, c, s)
           mask == segment_mask(codec, s)
<1>1. mask \in Seq(Int) /\ Len(mask) = 2
  BY Masks
<1>2. CASE codec = "rgbic"
  <2> DEFINE pre == <<21, 1>>
  <2>1. pre \in Seq(Int) /\ Len(pre) = 2 /\ pre[1] = 21 /\ pre[2] = 1
    OBVIOUS
  <2>2. f = Color(pre \o c \o mask)
    BY <1>2, Zenon DEF segment_color
  <2> HIDE DEF f, mask, pre
  <2>3. Carries(f, pre, c, mask)
    BY <1>1, <2>1, <2>2, ColourFrame
  <2>4. /\ f \in Seq(Int) /\ Len(f) = 8 /\ f[1] = 5 /\ f[2] = 21 /\ f[3] = 1
        /\ SubSeq(f, 4, 6) = c /\ SubSeq(f, 7, 8) = mask
    BY <1>1, <2>1, <2>3 DEF Carries
  <2>5. LampAfter(l, f) = Coloured(l, Parts(l, SubSeq(f, 4, 6), SubSeq(f, 7, 8)))
    <3>1. Len(f) >= 2
      BY <2>4
    <3>2. Reads(l, f)
      BY <2>4, <3>1, LampReads, Zenon
    <3> QED
      BY <2>4, <3>2 DEF Reads
  <2> QED
    BY <2>4, <2>5, Zenon DEF f, mask
<1>3. CASE codec = "dreamcolor"
  <2> DEFINE pre == <<11>>
  <2>1. pre \in Seq(Int) /\ Len(pre) = 1 /\ pre[1] = 11
    OBVIOUS
  <2>2. f = Color(pre \o c \o mask)
    BY <1>3 DEF segment_color
  <2> HIDE DEF f, mask, pre
  <2>3. Carries(f, pre, c, mask)
    BY <1>1, <2>1, <2>2, ColourFrame
  <2>4. /\ f \in Seq(Int) /\ Len(f) = 7 /\ f[1] = 5 /\ f[2] = 11
        /\ SubSeq(f, 3, 5) = c /\ SubSeq(f, 6, 7) = mask
    BY <1>1, <2>1, <2>3 DEF Carries
  <2>5. LampAfter(l, f) = Coloured(l, Parts(l, SubSeq(f, 3, 5), SubSeq(f, 6, 7)))
    <3>1. Len(f) >= 2
      BY <2>4
    <3>2. Reads(l, f)
      BY <2>4, <3>1, LampReads, Zenon
    <3> QED
      BY <2>4, <3>2 DEF Reads
  <2> QED
    BY <2>4, <2>5, Zenon DEF f, mask
<1> QED
  BY <1>2, <1>3

LEMMA ColourTaken ==
  ASSUME NEW l \in Lamps, NEW c \in RGB, NEW codec \in {"dreamcolor", "common"}
  PROVE  LampAfter(l, rgb(codec, c)) = Coloured(l, Whole(c))
<1> DEFINE f == rgb(codec, c)
           pre == <<2>>
           post == <<0, 255, 174, 84>>
<1>1. /\ pre \in Seq(Int) /\ Len(pre) = 1 /\ pre[1] = 2
      /\ post \in Seq(Int) /\ Len(post) = 4 /\ post[1] = 0
  OBVIOUS
<1>2. f = Color(pre \o c \o post)
  BY DEF rgb
<1> HIDE DEF f, pre, post
<1>3. Carries(f, pre, c, post)
  BY <1>1, <1>2, ColourFrame
<1>4. /\ f \in Seq(Int) /\ Len(f) = 9 /\ f[1] = 5 /\ f[2] = 2 /\ f[6] = 0
      /\ SubSeq(f, 3, 5) = c
  BY <1>1, <1>3 DEF Carries
<1>5. LampAfter(l, f) = Coloured(l, Whole(SubSeq(f, 3, 5)))
  <2>1. Len(f) >= 2
    BY <1>4
  <2>2. Reads(l, f)
    BY <1>4, <2>1, LampReads, Zenon
  <2> QED
    BY <1>4, <2>2 DEF Reads
<1> QED
  BY <1>4, <1>5, Zenon DEF f

LEMMA WhiteTaken ==
  ASSUME NEW l \in Lamps, NEW c \in RGB, NEW codec \in {"rgbic", "dreamcolor", "common"}
  PROVE  LampAfter(l, color_temp_rgb(codec, c)) = Coloured(l, Whole(c))
<1> DEFINE f == color_temp_rgb(codec, c)
           none == <<>>
<1>1. none \in Seq(Int) /\ Len(none) = 0
  OBVIOUS
<1>2. \A s \in Seq(Int) : s \o none = s
  BY ConcatEmptySeq
<1>3. CASE codec = "rgbic"
  <2> DEFINE pre == <<13>>
  <2>1. pre \in Seq(Int) /\ Len(pre) = 1 /\ pre[1] = 13
    OBVIOUS
  <2>2. pre \o c \in Seq(Int)
    BY <2>1, ColourBytes, Joined
  <2>3. f = Color(pre \o c \o none)
    BY <1>2, <1>3, <2>2, Zenon DEF color_temp_rgb
  <2> HIDE DEF f, pre, none
  <2>4. Carries(f, pre, c, none)
    BY <1>1, <2>1, <2>3, ColourFrame
  <2>5. f \in Seq(Int) /\ Len(f) = 5 /\ f[1] = 5 /\ f[2] = 13 /\ SubSeq(f, 3, 5) = c
    BY <1>1, <2>1, <2>4 DEF Carries
  <2>6. LampAfter(l, f) = Coloured(l, Whole(SubSeq(f, 3, 5)))
    <3>1. Len(f) >= 2
      BY <2>5
    <3>2. Reads(l, f)
      BY <2>5, <3>1, LampReads, Zenon
    <3> QED
      BY <2>5, <3>2 DEF Reads
  <2> QED
    BY <2>5, <2>6, Zenon DEF f
<1>4. CASE codec # "rgbic"
  <2> DEFINE pre == <<2, 255, 255, 255, 1>>
  <2>1. /\ pre \in Seq(Int) /\ Len(pre) = 5 /\ pre[1] = 2
        /\ pre[2] = 255 /\ pre[3] = 255 /\ pre[4] = 255 /\ pre[5] = 1
    OBVIOUS
  <2>2. pre \o c \in Seq(Int)
    BY <2>1, ColourBytes, Joined
  <2>3. f = Color(pre \o c \o none)
    BY <1>2, <1>4, <2>2, Zenon DEF color_temp_rgb
  <2> HIDE DEF f, pre, none
  <2>4. Carries(f, pre, c, none)
    BY <1>1, <2>1, <2>3, ColourFrame
  <2>5. /\ f \in Seq(Int) /\ Len(f) = 9 /\ f[1] = 5 /\ f[2] = 2
        /\ f[3] = 255 /\ f[4] = 255 /\ f[5] = 255 /\ f[6] = 1
        /\ SubSeq(f, 7, 9) = c
    BY <1>1, <2>1, <2>4 DEF Carries
  <2>6. LampAfter(l, f) = Coloured(l, Whole(SubSeq(f, 7, 9)))
    <3>1. Len(f) >= 2
      BY <2>5
    <3>2. Reads(l, f)
      BY <2>5, <3>1, LampReads, Zenon
    <3> QED
      BY <2>5, <3>2 DEF Reads
  <2> QED
    BY <2>5, <2>6, Zenon DEF f
<1> QED
  BY <1>3, <1>4

LEMMA BrightnessTaken ==
  ASSUME NEW l \in Lamps, NEW b \in Int
  PROVE  LampAfter(l, brightness(b)) = [l EXCEPT !.level = b]
<1> DEFINE f == brightness(b)
<1>1. f \in Seq(Int) /\ Len(f) = 2 /\ f[1] = 4 /\ f[2] = b
  BY DEF brightness
<1> HIDE DEF f
<1>2. Len(f) >= 2
  BY <1>1
<1>3. Reads(l, f)
  BY <1>1, <1>2, LampReads, Zenon
<1>4. LampAfter(l, f) = [l EXCEPT !.level = f[2]]
  BY <1>1, <1>3, Zenon DEF Reads
<1> QED
  BY <1>1, <1>4, Zenon DEF f

LEMMA SettingsTaken ==
  ASSUME NEW l \in Lamps
  PROVE  /\ LampAfter(l, power(FALSE)) = [l EXCEPT !.power = "off"]
         /\ LampAfter(l, effects["Normal"]) = Lit(l)
         /\ LampAfter(l, effects["Sunrise"]) = [Lit(l) EXCEPT !.scene = "Sunrise"]
<1>1. LampAfter(l, power(FALSE)) = [l EXCEPT !.power = "off"]
  <2>1. power(FALSE) = <<1, 0>>
    BY DEF power
  <2> DEFINE f == <<1, 0>>
  <2>2. f \in Seq(Int) /\ Len(f) >= 2
    OBVIOUS
  <2> HIDE DEF f
  <2>3. Reads(l, f)
    BY <2>2, LampReads, Zenon
  <2>4. f = power(FALSE)
    BY <2>1, Zenon DEF f
  <2> QED
    BY <2>3, <2>4, Zenon DEF Reads
<1>2. LampAfter(l, power(TRUE)) = Lit(l)
  <2>1. power(TRUE) = <<1, 1>>
    BY DEF power
  <2> DEFINE f == <<1, 1>>
  <2>2. f \in Seq(Int) /\ Len(f) >= 2
    OBVIOUS
  <2> HIDE DEF f
  <2>3. Reads(l, f)
    BY <2>2, LampReads, Zenon
  <2>4. f = power(TRUE)
    BY <2>1, Zenon DEF f
  <2> QED
    BY <2>3, <2>4, Zenon DEF Reads
<1>4. /\ effects["Normal"] = power(TRUE)
      /\ effects["Sunrise"] = <<5>> \o <<4, 0>>
  BY DEF effects, Color
<1>5. LampAfter(l, effects["Sunrise"]) = [Lit(l) EXCEPT !.scene = "Sunrise"]
  <2> DEFINE s == <<5>>
             t == <<4, 0>>
             f == s \o t
  <2>1. /\ s \in Seq(Int) /\ Len(s) = 1 /\ s[1] = 5
        /\ t \in Seq(Int) /\ Len(t) = 2 /\ t[1] = 4
    OBVIOUS
  <2>2. effects["Sunrise"] = f
    BY <1>4
  <2> HIDE DEF s, t
  <2>3. /\ f \in Seq(Int) /\ Len(f) = Len(s) + Len(t)
        /\ \A i \in 1..Len(s) : f[i] = s[i]
        /\ \A i \in 1..Len(t) : f[Len(s) + i] = t[i]
    BY <2>1, Joined, Zenon
  <2> HIDE DEF f
  <2>4. Len(f) >= 2 /\ f[1] = 5 /\ f[2] = 4
    BY <2>1, <2>3
  <2>5. Reads(l, f)
    BY <2>3, <2>4, LampReads, Zenon
  <2>6. LampAfter(l, f) = [Lit(l) EXCEPT !.scene = "Sunrise"]
    BY <2>4, <2>5, Zenon DEF Reads
  <2> QED
    BY <2>2, <2>6
<1> QED
  BY <1>1, <1>2, <1>4, <1>5

\* Lamps stay lamps.
LEMMA LampsKept ==
  ASSUME NEW l \in Lamps
  PROVE  /\ Lit(l) \in Lamps /\ Lit(l).power = "on"
         /\ \A c \in [Segments -> RGB] :
              Coloured(l, c) \in Lamps /\ Coloured(l, c).power = "on"
         /\ LET a == [Lit(l) EXCEPT !.scene = "Sunrise"]
            IN a \in Lamps /\ a.power = "on"
         /\ LET a == [l EXCEPT !.power = "off"] IN a \in Lamps /\ a.power = "off"
         /\ \A b \in AllLevels :
              [l EXCEPT !.level = b] \in Lamps /\ [l EXCEPT !.level = b].power = l.power
BY DEF Lamps, Lit, Coloured, OnOff, None

LEMMA ColoursTyped ==
  ASSUME NEW l \in Lamps, NEW c \in RGB
  PROVE  /\ Whole(c) \in [Segments -> RGB]
         /\ \A mask : Parts(l, c, mask) \in [Segments -> RGB]
BY DEF Lamps, Whole, Parts

\* What a command is and does.
Shines(name, before, after) ==
  CASE name = "off" -> after = "off"
    [] name = "brightness" -> after = before
    [] name \in {"effect", "rgb", "temp", "segments"} -> after = "on"
Argument(m) ==
  /\ m.name \in {"off", "brightness", "effect", "rgb", "temp", "segments"}
  /\ m.name = "brightness" => m.arg \in AllLevels
  /\ m.name = "effect" => m.arg \in Effects
  /\ m.name \in {"rgb", "temp", "segments"} => m.arg \in RGB

LEMMA LevelsAreInt == AllLevels \subseteq Int
BY LevelsAssumption DEF AllLevels, FullLevel

LEMMA Codecs ==
  ASSUME driver \in AllDrivers
  PROVE  Codec = IF driver = "H6163" THEN "dreamcolor"
                 ELSE IF driver = "rgbic" THEN "rgbic" ELSE "common"
BY DEF AllDrivers, Codec

LEMMA GroupTyped ==
  /\ \A g \in AnyGroup : g \in [segments : SUBSET Nat, rgb : RGB]
  /\ \A groups \in Groups :
       /\ Len(groups) \in Nat /\ DOMAIN groups = 1..Len(groups)
       /\ \A i \in 1..Len(groups) : groups[i] \in AnyGroup
<1> DEFINE AllGroups == [segments : SUBSET Nat, rgb : RGB]
<1>1. \A groups \in Groups : groups \in Seq(AllGroups)
  BY SegmentsAssumption
<1> HIDE DEF AllGroups
<1>2. \A groups \in Groups :
        /\ Len(groups) \in Nat /\ DOMAIN groups = 1..Len(groups)
        /\ \A i \in 1..Len(groups) : groups[i] \in AllGroups
  BY <1>1, LenProperties, ElementOfSeq, Zenon
<1>3. ASSUME NEW g \in AnyGroup PROVE g \in AllGroups
  <2>1. PICK groups \in Groups : g \in {groups[i] : i \in 1..Len(groups)}
    BY DEF AnyGroup
  <2> QED
    BY <1>2, <2>1
<1>4. ASSUME NEW groups \in Groups, NEW i \in 1..Len(groups) PROVE groups[i] \in AnyGroup
  BY <1>4 DEF AnyGroup
<1> QED
  BY <1>2, <1>3, <1>4, Zenon DEF AllGroups

LEMMA MessageTaken ==
  ASSUME driver \in AllDrivers, NEW l \in Lamps, NEW m \in Messages
  PROVE  /\ Argument(m)
         /\ LampAfter(l, m.frame) \in Lamps
         /\ Shines(m.name, l.power, LampAfter(l, m.frame).power)
<1> DEFINE a == LampAfter(l, m.frame)
<1>1. CASE m = Message("off", 0, power(FALSE))
  <2>1. m.name = "off" /\ m.frame = power(FALSE)
    BY <1>1 DEF Message
  <2>2. a = [l EXCEPT !.power = "off"]
    BY <2>1, SettingsTaken, Zenon
  <2> HIDE DEF a
  <2>3. a \in Lamps /\ a.power = "off"
    BY <2>2, LampsKept
  <2> QED
    BY <2>1, <2>3 DEF Argument, Shines, a
<1>2. ASSUME NEW e \in Effects, m = Message("effect", e, effects[e])
      PROVE  Argument(m) /\ a \in Lamps /\ Shines(m.name, l.power, a.power)
  <2>1. m.name = "effect" /\ m.arg = e /\ m.frame = effects[e]
    BY <1>2 DEF Message
  <2>2. a = Lit(l) \/ a = [Lit(l) EXCEPT !.scene = "Sunrise"]
    BY <2>1, SettingsTaken, Zenon DEF Effects
  <2> HIDE DEF a
  <2>3. a \in Lamps /\ a.power = "on"
    BY <2>2, LampsKept
  <2> QED
    BY <2>1, <2>3 DEF Argument, Shines
<1>3. ASSUME NEW c \in RGB, m = Message("rgb", c, rgb(Codec, c))
      PROVE  Argument(m) /\ a \in Lamps /\ Shines(m.name, l.power, a.power)
  <2>1. m.name = "rgb" /\ m.arg = c /\ m.frame = rgb(Codec, c)
    BY <1>3 DEF Message
  <2>2. PICK colour \in [Segments -> RGB] : a = Coloured(l, colour)
    <3>1. CASE Codec = "rgbic"
      <4> DEFINE mask == segment_mask("rgbic", ALL_SEGMENTS)
      <4>1. rgb(Codec, c) = segment_color("rgbic", c, ALL_SEGMENTS)
        BY <3>1 DEF rgb
      <4>2. a = Coloured(l, Parts(l, c, mask))
        <5>1. LampAfter(l, segment_color("rgbic", c, ALL_SEGMENTS))
                = Coloured(l, Parts(l, c, mask))
          BY SegmentsTaken
        <5> QED
          BY <2>1, <4>1, <5>1
      <4> QED
        BY <4>2, ColoursTyped, Zenon
    <3>2. CASE Codec \in {"dreamcolor", "common"}
      <4>1. a = Coloured(l, Whole(c))
        BY <2>1, <3>2, ColourTaken, Zenon
      <4> QED
        BY <4>1, ColoursTyped, Zenon
    <3> QED
      BY <3>1, <3>2, Codecs, Zenon
  <2> HIDE DEF a
  <2>3. a \in Lamps /\ a.power = "on"
    BY <2>2, LampsKept, Zenon
  <2> QED
    BY <2>1, <2>3 DEF Argument, Shines
<1>4. CASE m = Message("temp", Warm, color_temp_rgb(Codec, Warm))
  <2>1. m.name = "temp" /\ m.arg = Warm /\ m.frame = color_temp_rgb(Codec, Warm)
    BY <1>4 DEF Message
  <2>2. Warm \in RGB /\ Codec \in {"rgbic", "dreamcolor", "common"}
    BY ColorsAssumption, Codecs
  <2>3. a = Coloured(l, Whole(Warm)) /\ Whole(Warm) \in [Segments -> RGB]
    BY <2>1, <2>2, WhiteTaken, ColoursTyped, Zenon
  <2> HIDE DEF a
  <2>4. a \in Lamps /\ a.power = "on"
    BY <2>3, LampsKept, Zenon
  <2> QED
    BY <2>1, <2>2, <2>4 DEF Argument, Shines, a
<1>5. ASSUME NEW b \in AllLevels, m = Message("brightness", b, brightness(b))
      PROVE  Argument(m) /\ a \in Lamps /\ Shines(m.name, l.power, a.power)
  <2>1. m.name = "brightness" /\ m.arg = b /\ m.frame = brightness(b)
    BY <1>5 DEF Message
  <2>2. b \in Int
    BY LevelsAreInt, Zenon
  <2>3. a = [l EXCEPT !.level = b]
    <3>1. LampAfter(l, brightness(b)) = [l EXCEPT !.level = b]
      BY <2>2, BrightnessTaken, Zenon
    <3> QED
      BY <2>1, <3>1, Zenon
  <2> HIDE DEF a
  <2>4. a \in Lamps /\ a.power = l.power
    BY <2>3, LampsKept, Zenon
  <2> QED
    BY <2>1, <2>4 DEF Argument, Shines
<1>6. ASSUME driver # "plain", NEW g \in AnyGroup, m = GroupMessage(g)
      PROVE  Argument(m) /\ a \in Lamps /\ Shines(m.name, l.power, a.power)
  <2> DEFINE c == g.rgb
             s == g.segments
  <2>1. /\ c \in RGB /\ m.name = "segments" /\ m.arg = c
        /\ m.frame = segment_color(Codec, c, s)
    BY <1>6, GroupTyped DEF GroupMessage, Message
  <2>2. Codec \in {"rgbic", "dreamcolor"}
    BY <1>6, Codecs DEF AllDrivers
  <2> HIDE DEF c, s
  <2>3. a = Coloured(l, Parts(l, c, segment_mask(Codec, s)))
    BY <2>1, <2>2, SegmentsTaken, Zenon
  <2>4. Parts(l, c, segment_mask(Codec, s)) \in [Segments -> RGB]
    BY <2>1, ColoursTyped, Zenon
  <2> HIDE DEF a
  <2>5. a \in Lamps /\ a.power = "on"
    BY <2>3, <2>4, LampsKept, Zenon
  <2> QED
    BY <2>1, <2>5 DEF Argument, Shines
<1>7. \/ m = Message("off", 0, power(FALSE))
      \/ \E e \in Effects : m = Message("effect", e, effects[e])
      \/ \E c \in RGB : m = Message("rgb", c, rgb(Codec, c))
      \/ m = Message("temp", Warm, color_temp_rgb(Codec, Warm))
      \/ \E b \in AllLevels : m = Message("brightness", b, brightness(b))
      \/ driver # "plain" /\ \E g \in AnyGroup : m = GroupMessage(g)
  BY Zenon DEF Messages, SegmentMessages
<1> QED
  BY <1>1, <1>2, <1>3, <1>4, <1>5, <1>6, <1>7, Zenon

----------------------------------------------------------------------------
(* What calls send.                                                        *)

LEMMA Ends ==
  ASSUME NEW S, NEW s \in Seq(S), s # <<>>
  PROVE  /\ Len(s) \in Nat /\ Len(s) >= 1
         /\ Head(s) = s[1] /\ Last(s) = s[Len(s)]
         /\ \A i \in 1..Len(s) : s[i] \in S
         /\ Tail(s) \in Seq(S) /\ Len(Tail(s)) = Len(s) - 1
         /\ \A i \in 1..Len(Tail(s)) : Tail(s)[i] = s[i + 1]
         /\ Tail(s) = <<>> <=> Len(s) = 1
<1>0. Len(s) \in Nat /\ Len(s) # 0
  BY LenProperties, EmptySeq, Zenon
<1>1. /\ Len(s) \in Nat /\ Len(s) >= 1
      /\ Tail(s) \in Seq(S) /\ Len(Tail(s)) = Len(s) - 1
      /\ \A i \in 1..Len(Tail(s)) : Tail(s)[i] = s[i + 1]
  BY <1>0, HeadTailProperties
<1>2. Head(s) = s[1] /\ Last(s) = s[Len(s)]
  BY HeadTailProperties DEF Last
<1>3. \A i \in 1..Len(s) : s[i] \in S
  BY ElementOfSeq
<1>4. Tail(s) = <<>> <=> Len(Tail(s)) = 0
  BY <1>1, EmptySeq
<1> QED
  BY <1>1, <1>2, <1>3, <1>4

IsBack(t, S, s, e) ==
  /\ t \in Seq(S) /\ t # <<>>
  /\ Len(s) \in Nat /\ Len(t) = Len(s) + 1
  /\ \A i \in 1..Len(s) : t[i] = s[i]
  /\ t[Len(s) + 1] = e
  /\ Last(t) = e

LEMMA Back ==
  ASSUME NEW S, NEW s \in Seq(S), NEW e \in S
  PROVE  IsBack(Append(s, e), S, s, e)
BY AppendProperties, LenProperties DEF Last, IsBack

\* Sequences of some messages, put together.
LEMMA Single ==
  ASSUME NEW S, NEW m \in S
  PROVE  /\ <<m>> \in Seq(S) /\ <<m>> # <<>> /\ Len(<<m>>) = 1 /\ <<m>>[1] = m
         /\ Last(<<m>>) = m
BY DEF Last

LEMMA Longer ==
  ASSUME NEW S, NEW s \in Seq(S), NEW m \in S
  PROVE  /\ s \o <<m>> \in Seq(S) /\ s \o <<m>> # <<>>
         /\ Len(s) \in Nat /\ Len(s \o <<m>>) = Len(s) + 1
         /\ \A i \in 1..Len(s) : (s \o <<m>>)[i] = s[i]
         /\ Last(s \o <<m>>) = m
<1>1. s \o <<m>> = Append(s, m)
  BY AppendIsConcat, Zenon
<1> DEFINE u == Append(s, m)
<1>2. /\ u \in Seq(S) /\ u # <<>>
      /\ Len(s) \in Nat /\ Len(u) = Len(s) + 1
      /\ \A i \in 1..Len(s) : u[i] = s[i]
      /\ Last(u) = m
  BY Back DEF IsBack
<1> QED
  BY <1>1, <1>2, Zenon

LEMMA MessageOff == Message("off", 0, power(FALSE)) \in Messages
BY DEF Messages

LEMMA MessageEffect == \A e \in Effects : Message("effect", e, effects[e]) \in Messages
BY DEF Messages

LEMMA MessageRgb == \A c \in RGB : Message("rgb", c, rgb(Codec, c)) \in Messages
BY DEF Messages

LEMMA MessageTemp == Message("temp", Warm, color_temp_rgb(Codec, Warm)) \in Messages
BY DEF Messages

LEMMA MessageBrightness ==
  \A b \in AllLevels : Message("brightness", b, brightness(b)) \in Messages
BY DEF Messages

LEMMA MessageGroup ==
  ASSUME driver # "plain" PROVE \A g \in AnyGroup : GroupMessage(g) \in Messages
BY DEF Messages, SegmentMessages

OffMessage == Message("off", 0, power(FALSE))
NotOff == {m \in Messages : m.name # "off"}
IsTurnOff(op, goal) == op.kind = "off" \/ (op.kind = "manual" /\ goal.brightness = 0)

Kinds(op) ==
  /\ op.kind \in {"effect", "temp", "manual", "segments", "off"}
  /\ op.kind = "temp" => op.brightness \in Levels \cup {NoBrightness}
  /\ op.kind = "manual" =>
       /\ op.rgb \in Colors \cup {NoColor}
       /\ op.brightness \in Levels \cup {0, NoBrightness}
  /\ op.kind = "segments" => op.groups \in Groups

LEMMA OpKinds == ASSUME NEW op \in Ops PROVE Kinds(op)
<1> DEFINE Named == DOMAIN effects \cup {"unheard of"}
<1>1. \/ op \in [kind : {"effect"}, effect : Named]
      \/ op \in [kind : {"temp"}, brightness : Levels \cup {NoBrightness}]
      \/ op \in [kind : {"manual"}, rgb : Colors \cup {NoColor},
                 brightness : Levels \cup {0, NoBrightness}]
      \/ op \in [kind : {"segments"}, groups : Groups]
      \/ op = [kind |-> "off"]
  BY DEF Ops
<1> HIDE DEF Named
<1> QED
  BY <1>1 DEF Kinds

LEMMA GoalTyped ==
  ASSUME api \in ApiStates, NEW op \in Ops, op.kind = "manual"
  PROVE  Goal(op) \in Goals
<1>1. /\ op.rgb \in Colors \cup {NoColor}
      /\ op.brightness \in Levels \cup {0, NoBrightness}
  BY OpKinds DEF Kinds
<1>2. api.rgb \in RGB \cup {NoColor} /\ api.last_brightness \in AllLevels
  BY DEF ApiStates
<1>3. White \in RGB
  BY DEF White, RGB
<1> QED
  BY <1>1, <1>2, <1>3, ColorsAssumption DEF Goal, Goals, AllLevels

\* What a call sends that turns the lamp off, or does not.
Sends(op, goal, p) ==
  IF IsTurnOff(op, goal) THEN p = <<OffMessage>>
  ELSE /\ p \in Seq(NotOff)
       /\ p # <<>> /\ Last(p).name = "brightness" => Len(p) = 2 /\ p[1].name = "temp"

LEMMA SendsOthers ==
  ASSUME NEW op, NEW goal, ~IsTurnOff(op, goal),
         NEW s \in Seq(NotOff), NEW m \in NotOff,
         m.name = "brightness" => Len(s) = 1 /\ s[1].name = "temp"
  PROVE  Sends(op, goal, s \o <<m>>) /\ s \o <<m>> # <<>>
<1> DEFINE p == s \o <<m>>
<1>1. /\ p \in Seq(NotOff) /\ p # <<>> /\ Len(s) \in Nat /\ Len(p) = Len(s) + 1
      /\ \A i \in 1..Len(s) : p[i] = s[i]
      /\ Last(p) = m
  BY Longer, Zenon
<1> HIDE DEF p
<1>2. Last(p).name = "brightness" => Len(p) = 2 /\ p[1].name = "temp"
  <2> SUFFICES ASSUME m.name = "brightness" PROVE Len(p) = 2 /\ p[1].name = "temp"
    BY <1>1, Zenon
  <2>1. Len(s) = 1 /\ s[1].name = "temp"
    OBVIOUS
  <2>2. 1 \in 1..Len(s) /\ Len(p) = 2
    BY <1>1, <2>1
  <2> QED
    BY <1>1, <2>1, <2>2, Zenon
<1>3. Sends(op, goal, p) /\ p # <<>>
  BY <1>1, <1>2, Zenon DEF Sends
<1> QED
  BY <1>3, Zenon DEF p

LEMMA MessageNames ==
  ASSUME driver \in AllDrivers
  PROVE  /\ OffMessage \in Messages
         /\ \A e \in Effects :
              LET m == Message("effect", e, effects[e]) IN m \in NotOff /\ m.name = "effect"
         /\ \A c \in RGB :
              LET m == Message("rgb", c, rgb(Codec, c)) IN m \in NotOff /\ m.name = "rgb"
         /\ LET m == Message("temp", Warm, color_temp_rgb(Codec, Warm))
            IN m \in NotOff /\ m.name = "temp"
         /\ \A b \in AllLevels :
              LET m == Message("brightness", b, brightness(b))
              IN m \in NotOff /\ m.name = "brightness"
         /\ driver # "plain" =>
              \A g \in AnyGroup : GroupMessage(g) \in NotOff /\ GroupMessage(g).name = "segments"
<1>1. OffMessage \in Messages
  BY MessageOff DEF OffMessage
<1>2. ASSUME NEW n, n # "off", NEW a, NEW f, Message(n, a, f) \in Messages
      PROVE  Message(n, a, f) \in NotOff /\ Message(n, a, f).name = n
  BY <1>2 DEF Message, NotOff
<1>3. ASSUME driver # "plain", NEW g \in AnyGroup
      PROVE  GroupMessage(g) \in NotOff /\ GroupMessage(g).name = "segments"
  BY <1>2, <1>3, MessageGroup, Zenon DEF GroupMessage
<1>4. /\ "effect" # "off" /\ "rgb" # "off" /\ "temp" # "off"
      /\ "brightness" # "off" /\ "segments" # "off"
  OBVIOUS
<1> QED
  BY <1>1, <1>2, <1>3, <1>4, MessageEffect, MessageRgb, MessageTemp,
     MessageBrightness, Zenon

GoalOf(op) == IF op.kind = "manual" THEN Goal(op) ELSE None

LEMMA Planned ==
  ASSUME driver \in AllDrivers, api \in ApiStates, NEW op \in Ops
  PROVE  /\ GoalOf(op) \in Goals \cup {None}
         /\ Plan(op) # <<>> => Sends(op, GoalOf(op), Plan(op))
<1> DEFINE goal == GoalOf(op)
           p == Plan(op)
           bright(b) == Message("brightness", b, brightness(b))
           normal == Message("effect", "Normal", effects["Normal"])
           white == Message("temp", Warm, color_temp_rgb(Codec, Warm))
           none == <<>>
<1>1. Kinds(op)
  BY OpKinds
<1>2. /\ normal \in NotOff /\ normal.name = "effect"
      /\ white \in NotOff /\ white.name = "temp"
      /\ \A b \in AllLevels : bright(b) \in NotOff /\ bright(b).name = "brightness"
  BY MessageNames, Zenon DEF Effects
<1>3. /\ none \in Seq(NotOff) /\ Len(none) = 0
      /\ \A m \in NotOff : none \o <<m>> = <<m>>
  OBVIOUS
<1>4. goal \in Goals \cup {None}
  BY GoalTyped, Zenon DEF GoalOf
<1>5. ASSUME NEW m \in NotOff, m.name # "brightness", ~IsTurnOff(op, goal)
      PROVE  Sends(op, goal, <<m>>)
  <2>1. Sends(op, goal, none \o <<m>>)
    BY <1>3, <1>5, SendsOthers, Zenon
  <2> QED
    BY <1>3, <2>1, Zenon
<1> HIDE DEF bright, normal, white, goal, p
<1>6. CASE op.kind = "off"
  <2>1. p = <<OffMessage>> /\ IsTurnOff(op, goal)
    BY <1>6 DEF p, Plan, async_turn_off, Command, OffMessage, Message, IsTurnOff
  <2> QED
    BY <1>4, <2>1, Zenon DEF Sends, goal, p
<1>7. CASE op.kind = "effect" /\ p # <<>>
  <2>1. ~IsTurnOff(op, goal)
    BY <1>7 DEF IsTurnOff
  <2>2. op.effect \in DOMAIN effects /\ DOMAIN effects = Effects
    BY <1>7 DEF p, Plan, async_set_effect, effects, Effects
  <2> DEFINE e == op.effect
             m == Message("effect", e, effects[e])
  <2>3. p = <<m>>
    BY <1>7, <2>2 DEF p, Plan, async_set_effect, Command, Message
  <2>4. m \in NotOff /\ m.name = "effect"
    BY <2>2, MessageNames, Zenon
  <2> HIDE DEF m
  <2>5. m.name # "brightness"
    BY <2>4
  <2> QED
    BY <1>4, <1>5, <2>1, <2>3, <2>4, <2>5, Zenon DEF goal, p
<1>8. CASE op.kind = "temp"
  <2>1. ~IsTurnOff(op, goal)
    BY <1>8 DEF IsTurnOff
  <2> DEFINE b == op.brightness
  <2>2. \/ p = <<white>> \o <<>>
        \/ b # NoBrightness /\ p = <<white>> \o <<bright(b)>>
    BY <1>8 DEF p, Plan, TempPlan, async_set_light_color_temp, Command, Message,
                async_set_light_brightness, bright, white
  <2>3. CASE p = <<white>> \o <<>>
    <3>1. p = <<white>>
      BY <2>3
    <3>2. white.name # "brightness"
      BY <1>2
    <3> QED
      BY <1>2, <1>4, <1>5, <2>1, <3>1, <3>2, Zenon DEF goal, p
  <2>4. CASE b # NoBrightness /\ p = <<white>> \o <<bright(b)>>
    <3>1. b \in AllLevels
      BY <1>1, <1>8, <2>4 DEF Kinds, AllLevels
    <3>2. <<white>> \in Seq(NotOff) /\ Len(<<white>>) = 1 /\ <<white>>[1].name = "temp"
      BY <1>2, Single
    <3>3. Sends(op, goal, p)
      BY <1>2, <2>1, <2>4, <3>1, <3>2, SendsOthers, Zenon
    <3> QED
      BY <1>4, <3>3, Zenon DEF goal, p
  <2> QED
    BY <2>2, <2>3, <2>4
<1>9. CASE op.kind = "manual" /\ goal.brightness = 0
  <2>1. p = <<OffMessage>> /\ IsTurnOff(op, goal)
    BY <1>9 DEF p, goal, GoalOf, Plan, ManualPlan, async_turn_off, Command,
                OffMessage, Message, IsTurnOff
  <2> QED
    BY <1>4, <2>1, Zenon DEF Sends, goal, p
<1>10. CASE op.kind = "manual" /\ goal.brightness # 0
  <2>1. ~IsTurnOff(op, goal)
    BY <1>10 DEF IsTurnOff
  <2> DEFINE colour == Message("rgb", goal.rgb, rgb(Codec, goal.rgb))
             x == IF goal.rgb # api.rgb THEN <<colour>> ELSE <<>>
             y == IF goal.brightness # api.brightness
                  THEN <<bright(goal.brightness)>> ELSE <<>>
  <2>2. goal \in Goals /\ goal = Goal(op)
    BY <1>10, GoalTyped, Zenon DEF goal, GoalOf
  <2>3. p = (x \o y) \o <<normal>>
    BY <1>10, <2>2, Zenon
       DEF p, Plan, ManualPlan, async_set_light_rgb, async_set_light_brightness,
           async_set_effect, Command, Message, bright, normal, effects
  <2>4. x \in Seq(NotOff)
    <3>1. colour \in NotOff
      BY <2>2, MessageNames, Zenon DEF Goals
    <3> HIDE DEF colour
    <3> QED
      BY <3>1
  <2>5. y \in Seq(NotOff)
    <3>1. goal.brightness \in AllLevels
      BY <1>10, <2>2 DEF Goals
    <3>2. bright(goal.brightness) \in NotOff
      BY <1>2, <3>1, Zenon
    <3> QED
      BY <3>2
  <2> HIDE DEF x, y
  <2>6. x \o y \in Seq(NotOff)
    BY <2>4, <2>5, ConcatProperties
  <2>7. normal.name # "brightness"
    BY <1>2
  <2>8. Sends(op, goal, p)
    BY <1>2, <2>1, <2>3, <2>6, <2>7, SendsOthers, Zenon
  <2> QED
    BY <1>4, <2>8, Zenon DEF goal, p
<1>11. CASE op.kind = "segments" /\ p # <<>>
  <2>1. ~IsTurnOff(op, goal)
    BY <1>11 DEF IsTurnOff
  <2> DEFINE s == op.groups
  <2>2. /\ driver # "plain"
        /\ p = [i \in DOMAIN s |-> GroupMessage(s[i])]
    <3>1. driver # "plain"
      BY <1>11 DEF p, Plan, async_set_segment_colors
    <3>2. p = async_set_segment_colors(s)
      BY <1>11 DEF p, Plan
    <3> QED
      BY <3>1, <3>2, Zenon DEF async_set_segment_colors, GroupMessage, Message
  <2>3. s \in Groups
    BY <1>1, <1>11 DEF Kinds
  <2>4. Len(s) \in Nat /\ DOMAIN s = 1..Len(s) /\ \A i \in 1..Len(s) : s[i] \in AnyGroup
    BY <2>3, GroupTyped, Zenon
  <2>5. \A i \in 1..Len(s) :
          GroupMessage(s[i]) \in NotOff /\ GroupMessage(s[i]).name = "segments"
    BY <2>2, <2>4, MessageNames, Zenon
  <2> HIDE DEF s
  <2>6. /\ p \in [1..Len(s) -> NotOff]
        /\ \A i \in 1..Len(s) : p[i].name = "segments"
    BY <2>2, <2>4, <2>5
  <2>7. p \in Seq(NotOff)
    BY <2>4, <2>6, SeqDef
  <2>8. DOMAIN p = 1..Len(p) /\ Len(p) \in 1..Len(p)
    BY <1>11, <2>7, Ends
  <2>9. DOMAIN p = 1..Len(s)
    BY <2>6
  <2>10. Last(p).name = "segments"
    BY <2>6, <2>8, <2>9, Zenon DEF Last
  <2>11. "segments" # "brightness"
    OBVIOUS
  <2>12. Sends(op, goal, p)
    BY <2>1, <2>7, <2>10, <2>11, Zenon DEF Sends
  <2> QED
    BY <1>4, <2>12, Zenon DEF goal, p
<1>12. \/ op.kind = "off" \/ op.kind = "effect" \/ op.kind = "temp"
       \/ op.kind = "manual" \/ op.kind = "segments"
  BY <1>1 DEF Kinds
<1> QED
  BY <1>4, <1>6, <1>7, <1>8, <1>9, <1>10, <1>11, <1>12, Zenon DEF goal, p

\* The calls that run are shaped as Sends says.
LEMMA ShapedIfSends ==
  ASSUME driver \in AllDrivers, NEW c, c.op \in Ops, c.plan # <<>>,
         Sends(c.op, c.goal, c.plan)
  PROVE  /\ Shaped(c) /\ c.plan \in Seq(Messages)
         /\ Last(c.plan).name = "brightness" => Len(c.plan) = 2
         /\ TurnsOff(c) <=> IsTurnOff(c.op, c.goal)
<1> DEFINE p == c.plan
<1>1. TurnsOff(c) <=> IsTurnOff(c.op, c.goal)
  BY Zenon DEF TurnsOff, IsTurnOff
<1>2. CASE IsTurnOff(c.op, c.goal)
  <2>1. p = <<OffMessage>> /\ OffMessage \in Messages /\ OffMessage.name = "off"
    BY <1>2, MessageNames DEF Sends, OffMessage, Message
  <2> HIDE DEF p
  <2>2. /\ p \in Seq(Messages) /\ Len(p) = 1 /\ Last(p).name # "brightness"
        /\ \A i \in 1..Len(p) : p[i].name = "off"
    BY <2>1 DEF Last
  <2> QED
    BY <1>1, <1>2, <2>2 DEF Shaped, p
<1>3. CASE ~IsTurnOff(c.op, c.goal)
  <2>1. p \in Seq(NotOff)
    BY <1>3, Zenon DEF Sends
  <2>2. p \in Seq(Messages) /\ \A i \in 1..Len(p) : p[i].name # "off"
    BY <2>1, ElementOfSeq DEF NotOff
  <2>3. Last(p).name = "brightness" => Len(p) = 2 /\ p[1].name = "temp"
    BY <1>3, Zenon DEF Sends
  <2> HIDE DEF p
  <2> QED
    BY <1>1, <1>3, <2>2, <2>3, Zenon DEF Shaped, p
<1> QED
  BY <1>2, <1>3

----------------------------------------------------------------------------
(* The API's state.                                                        *)

LEMMA AcknowledgedTyped ==
  ASSUME NEW a \in ApiStates, NEW m, Argument(m)
  PROVE  Acknowledged(a, m) \in ApiStates
<1> DEFINE ack == Acknowledged(a, m)
<1>1. CASE m.name = "brightness"
  <2>1. ack = [a EXCEPT !.brightness = m.arg, !.last_brightness = m.arg]
    BY <1>1 DEF Acknowledged
  <2> QED
    BY <1>1, <2>1 DEF Argument, ApiStates
<1>2. CASE m.name = "effect"
  <2>1. ack = [a EXCEPT !.effect = m.arg]
    BY <1>2 DEF Acknowledged
  <2> QED
    BY <1>2, <2>1 DEF Argument, ApiStates
<1>3. CASE m.name = "off"
  <2>1. ack = [a EXCEPT !.is_on = "off"]
    BY <1>3 DEF Acknowledged
  <2> QED
    BY <1>3, <2>1 DEF ApiStates, OnOff
<1>4. CASE m.name \in {"rgb", "temp", "segments"}
  <2>1. \/ ack = [a EXCEPT !.rgb = m.arg, !.mode = "rgb"]
        \/ ack = [a EXCEPT !.rgb = m.arg, !.mode = "color_temp"]
        \/ ack = [a EXCEPT !.rgb = m.arg, !.is_on = "on"]
    BY <1>4 DEF Acknowledged
  <2> QED
    BY <1>4, <2>1 DEF Argument, ApiStates, OnOff
<1> QED
  BY <1>1, <1>2, <1>3, <1>4, Zenon DEF Argument

LEMMA EndedTyped ==
  ASSUME NEW a \in ApiStates, NEW c
  PROVE  /\ Ended(a, c) \in ApiStates
         /\ Ended(a, c).is_on = IF TurnsOff(c) THEN "off" ELSE "on"
<1> DEFINE e == Ended(a, c)
<1>1. \/ TurnsOff(c) /\ e = [a EXCEPT !.brightness = 0, !.is_on = "off"]
      \/ ~TurnsOff(c) /\ e = [a EXCEPT !.is_on = "on", !.effect = "Normal"]
      \/ ~TurnsOff(c) /\ e = [a EXCEPT !.is_on = "on"]
  BY Zenon DEF Ended
<1> HIDE DEF e
<1>2. CASE TurnsOff(c) /\ e = [a EXCEPT !.brightness = 0, !.is_on = "off"]
  BY <1>2 DEF ApiStates, OnOff, e
<1>3. CASE ~TurnsOff(c) /\ e = [a EXCEPT !.is_on = "on", !.effect = "Normal"]
  BY <1>3 DEF ApiStates, OnOff, Effects, e
<1>4. CASE ~TurnsOff(c) /\ e = [a EXCEPT !.is_on = "on"]
  BY <1>4 DEF ApiStates, OnOff, e
<1> QED
  BY <1>1, <1>2, <1>3, <1>4, Zenon

\* An answer is the lamp's brightness, a colour or its power.
LEMMA AnswerForms ==
  ASSUME NEW f \in Answers
  PROVE  \/ \E b \in AllLevels : f[1] = 4 /\ f[2] = b
         \/ f[1] = 5 /\ SubSeq(f, 3, 5) \in RGB
         \/ f[1] = 1
<1>1. CASE \E b \in AllLevels : f = <<4, b>>
  BY <1>1
<1>2. ASSUME NEW c \in RGB, f = <<5, 1>> \o c
      PROVE  f[1] = 5 /\ SubSeq(f, 3, 5) \in RGB
  <2> DEFINE s == <<5, 1>>
  <2>1. s \in Seq(Int) /\ Len(s) = 2 /\ s[1] = 5
    OBVIOUS
  <2>2. c \in Seq(Int) /\ Len(c) = 3
    BY ColourBytes
  <2>3. f = s \o c
    BY <1>2
  <2> HIDE DEF s
  <2>4. /\ f \in Seq(Int) /\ Len(f) = Len(s) + Len(c)
        /\ \A i \in 1..Len(s) : f[i] = s[i]
        /\ \A i \in 1..Len(c) : f[Len(s) + i] = c[i]
    BY <2>1, <2>2, <2>3, Joined, Zenon
  <2>5. f[1] = 5 /\ 2 \in Nat /\ Len(f) >= 2 + Len(c) /\ \A i \in 1..Len(c) : f[2 + i] = c[i]
    BY <2>1, <2>2, <2>4
  <2>6. SubSeq(f, 2 + 1, 2 + Len(c)) = c
    BY <2>2, <2>4, <2>5, Part, Zenon
  <2>7. 2 + 1 = 3 /\ 2 + Len(c) = 5
    BY <2>2
  <2> QED
    BY <2>5, <2>6, <2>7, Zenon
<1>3. CASE f = <<1, 0>> \/ f = <<1, 1>>
  BY <1>3
<1> QED
  BY <1>1, <1>2, <1>3, Zenon DEF Answers

LEMMA ParsedTyped ==
  ASSUME NEW a \in ApiStates, NEW f \in Answers
  PROVE  /\ Parsed(a, f) \in ApiStates
         /\ Parsed(a, f).is_on = IF f[1] # 1 THEN a.is_on
                                 ELSE IF f[2] = 1 THEN "on" ELSE "off"
<1> DEFINE p == Parsed(a, f)
<1>1. CASE f[1] = 4 /\ f[2] \in AllLevels
  <2> DEFINE b == f[2]
  <2>1. \/ p = [a EXCEPT !.brightness = b]
        \/ p = [a EXCEPT !.brightness = b, !.last_brightness = b]
    BY <1>1 DEF Parsed
  <2>2. b \in AllLevels /\ f[1] # 1
    BY <1>1
  <2> HIDE DEF b, p
  <2>3. p \in ApiStates /\ p.is_on = a.is_on
    BY <2>1, <2>2 DEF ApiStates
  <2> QED
    BY <2>2, <2>3, Zenon DEF p
<1>2. CASE f[1] = 5 /\ SubSeq(f, 3, 5) \in RGB
  <2> DEFINE c == SubSeq(f, 3, 5)
  <2>1. p = [a EXCEPT !.rgb = c]
    BY <1>2 DEF Parsed
  <2>2. c \in RGB /\ f[1] # 1
    BY <1>2
  <2> HIDE DEF c, p
  <2>3. p \in ApiStates /\ p.is_on = a.is_on
    BY <2>1, <2>2 DEF ApiStates
  <2> QED
    BY <2>2, <2>3, Zenon DEF p
<1>3. CASE f[1] = 1
  <2>1. p = [a EXCEPT !.is_on = IF f[2] = 1 THEN "on" ELSE "off"]
    BY <1>3 DEF Parsed
  <2> QED
    BY <1>3, <2>1 DEF ApiStates, OnOff
<1> QED
  BY <1>1, <1>2, <1>3, AnswerForms, Zenon

\* What the lamp answers, and its power if that is what it was asked for.
LEMMA Replied ==
  ASSUME NEW l \in Lamps, NEW q \in {"brightness", "color", "power"},
         NEW f \in Replies(l, q)
  PROVE  /\ f \in Answers
         /\ f[1] = 1 => (IF f[2] = 1 THEN "on" ELSE "off") = l.power
<1>1. CASE q = "brightness"
  <2>1. f = <<4, l.level>> /\ l.level \in AllLevels
    BY <1>1 DEF Replies, Lamps
  <2> QED
    BY <2>1 DEF Answers
<1>2. CASE q = "color"
  <2>1. DOMAIN l.colour = Segments /\ \A s \in Segments : l.colour[s] \in RGB
    BY DEF Lamps
  <2>2. PICK s \in Segments : f = <<5, 1>> \o l.colour[s]
    BY <1>2, <2>1 DEF Replies
  <2> DEFINE c == l.colour[s]
  <2>3. c \in RGB /\ f = <<5, 1>> \o c
    BY <2>1, <2>2
  <2> HIDE DEF c
  <2>4. f \in Answers
    BY <2>3 DEF Answers
  <2>5. f[1] = 5
    BY <2>3, ColourBytes
  <2> QED
    BY <2>4, <2>5
<1>3. CASE q = "power"
  <2>1. f = power(l.power = "on") /\ l.power \in OnOff
    BY <1>3 DEF Replies, Lamps
  <2> QED
    BY <2>1 DEF power, OnOff, Answers
<1> QED
  BY <1>1, <1>2, <1>3

----------------------------------------------------------------------------
(* Calls that run.                                                         *)

LEMMA DriverKnown == ASSUME Typed PROVE driver \in AllDrivers
BY DriversAssumption DEF Typed

\* The driver stays what it is, and so do the messages.
LEMMA SameMessages ==
  ASSUME UNCHANGED driver
  PROVE  /\ Messages' = Messages /\ ServiceCalls' = ServiceCalls /\ Queue' = Queue
         /\ driver \in Drivers => driver' \in Drivers
<1>1. Codec' = Codec
  BY DEF Codec
<1>2. \A g : GroupMessage(g)' = GroupMessage(g)
  BY <1>1 DEF GroupMessage
<1>3. SegmentMessages' = SegmentMessages
  BY <1>2, Zenon DEF SegmentMessages
<1>4. Messages' = Messages
  BY <1>1, <1>3, Zenon DEF Messages
<1> QED
  BY <1>4, Zenon DEF ServiceCalls, Queue, Commands

LEMMA RunningCall ==
  ASSUME Typed, CallsShaped, NEW k \in Running
  PROVE  LET p == call[k].plan
         IN /\ k \in Calls /\ call[k] \in ServiceCalls /\ Shaped(call[k])
            /\ p \in Seq(Messages) /\ p # <<>> /\ Len(p) \in Nat /\ Len(p) >= 1
            /\ Head(p) = p[1] /\ Last(p) = p[Len(p)] /\ Head(p) \in Messages
            /\ Head(p).name = "off" <=> TurnsOff(call[k])
<1> DEFINE c == call[k]
           p == c.plan
<1>1. k \in Calls /\ c.state = "running"
  BY DEF Running
<1>2. c \in ServiceCalls /\ p # <<>> /\ Shaped(c)
  BY <1>1 DEF Typed, CallsShaped
<1>3. p \in Seq(Messages)
  BY <1>2 DEF ServiceCalls
<1>4. /\ Len(p) \in Nat /\ Len(p) >= 1
      /\ Head(p) = p[1] /\ Last(p) = p[Len(p)] /\ \A i \in 1..Len(p) : p[i] \in Messages
  BY <1>2, <1>3, Ends, Zenon
<1>5. 1 \in 1..Len(p)
  BY <1>4
<1>6. p[1].name = "off" <=> TurnsOff(c)
  BY <1>2, <1>5, Zenon DEF Shaped
<1> QED
  BY <1>1, <1>2, <1>3, <1>4, <1>5, <1>6, Zenon

LEMMA OldestCommand ==
  ASSUME Typed, Waiting, line # <<>>
  PROVE  LET h == Head(line).call
         IN /\ Head(line) = line[1] /\ 1 \in 1..Len(line) /\ Len(line) \in Nat
            /\ h \in Running /\ h \in Calls /\ Has(line, h) /\ ~Has(ready, h)
            /\ Head(line).frame = Head(call[h].plan).frame
            /\ \A i \in 1..Len(line) : line[i].call = h => i = 1
<1>1. line \in Seq(Queue)
  BY DEF Typed
<1>2. /\ Head(line) = line[1] /\ Len(line) \in Nat /\ Len(line) >= 1
      /\ \A i \in 1..Len(line) : line[i] \in Queue
  BY <1>1, Ends, Zenon
<1>3. 1 \in 1..Len(line)
  BY <1>2
<1>4. Head(line).call \in Calls /\ Has(line, Head(line).call)
  BY <1>2, <1>3 DEF Has, Queue
<1>5. \A i \in 1..Len(line) : line[i].call = line[1].call => i = 1
  BY <1>3, Zenon DEF Waiting, Once
<1> QED
  BY <1>2, <1>3, <1>4, <1>5, Zenon DEF Waiting

LEMMA WokenCall ==
  ASSUME Typed, Waiting, ready # <<>>
  PROVE  LET h == Head(ready).call
         IN /\ Head(ready) = ready[1] /\ 1 \in 1..Len(ready) /\ Len(ready) \in Nat
            /\ Head(ready).ok \in BOOLEAN
            /\ h \in Running /\ h \in Calls /\ Has(ready, h) /\ ~Has(line, h)
            /\ \A i \in 1..Len(ready) : ready[i].call = h => i = 1
<1>1. ready \in Seq(Verdicts)
  BY DEF Typed
<1>2. /\ Head(ready) = ready[1] /\ Len(ready) \in Nat /\ Len(ready) >= 1
      /\ \A i \in 1..Len(ready) : ready[i] \in Verdicts
  BY <1>1, Ends, Zenon
<1>3. 1 \in 1..Len(ready)
  BY <1>2
<1>4. Head(ready).call \in Calls /\ Has(ready, Head(ready).call) /\ Head(ready).ok \in BOOLEAN
  BY <1>2, <1>3 DEF Has, Verdicts
<1>5. \A i \in 1..Len(ready) : ready[i].call = ready[1].call => i = 1
  BY <1>3, Zenon DEF Waiting, Once
<1> QED
  BY <1>2, <1>3, <1>4, <1>5, Zenon DEF Waiting

LEMMA NothingRuns ==
  ASSUME Typed, Waiting, Running = {}
  PROVE  line = <<>> /\ ready = <<>> /\ ~executed
<1>1. line = <<>>
  BY OldestCommand, Zenon
<1>2. ready = <<>>
  BY WokenCall, Zenon
<1> QED
  BY <1>1, <1>2 DEF Waiting

----------------------------------------------------------------------------
(* The lamp executes a command.                                            *)

\* By its call's last command the lamp is as the call wants it.
LEMMA LampFollows ==
  ASSUME IndInv, followed, Execute
  PROVE  LET h == Head(line).call
         IN /\ Len(call[h].plan) = 1 => lamp'.power = Intent(h)
            /\ Fades(h) => lamp'.power = "on"
            /\ lamp'.power = lamp.power \/ lamp'.power = "on" \/ TurnsOff(call[h])
<1> DEFINE h == Head(line).call
           p == call[h].plan
           m == Head(p)
<1>1. Typed /\ Waiting /\ CallsShaped /\ FadesLit /\ line # <<>> /\ ~executed
  BY DEF IndInv, PowerInv, Execute
<1>2. h \in Running /\ h \in Calls /\ Head(line).frame = m.frame
  BY <1>1, OldestCommand
<1>3. /\ Shaped(call[h]) /\ p # <<>> /\ Len(p) \in Nat /\ Len(p) >= 1
      /\ m = p[1] /\ Last(p) = p[Len(p)] /\ m \in Messages
      /\ m.name = "off" <=> TurnsOff(call[h])
  BY <1>1, <1>2, RunningCall, Zenon
<1>4. Argument(m) /\ Shines(m.name, lamp.power, lamp'.power)
  <2>1. lamp' = LampAfter(lamp, m.frame) /\ lamp \in Lamps
    BY <1>1, <1>2 DEF Execute, Typed
  <2> QED
    BY <1>1, <1>3, <2>1, DriverKnown, MessageTaken, Zenon
<1>5. /\ TurnsOff(call[h]) => lamp'.power = "off"
      /\ ~TurnsOff(call[h]) => lamp'.power = IF m.name = "brightness" THEN lamp.power ELSE "on"
  BY <1>3, <1>4 DEF Argument, Shines
<1>6. Fades(h) => ~TurnsOff(call[h])
  <2> SUFFICES ASSUME Fades(h), TurnsOff(call[h]) PROVE FALSE
    OBVIOUS
  <2>1. Last(p).name = "brightness" /\ Len(p) = 1
    BY <1>3 DEF Fades, Shaped
  <2> QED
    BY <1>3, <2>1
<1>7. Fades(h) => lamp'.power = "on"
  <2> SUFFICES ASSUME Fades(h) PROVE lamp'.power = "on"
    OBVIOUS
  <2>1. CASE Len(p) = 1
    <3>1. ~White1st(h)
      BY <2>1 DEF White1st
    <3>2. lamp.power = "on"
      BY <1>1, <1>2, <3>1, Zenon DEF FadesLit
    <3> QED
      BY <1>5, <1>6, <3>2
  <2>2. CASE Len(p) # 1
    <3>1. m.name = "temp"
      BY <1>3, <2>2 DEF Fades, Shaped
    <3> QED
      BY <1>5, <1>6, <3>1
  <2> QED
    BY <2>1, <2>2
<1>8. ASSUME Len(p) = 1 PROVE lamp'.power = Intent(h)
  <2>1. m.name = "brightness" => Fades(h)
    BY <1>2, <1>3, <1>8 DEF Fades
  <2> QED
    BY <1>5, <1>7, <2>1 DEF Intent
<1> QED
  BY <1>5, <1>7, <1>8, Zenon

LEMMA ExecuteStep == ASSUME IndInv, Execute PROVE IndInv'
<1> DEFINE h == Head(line).call
           p == call[h].plan
           m == Head(p)
<1>1. /\ Typed /\ Waiting /\ CallsShaped /\ PowerInv /\ line # <<>> /\ ~executed
      /\ executed' = TRUE
      /\ UNCHANGED <<driver, api, call, begun, line, ready, poll, polls, air,
                     known, told, followed>>
  BY DEF IndInv, Execute, callVars, pollVars
<1>2. /\ h \in Running /\ h \in Calls /\ Head(line).frame = m.frame
      /\ Len(line) \in Nat
      /\ \A i \in 1..Len(line) : line[i].call = h => i = 1
  BY <1>1, OldestCommand, Zenon
<1>3. Running' = Running
  BY <1>1 DEF Running
<1>4. Typed'
  <2>1. lamp' = LampAfter(lamp, m.frame) /\ lamp \in Lamps
    BY <1>1, <1>2 DEF Execute, Typed
  <2>2. m \in Messages
    BY <1>1, <1>2, RunningCall, Zenon
  <2>3. lamp' \in Lamps
    BY <1>1, <2>1, <2>2, DriverKnown, MessageTaken, Zenon
  <2> QED
    BY <1>1, <2>3, SameMessages, Zenon DEF Typed
<1>5. Waiting'
  BY <1>1, <1>3 DEF Waiting, Once, Has
<1>6. CallsShaped'
  BY <1>1, <1>3 DEF CallsShaped, Shaped, TurnsOff, Ops
<1>7. ASSUME followed' PROVE FollowsLatest' /\ FadesLit' /\ ShownAtRest'
  <2>1. followed /\ FadesLit
    BY <1>1, <1>7 DEF PowerInv
  <2>2. /\ Len(p) = 1 => lamp'.power = Intent(h)
        /\ Fades(h) => lamp'.power = "on"
        /\ lamp'.power = lamp.power \/ lamp'.power = "on" \/ TurnsOff(call[h])
    BY <2>1, LampFollows, Zenon
  <2>3. FollowsLatest'
    BY <1>1, <2>2 DEF FollowsLatest, Intent, TurnsOff
  <2>4. FadesLit'
    <3> SUFFICES ASSUME NEW k \in Calls, Fades(k)'
                 PROVE  /\ ~White1st(k)' => lamp'.power = "on"
                        /\ \A i \in Undone' : TurnsOff(call[line[i].call])' =>
                             White1st(k)' /\ (\E j \in (i + 1)..Len(line) : line[j].call = k)'
      BY Zenon DEF FadesLit
    <3>1. Fades(k)
      BY <1>1, <1>3 DEF Fades
    <3>2. White1st(k)' <=> White1st(k) /\ k # h
      BY <1>1 DEF White1st, Has, Executing
    <3>3. Undone' = Undone \ {1} /\ 1 \in Undone
      BY <1>1, <1>2, OldestCommand DEF Undone
    <3>4. /\ ~White1st(k) => lamp.power = "on"
          /\ \A i \in Undone : TurnsOff(call[line[i].call]) =>
               White1st(k) /\ \E j \in (i + 1)..Len(line) : line[j].call = k
      BY <2>1, <3>1, Zenon DEF FadesLit
    <3>5. ASSUME ~White1st(k)' PROVE lamp'.power = "on"
      <4>1. CASE k = h
        BY <2>2, <3>1, <4>1, Zenon
      <4>2. CASE ~White1st(k)
        <5>1. ~TurnsOff(call[line[1].call])
          BY <3>3, <3>4, <4>2, Zenon
        <5>2. ~TurnsOff(call[h])
          BY <1>1, <5>1, OldestCommand, Zenon
        <5> QED
          BY <2>2, <3>4, <4>2, <5>2
      <4> QED
        BY <3>2, <3>5, <4>1, <4>2
    <3>6. ASSUME NEW i \in Undone', TurnsOff(call[line[i].call])'
          PROVE  White1st(k)' /\ (\E j \in (i + 1)..Len(line) : line[j].call = k)'
      <4>1. i \in Undone /\ i # 1 /\ i \in 1..Len(line)
        BY <3>3 DEF Undone
      <4>2. TurnsOff(call[line[i].call])
        BY <1>1, <3>6 DEF TurnsOff
      <4>3. White1st(k) /\ \E j \in (i + 1)..Len(line) : line[j].call = k
        BY <3>4, <4>1, <4>2, Zenon
      <4>4. PICK j \in (i + 1)..Len(line) : line[j].call = k
        BY <4>3
      <4>5. j \in 1..Len(line) /\ j # 1
        BY <1>2, <4>1
      <4>6. k # h
        BY <1>2, <4>4, <4>5, Zenon
      <4> QED
        BY <1>1, <3>2, <4>3, <4>6
    <3> QED
      BY <3>5, <3>6, Zenon
  <2>5. ShownAtRest'
    BY <1>2, <1>3 DEF ShownAtRest
  <2> QED
    BY <2>3, <2>4, <2>5
<1> QED
  BY <1>4, <1>5, <1>6, <1>7, Zenon DEF IndInv, PowerInv

----------------------------------------------------------------------------
(* The lines of calls.                                                     *)

LEMMA Dropped ==
  ASSUME NEW S, NEW s \in Seq(S), s # <<>>, Once(s)
  PROVE  /\ Once(Tail(s))
         /\ \A k : Has(Tail(s), k) <=> Has(s, k) /\ k # Head(s).call
<1> DEFINE t == Tail(s)
<1>1. /\ Len(s) \in Nat /\ Len(s) >= 1 /\ Head(s) = s[1]
      /\ Len(t) = Len(s) - 1 /\ \A i \in 1..Len(t) : t[i] = s[i + 1]
  BY Ends, Zenon
<1> HIDE DEF t
<1>2. \A i \in 1..Len(t) : i + 1 \in 1..Len(s) /\ i + 1 # 1
  BY <1>1
<1>3. \A i \in 1..Len(s) : i # 1 => i - 1 \in 1..Len(t) /\ t[i - 1] = s[i]
  <2>1. \A i \in 1..Len(s) : i # 1 => i - 1 \in 1..Len(t) /\ (i - 1) + 1 = i
    BY <1>1
  <2> QED
    BY <1>1, <2>1, Zenon
<1>4. 1 \in 1..Len(s)
  BY <1>1
<1>5. Once(t)
  <2> SUFFICES ASSUME NEW i \in 1..Len(t), NEW j \in 1..Len(t), t[i].call = t[j].call
               PROVE  i = j
    BY Zenon DEF Once
  <2>1. /\ t[i] = s[i + 1] /\ t[j] = s[j + 1]
        /\ i + 1 \in 1..Len(s) /\ j + 1 \in 1..Len(s)
    BY <1>1, <1>2, Zenon
  <2>2. s[i + 1].call = s[j + 1].call
    BY <2>1, Zenon
  <2>3. i + 1 = j + 1
    BY <2>1, <2>2, Zenon DEF Once
  <2> QED
    BY <1>1, <2>3
<1>6. ASSUME NEW k, Has(t, k) PROVE Has(s, k) /\ k # Head(s).call
  <2>1. PICK i \in 1..Len(t) : t[i].call = k
    BY <1>6 DEF Has
  <2>2. s[i + 1].call = k /\ i + 1 \in 1..Len(s) /\ i + 1 # 1
    BY <1>1, <1>2, <2>1, Zenon
  <2> QED
    BY <1>1, <1>4, <2>2, Zenon DEF Has, Once
<1>7. ASSUME NEW k, Has(s, k), k # Head(s).call PROVE Has(t, k)
  <2>1. PICK i \in 1..Len(s) : s[i].call = k
    BY <1>7 DEF Has
  <2>2. i # 1
    BY <1>1, <1>7, <2>1, Zenon
  <2> QED
    BY <1>3, <2>1, <2>2, Zenon DEF Has
<1> QED
  BY <1>5, <1>6, <1>7, Zenon DEF t

LEMMA Added ==
  ASSUME NEW S, NEW s \in Seq(S), NEW e \in S, Once(s), ~Has(s, e.call)
  PROVE  /\ Once(Append(s, e))
         /\ \A k : Has(Append(s, e), k) <=> Has(s, k) \/ k = e.call
<1> DEFINE t == Append(s, e)
<1>1. /\ Len(s) \in Nat /\ Len(t) = Len(s) + 1
      /\ \A i \in 1..Len(s) : t[i] = s[i]
      /\ t[Len(s) + 1] = e
  BY Back DEF IsBack
<1> HIDE DEF t
<1>2. \A i \in 1..Len(t) : i \in 1..Len(s) \/ i = Len(t)
  BY <1>1
<1>3. /\ \A i \in 1..Len(s) : i \in 1..Len(t)
      /\ Len(t) \in 1..Len(t) /\ t[Len(t)] = e
  BY <1>1
<1>4. Once(t)
  <2> SUFFICES ASSUME NEW i \in 1..Len(t), NEW j \in 1..Len(t), t[i].call = t[j].call
               PROVE  i = j
    BY Zenon DEF Once
  <2>1. \A n \in 1..Len(s) : t[n].call # e.call
    BY <1>1, Zenon DEF Has
  <2> QED
    BY <1>1, <1>2, <1>3, <2>1, Zenon DEF Once
<1>5. ASSUME NEW k, Has(t, k) PROVE Has(s, k) \/ k = e.call
  <2>1. PICK i \in 1..Len(t) : t[i].call = k
    BY <1>5 DEF Has
  <2> QED
    BY <1>1, <1>2, <1>3, <2>1, Zenon DEF Has
<1>6. ASSUME NEW k, Has(s, k) \/ k = e.call PROVE Has(t, k)
  BY <1>1, <1>3, <1>6, Zenon DEF Has
<1> QED
  BY <1>4, <1>5, <1>6, Zenon DEF t

----------------------------------------------------------------------------
(* A command gets its verdict.                                             *)

LEMMA ResolveStep == ASSUME IndInv, Resolve PROVE IndInv'
<1> DEFINE h == Head(line).call
<1>1. /\ Typed /\ Waiting /\ CallsShaped /\ PowerInv /\ line # <<>>
      /\ line' = Tail(line) /\ executed' = FALSE
      /\ UNCHANGED <<driver, api, call, begun, lamp, poll, polls, air, known>>
  BY DEF IndInv, Resolve, callVars, pollVars
<1>2. PICK ok \in BOOLEAN :
        /\ ok => executed
        /\ ready' = Append(ready, [call |-> h, ok |-> ok])
        /\ followed' = (followed /\ ok)
        /\ told' = (told /\ (executed => ok))
  BY DEF Resolve
<1> DEFINE e == [call |-> h, ok |-> ok]
<1>3. /\ h \in Running /\ h \in Calls /\ Has(line, h) /\ ~Has(ready, h)
      /\ Head(line) = line[1]
      /\ \A i \in 1..Len(line) : line[i].call = h => i = 1
  BY <1>1, OldestCommand, Zenon
<1>4. /\ line \in Seq(Queue)
      /\ ready \in Seq(Verdicts)
      /\ e \in Verdicts /\ e.call = h
      /\ ready' = Append(ready, e)
  BY <1>1, <1>2, <1>3 DEF Typed, Verdicts
<1> HIDE DEF e
<1>5. /\ Len(line) \in Nat /\ Len(line) >= 1
      /\ line' \in Seq(Queue)
      /\ Len(line') = Len(line) - 1
      /\ \A i \in 1..Len(line') : line'[i] = line[i + 1]
  BY <1>1, <1>4, Ends, Zenon
<1>6. /\ ready' \in Seq(Verdicts)
      /\ ready' # <<>> /\ Last(ready') = e
  <2>1. IsBack(ready', Verdicts, ready, e)
    BY <1>4, Back, Zenon
  <2> QED
    BY <2>1 DEF IsBack
<1>7. /\ Once(line') /\ Once(ready')
      /\ \A k : Has(line', k) <=> Has(line, k) /\ k # h
      /\ \A k : Has(ready', k) <=> Has(ready, k) \/ k = h
  <2>1. Once(line) /\ Once(ready) /\ ~Has(ready, e.call)
    BY <1>1, <1>3, <1>4, Zenon DEF Waiting
  <2>2. Once(line') /\ \A k : Has(line', k) <=> Has(line, k) /\ k # h
    BY <1>1, <1>4, <2>1, Dropped, Zenon
  <2>3. Once(ready') /\ \A k : Has(ready', k) <=> Has(ready, k) \/ k = e.call
    BY <1>4, <2>1, Added, Zenon
  <2> QED
    BY <1>4, <2>2, <2>3, Zenon
<1>8. Running' = Running
  BY <1>1 DEF Running
<1>9. Typed'
  <2>1. told' \in BOOLEAN /\ followed' \in BOOLEAN /\ executed' \in BOOLEAN
    BY <1>1, <1>2 DEF Typed
  <2> QED
    BY <1>1, <1>5, <1>6, <2>1, SameMessages, Zenon DEF Typed
<1>10. Waiting'
  <2>1. ASSUME NEW i \in 1..Len(line')
        PROVE  line'[i].frame = Head(call[line'[i].call].plan).frame
    <3>1. i + 1 \in 1..Len(line) /\ line'[i] = line[i + 1]
      BY <1>5
    <3> QED
      BY <1>1, <3>1, Zenon DEF Waiting
  <2>2. \A k \in Calls : ~(Has(line', k) /\ Has(ready', k))
    BY <1>1, <1>3, <1>7, Zenon DEF Waiting
  <2>3. \A k \in Calls : k \in Running <=> Has(line', k) \/ Has(ready', k)
    BY <1>1, <1>3, <1>7, Zenon DEF Waiting
  <2> QED
    BY <1>1, <1>7, <1>8, <2>1, <2>2, <2>3, Zenon DEF Waiting
<1>11. CallsShaped'
  BY <1>1, <1>8 DEF CallsShaped, Shaped, TurnsOff, Ops
<1>12. ASSUME followed' PROVE FollowsLatest' /\ FadesLit' /\ ShownAtRest'
  <2>1. followed /\ ok /\ executed /\ FollowsLatest /\ FadesLit
    BY <1>1, <1>2, <1>12 DEF PowerInv
  <2>2. FollowsLatest'
    <3>1. Len(call[h].plan) = 1 => lamp.power = Intent(h)
      BY <2>1 DEF FollowsLatest
    <3>2. Last(ready').call = h
      BY <1>4, <1>6, Zenon
    <3>3. Len(call'[h].plan) = 1 => lamp'.power = IF TurnsOff(call'[h]) THEN "off" ELSE "on"
      BY <1>1, <3>1 DEF Intent
    <3> QED
      BY <1>1, <3>2, <3>3 DEF FollowsLatest, Intent
  <2>3. FadesLit'
    <3> SUFFICES ASSUME NEW k \in Calls, Fades(k)'
                 PROVE  /\ ~White1st(k)' => lamp'.power = "on"
                        /\ \A i \in Undone' : TurnsOff(call'[line'[i].call]) =>
                             White1st(k)' /\ \E j \in (i + 1)..Len(line') : line'[j].call = k
      BY Zenon DEF FadesLit
    <3>1. Fades(k)
      BY <1>1, <1>8 DEF Fades
    <3>2. White1st(k)' <=> White1st(k)
      <4>1. White1st(k)' <=> Len(call[k].plan) = 2 /\ ~Has(ready', k)
        BY <1>1 DEF White1st, Executing
      <4>2. White1st(k) <=> Len(call[k].plan) = 2 /\ ~Has(ready, k) /\ k # h
        BY <2>1 DEF White1st, Executing
      <4> QED
        BY <1>7, <4>1, <4>2, Zenon
    <3>3. /\ ~White1st(k) => lamp.power = "on"
          /\ \A i \in Undone : TurnsOff(call[line[i].call]) =>
               White1st(k) /\ \E j \in (i + 1)..Len(line) : line[j].call = k
      BY <2>1, <3>1, Zenon DEF FadesLit
    <3>4. ASSUME NEW i \in Undone', TurnsOff(call'[line'[i].call])
          PROVE  White1st(k)' /\ \E j \in (i + 1)..Len(line') : line'[j].call = k
      <4>1. i \in 1..Len(line')
        BY DEF Undone
      <4>2. i + 1 \in Undone /\ line'[i] = line[i + 1]
        BY <1>5, <4>1 DEF Undone
      <4>3. TurnsOff(call[line[i + 1].call])
        BY <1>1, <3>4, <4>2, Zenon
      <4>4. White1st(k) /\ \E j \in ((i + 1) + 1)..Len(line) : line[j].call = k
        BY <3>3, <4>2, <4>3, Zenon
      <4>5. PICK j \in ((i + 1) + 1)..Len(line) : line[j].call = k
        BY <4>4
      <4>6. j - 1 \in (i + 1)..Len(line') /\ (j - 1) + 1 = j /\ j - 1 \in 1..Len(line')
        BY <1>5, <4>1
      <4>7. line'[j - 1].call = k
        BY <1>5, <4>5, <4>6, Zenon
      <4> QED
        BY <3>2, <4>4, <4>6, <4>7, Zenon
    <3> QED
      BY <1>1, <3>2, <3>3, <3>4, Zenon
  <2>4. ShownAtRest'
    BY <1>3, <1>8 DEF ShownAtRest
  <2> QED
    BY <2>2, <2>3, <2>4
<1> QED
  BY <1>9, <1>10, <1>11, <1>12, Zenon DEF IndInv, PowerInv

----------------------------------------------------------------------------
(* A call goes on.                                                         *)

\* What becomes of the call that woke first.
GoesOn(k) ==
  LET rest == Tail(call[k].plan)
  IN /\ call' \in [Calls -> ServiceCalls]
     /\ call'[k].plan = rest
     /\ call'[k].state = IF rest = <<>> THEN "ended" ELSE "running"
     /\ call'[k].op = call[k].op /\ call'[k].goal = call[k].goal
     /\ call'[k].alone = call[k].alone
     /\ \A j \in Calls : j # k => call'[j] = call[j]
     /\ \A j \in Calls : TurnsOff(call'[j]) <=> TurnsOff(call[j])

LEMMA CallGoesOn ==
  ASSUME Typed, NEW k \in Calls, k \in Running, call[k].plan # <<>>,
         LET rest == Tail(call[k].plan)
         IN call' = [call EXCEPT ![k].plan = rest,
                                 ![k].state = IF rest = <<>> THEN "ended" ELSE @]
  PROVE  GoesOn(k)
<1> DEFINE rest == Tail(call[k].plan)
           state == IF rest = <<>> THEN "ended" ELSE "running"
<1>1. call \in [Calls -> ServiceCalls] /\ call[k] \in ServiceCalls /\ call[k].state = "running"
  BY DEF Typed, Running
<1>2. rest \in Seq(Messages)
  BY <1>1, HeadTailProperties DEF ServiceCalls
<1>3. call' = [call EXCEPT ![k] = [call[k] EXCEPT !.plan = rest, !.state = state]]
  BY <1>1 DEF ServiceCalls
<1> HIDE DEF rest
<1> DEFINE c == [call[k] EXCEPT !.plan = rest, !.state = state]
<1>4. /\ c \in ServiceCalls /\ c.plan = rest /\ c.state = state
      /\ c.op = call[k].op /\ c.goal = call[k].goal /\ c.alone = call[k].alone
  BY <1>1, <1>2 DEF ServiceCalls
<1> HIDE DEF c
<1>5. /\ call' \in [Calls -> ServiceCalls] /\ call'[k] = c
      /\ \A j \in Calls : j # k => call'[j] = call[j]
  <2>1. call' = [call EXCEPT ![k] = c]
    BY <1>3, Zenon DEF c
  <2> QED
    BY <1>1, <1>4, <2>1
<1>6. \A j \in Calls : TurnsOff(call'[j]) <=> TurnsOff(call[j])
  BY <1>4, <1>5, Zenon DEF TurnsOff
<1> QED
  BY <1>4, <1>5, <1>6, Zenon DEF GoesOn, rest

LEMMA ContinueStep == ASSUME IndInv, Continue PROVE IndInv'
<1> DEFINE h == Head(ready).call
           p == call[h].plan
           rest == Tail(p)
           ok == Head(ready).ok
           a == IF ok THEN Acknowledged(api, Head(p)) ELSE api
           e == Queued(h, rest)
<1>1. /\ Typed /\ Waiting /\ CallsShaped /\ PowerInv /\ ready # <<>>
      /\ ready' = Tail(ready)
      /\ line' = IF rest = <<>> THEN line ELSE Append(line, e)
      /\ api' = IF rest = <<>> THEN Ended(a, call[h]) ELSE a
      /\ known' = (known \/ (ok /\ Head(p).name = "brightness"))
      /\ UNCHANGED <<driver, begun, executed, lamp, poll, polls, air, told, followed>>
  BY DEF IndInv, Continue, pollVars
<1>2. /\ h \in Running /\ h \in Calls /\ Has(ready, h) /\ ~Has(line, h)
      /\ ok \in BOOLEAN
      /\ Head(ready) = ready[1] /\ 1 \in 1..Len(ready)
      /\ \A i \in 1..Len(ready) : ready[i].call = h => i = 1
  BY <1>1, WokenCall, Zenon
<1>3. /\ Shaped(call[h]) /\ p \in Seq(Messages) /\ p # <<>> /\ Head(p) \in Messages
      /\ Last(p) = p[Len(p)]
  BY <1>1, <1>2, RunningCall, Zenon
<1>4. /\ rest \in Seq(Messages) /\ Len(p) \in Nat /\ Len(p) >= 1
      /\ Len(rest) = Len(p) - 1
      /\ \A i \in 1..Len(rest) : rest[i] = p[i + 1]
      /\ rest = <<>> <=> Len(p) = 1
  BY <1>3, Ends, Zenon
<1>5. rest # <<>> => Head(rest) \in Messages /\ Last(rest) = p[Len(p)] /\ Len(rest) \in 1..Len(rest)
  <2> SUFFICES ASSUME rest # <<>>
               PROVE  /\ Head(rest) \in Messages /\ Last(rest) = p[Len(p)]
                      /\ Len(rest) \in 1..Len(rest)
    OBVIOUS
  <2> HIDE DEF rest
  <2>1. /\ Head(rest) \in Messages /\ Last(rest) = rest[Len(rest)] /\ Len(rest) \in 1..Len(rest)
    BY <1>4, Ends, HeadTailProperties
  <2>2. rest[Len(rest)] = p[Len(rest) + 1] /\ Len(rest) + 1 = Len(p)
    BY <1>4, <2>1
  <2> QED
    BY <2>1, <2>2, Zenon
<1>6. GoesOn(h)
  <2>1. call' = [call EXCEPT ![h].plan = rest,
                             ![h].state = IF rest = <<>> THEN "ended" ELSE @]
    BY DEF Continue
  <2> QED
    BY <1>1, <1>2, <1>3, <2>1, CallGoesOn, Zenon
<1>7. /\ call' \in [Calls -> ServiceCalls] /\ call'[h].plan = rest
      /\ call'[h].state = IF rest = <<>> THEN "ended" ELSE "running"
      /\ call'[h].op = call[h].op /\ call'[h].goal = call[h].goal
      /\ \A j \in Calls : j # h => call'[j] = call[j]
      /\ \A j \in Calls : TurnsOff(call'[j]) <=> TurnsOff(call[j])
  BY <1>6, Zenon DEF GoesOn
<1>8. \A j \in Calls : j \in Running' <=> j \in Running /\ (j # h \/ rest # <<>>)
  BY <1>2, <1>7 DEF Running
<1>9. /\ line \in Seq(Queue) /\ ready \in Seq(Verdicts)
      /\ rest # <<>> => e \in Queue
      /\ e.call = h /\ e.frame = Head(rest).frame
  BY <1>1, <1>2, <1>5 DEF Typed, Queued, Queue, Commands
<1>10. /\ Len(ready) \in Nat /\ Len(ready) >= 1
       /\ ready' \in Seq(Verdicts) /\ Len(ready') = Len(ready) - 1
       /\ Last(ready) = ready[Len(ready)]
       /\ \A i \in 1..Len(ready') : ready'[i] = ready[i + 1]
  BY <1>1, <1>9, Ends, Zenon
<1> HIDE DEF rest, e
<1>11. /\ Once(ready') /\ \A j : Has(ready', j) <=> Has(ready, j) /\ j # h
  BY <1>1, <1>9, Dropped, Zenon DEF Waiting
<1>12. ~(h > begun)
  BY <1>1, <1>2 DEF CallsShaped, Running
<1>13. CallsShaped'
  <2> SUFFICES ASSUME NEW j \in Calls
               PROVE  /\ call'[j].state = "running" <=> call'[j].plan # <<>>
                      /\ j > begun => call'[j].state = "none"
                      /\ j \in Running' => Shaped(call'[j])
    BY <1>1, Zenon DEF CallsShaped
  <2>1. CASE j # h
    <3>1. call'[j] = call[j] /\ (j \in Running' => j \in Running)
      BY <1>7, <1>8, <2>1, Zenon
    <3> QED
      BY <1>1, <3>1, Zenon DEF CallsShaped
  <2>2. CASE j = h
    <3>1. call'[j].state = "running" <=> call'[j].plan # <<>>
      BY <1>7, <2>2
    <3>2. ASSUME j \in Running' PROVE Shaped(call'[j])
      <4>1. rest # <<>>
        BY <1>8, <2>2, <3>2, Zenon
      <4>2. Len(p) # 1 /\ ~TurnsOff(call[h])
        BY <1>3, <1>4, <4>1, Zenon DEF Shaped
      <4>3. \A i \in 1..Len(rest) : i + 1 \in 1..Len(p)
        BY <1>4
      <4>4. \A i \in 1..Len(rest) : rest[i].name # "off"
        BY <1>3, <1>4, <4>2, <4>3, Zenon DEF Shaped
      <4>5. ~TurnsOff(call'[h])
        BY <1>7, <1>2, <4>2, Zenon
      <4>6. Last(rest).name = "brightness" => Len(p) = 2
        BY <1>3, <1>5, <4>1, <4>2, Zenon DEF Shaped
      <4>7. Last(rest).name = "brightness" => Len(rest) = 1
        BY <1>4, <4>6
      <4>8. call'[h].op \in Ops
        BY <1>3, <1>7, Zenon DEF Shaped
      <4> QED
        BY <1>7, <2>2, <4>1, <4>4, <4>5, <4>7, <4>8, Zenon DEF Shaped
    <3> QED
      BY <1>12, <2>2, <3>1, <3>2, Zenon
  <2> QED
    BY <2>1, <2>2
<1>14. a \in ApiStates
  <2>1. api \in ApiStates /\ lamp \in Lamps
    BY <1>1 DEF Typed
  <2>2. Argument(Head(p))
    BY <1>1, <1>3, <2>1, DriverKnown, MessageTaken, Zenon
  <2> QED
    BY <2>1, <2>2, AcknowledgedTyped, Zenon
<1>15. api' \in ApiStates /\ known' \in BOOLEAN
  <2>1. known' \in BOOLEAN
    BY <1>1 DEF Typed
  <2> QED
    BY <1>1, <1>14, <2>1, EndedTyped, Zenon
<1> HIDE DEF a
<1>16. \A i \in 1..Len(line) : line[i].call # h /\ call'[line[i].call] = call[line[i].call]
  <2>1. \A i \in 1..Len(line) : line[i].call # h
    BY <1>2, Zenon DEF Has
  <2>2. \A i \in 1..Len(line) : line[i].call \in Calls
    <3>1. \A i \in 1..Len(line) : line[i] \in Queue
      BY <1>9, ElementOfSeq, Zenon
    <3> QED
      BY <3>1 DEF Queue
  <2> QED
    BY <1>7, <2>1, <2>2, Zenon
<1>17. FollowsLatest => (~executed /\ ready' # <<>> /\ Len(call'[Last(ready').call].plan) = 1
                          => lamp.power = IF TurnsOff(call'[Last(ready').call]) THEN "off" ELSE "on")
  <2> SUFFICES ASSUME FollowsLatest, ~executed, ready' # <<>>,
                      Len(call'[Last(ready').call].plan) = 1
               PROVE  lamp.power = IF TurnsOff(call'[Last(ready').call]) THEN "off" ELSE "on"
    OBVIOUS
  <2> DEFINE n == Len(ready')
             l == Last(ready').call
  <2>1. n \in 1..n /\ Last(ready') = ready'[n]
    BY <1>10, Ends
  <2>2. Last(ready') = Last(ready) /\ Len(ready) \in 1..Len(ready) /\ Len(ready) # 1
    <3>1. ready'[n] = ready[n + 1] /\ n + 1 = Len(ready)
      BY <1>10, <2>1
    <3>2. Len(ready) \in 1..Len(ready) /\ Len(ready) # 1
      BY <1>10, <2>1
    <3> QED
      BY <1>10, <2>1, <3>1, <3>2, Zenon
  <2>3. l # h
    BY <1>2, <1>10, <2>2, Zenon
  <2>4. l \in Calls
    <3>1. Last(ready) \in Verdicts
      BY <1>9, <1>10, <2>2, ElementOfSeq
    <3> QED
      BY <2>2, <3>1 DEF Verdicts
  <2>5. call'[l] = call[l]
    BY <1>7, <2>3, <2>4, Zenon
  <2>6. lamp.power = Intent(l)
    BY <1>1, <2>2, <2>5, Zenon DEF FollowsLatest
  <2> QED
    BY <2>5, <2>6, Zenon DEF Intent
<1> HIDE DEF p, ok
<1>18. CASE rest = <<>>
  <2>1. line' = line
    BY <1>1, <1>18
  <2>2. Typed'
    BY <1>1, <1>7, <1>9, <1>10, <1>15, <2>1, SameMessages, Zenon DEF Typed
  <2>3. Waiting'
    <3>1. \A k \in Calls : ~(Has(line', k) /\ Has(ready', k))
      BY <1>1, <1>11, <2>1, Zenon DEF Waiting
    <3>2. \A k \in Calls : k \in Running' <=> Has(line', k) \/ Has(ready', k)
      BY <1>1, <1>2, <1>8, <1>11, <1>18, <2>1, Zenon DEF Waiting
    <3>3. \A i \in 1..Len(line') : line'[i].frame = Head(call'[line'[i].call].plan).frame
      BY <1>1, <1>16, <2>1, Zenon DEF Waiting
    <3> QED
      BY <1>1, <1>11, <2>1, <3>1, <3>2, <3>3, Zenon DEF Waiting
  <2>4. ASSUME followed' PROVE FollowsLatest' /\ FadesLit' /\ ShownAtRest'
    <3>1. followed /\ FollowsLatest /\ FadesLit
      BY <1>1, <2>4 DEF PowerInv
    <3>2. FollowsLatest'
      <4>1. executed => line # <<>> /\ call'[Head(line).call] = call[Head(line).call]
        BY <1>1, <1>16, OldestCommand, Zenon DEF Waiting
      <4>2. executed /\ Len(call'[Head(line).call].plan) = 1
              => lamp.power = IF TurnsOff(call'[Head(line).call]) THEN "off" ELSE "on"
        BY <3>1, <4>1, Zenon DEF FollowsLatest, Intent
      <4> QED
        BY <1>1, <1>17, <2>1, <3>1, <4>2, Zenon DEF FollowsLatest, Intent
    <3>3. FadesLit'
      <4> SUFFICES ASSUME NEW k \in Calls, Fades(k)'
                   PROVE  /\ ~White1st(k)' => lamp.power = "on"
                          /\ \A i \in Undone' : TurnsOff(call'[line[i].call]) =>
                               White1st(k)' /\ \E j \in (i + 1)..Len(line) : line[j].call = k
        BY <1>1, <2>1, Zenon DEF FadesLit
      <4>1. k # h /\ k \in Running /\ call'[k] = call[k]
        BY <1>7, <1>8, <1>18, Zenon DEF Fades
      <4>2. Fades(k)
        BY <4>1, Zenon DEF Fades
      <4>3. White1st(k)' <=> White1st(k)
        BY <1>1, <1>11, <2>1, <4>1, Zenon DEF White1st, Executing
      <4>4. Undone' = Undone
        BY <1>1, <2>1 DEF Undone
      <4>5. \A i \in Undone : call'[line[i].call] = call[line[i].call]
        BY <1>16 DEF Undone
      <4> QED
        BY <3>1, <4>2, <4>3, <4>4, <4>5, Zenon DEF FadesLit
    <3>4. ShownAtRest'
      <4> SUFFICES ASSUME Running' = {} PROVE api'.is_on = lamp.power
        BY <1>1, Zenon DEF ShownAtRest
      <4>1. \A j \in Calls : j \in Running => j = h
        BY <1>8, Zenon
      <4>2. line = <<>>
        BY <1>1, <1>2, <4>1, OldestCommand, Zenon
      <4>3. ~executed
        BY <1>1, <4>2, Zenon DEF Waiting
      <4>4. Last(ready).call = h
        <5>1. Len(ready) \in 1..Len(ready)
          BY <1>10
        <5>2. ready[Len(ready)] \in Verdicts
          BY <1>9, <5>1, ElementOfSeq, Zenon
        <5>3. ready[Len(ready)].call \in Calls
          BY <5>2 DEF Verdicts
        <5>4. Has(ready, ready[Len(ready)].call)
          BY <5>1, Zenon DEF Has
        <5> QED
          BY <1>1, <1>10, <4>1, <5>3, <5>4, Zenon DEF Waiting
      <4>5. lamp.power = Intent(h)
        BY <1>1, <1>4, <1>18, <3>1, <4>3, <4>4, Zenon DEF FollowsLatest, p
      <4>6. api'.is_on = IF TurnsOff(call[h]) THEN "off" ELSE "on"
        BY <1>1, <1>14, <1>18, EndedTyped, Zenon
      <4> QED
        BY <4>5, <4>6 DEF Intent
    <3> QED
      BY <3>2, <3>3, <3>4
  <2> QED
    BY <1>13, <2>2, <2>3, <2>4, Zenon DEF IndInv, PowerInv
<1>19. CASE rest # <<>>
  <2>1. line' = Append(line, e) /\ e \in Queue
    BY <1>1, <1>9, <1>19
  <2>2. /\ line' \in Seq(Queue) /\ Len(line) \in Nat /\ Len(line') = Len(line) + 1
        /\ \A i \in 1..Len(line) : line'[i] = line[i]
        /\ line'[Len(line) + 1] = e /\ line' # <<>>
    <3>1. IsBack(line', Queue, line, e)
      BY <1>9, <2>1, Back, Zenon
    <3> QED
      BY <3>1 DEF IsBack
  <2>3. \A i \in 1..Len(line') : i \in 1..Len(line) \/ i = Len(line) + 1
    BY <2>2
  <2>4. Once(line') /\ \A j : Has(line', j) <=> Has(line, j) \/ j = h
    <3>1. Once(line) /\ ~Has(line, e.call)
      BY <1>1, <1>2, <1>9, Zenon DEF Waiting
    <3> QED
      BY <1>9, <2>1, <3>1, Added, Zenon
  <2>5. Typed'
    BY <1>1, <1>7, <1>10, <1>15, <2>2, SameMessages, Zenon DEF Typed
  <2>6. Waiting'
    <3>1. \A k \in Calls : ~(Has(line', k) /\ Has(ready', k))
      BY <1>1, <1>11, <2>4, Zenon DEF Waiting
    <3>2. \A k \in Calls : k \in Running' <=> Has(line', k) \/ Has(ready', k)
      BY <1>1, <1>2, <1>8, <1>11, <1>19, <2>4, Zenon DEF Waiting
    <3>3. ASSUME NEW i \in 1..Len(line')
          PROVE  line'[i].frame = Head(call'[line'[i].call].plan).frame
      <4>1. CASE i \in 1..Len(line)
        <5>1. /\ line'[i] = line[i]
              /\ line[i].frame = Head(call[line[i].call].plan).frame
              /\ call'[line[i].call] = call[line[i].call]
          BY <1>1, <1>16, <2>2, <4>1, Zenon DEF Waiting
        <5> QED
          BY <5>1
      <4>2. CASE i = Len(line) + 1
        BY <1>7, <1>9, <2>2, <4>2, Zenon
      <4> QED
        BY <2>3, <4>1, <4>2, Zenon
    <3> QED
      BY <1>1, <1>11, <2>2, <2>4, <3>1, <3>2, <3>3, Zenon DEF Waiting
  <2>7. executed => line # <<>> /\ Head(line') = Head(line) /\ Head(line).call # h
                      /\ call'[Head(line).call] = call[Head(line).call]
    <3> SUFFICES ASSUME executed
                 PROVE  /\ line # <<>> /\ Head(line') = Head(line) /\ Head(line).call # h
                        /\ call'[Head(line).call] = call[Head(line).call]
      OBVIOUS
    <3>1. line # <<>>
      BY <1>1 DEF Waiting
    <3>2. Head(line) = line[1] /\ 1 \in 1..Len(line)
      BY <1>1, <3>1, OldestCommand, Zenon
    <3>3. Head(line') = line'[1]
      BY <2>2, Ends, Zenon
    <3> QED
      BY <1>16, <2>2, <3>1, <3>2, <3>3, Zenon
  <2>8. ~TurnsOff(call'[h])
    <3>1. Len(p) # 1
      BY <1>4, <1>19, Zenon DEF p
    <3> QED
      BY <1>2, <1>3, <1>7, <3>1, Zenon DEF Shaped, p
  <2>9. ASSUME followed' PROVE FollowsLatest' /\ FadesLit' /\ ShownAtRest'
    <3>1. followed /\ FollowsLatest /\ FadesLit
      BY <1>1, <2>9 DEF PowerInv
    <3>2. FollowsLatest'
      <4>1. executed /\ Len(call'[Head(line').call].plan) = 1
              => lamp.power = IF TurnsOff(call'[Head(line').call]) THEN "off" ELSE "on"
        BY <2>7, <3>1, Zenon DEF FollowsLatest, Intent
      <4> QED
        BY <1>1, <1>17, <3>1, <4>1, Zenon DEF FollowsLatest, Intent
    <3>3. FadesLit'
      <4> SUFFICES ASSUME NEW k \in Calls, Fades(k)'
                   PROVE  /\ ~White1st(k)' => lamp.power = "on"
                          /\ \A i \in Undone' : TurnsOff(call'[line'[i].call]) =>
                               White1st(k)' /\ \E j \in (i + 1)..Len(line') : line'[j].call = k
        BY <1>1, Zenon DEF FadesLit
      <4>1. k \in Running /\ Last(call'[k].plan).name = "brightness"
        BY <1>8, Zenon DEF Fades
      <4>2. Fades(k)
        <5>1. CASE k # h
          BY <1>7, <4>1, <5>1, Zenon DEF Fades
        <5>2. CASE k = h
          BY <1>3, <1>5, <1>7, <1>19, <4>1, <5>2, Zenon DEF Fades, p
        <5> QED
          BY <5>1, <5>2
      <4>3. /\ ~White1st(k) => lamp.power = "on"
            /\ \A i \in Undone : TurnsOff(call[line[i].call]) =>
                 White1st(k) /\ \E j \in (i + 1)..Len(line) : line[j].call = k
        BY <3>1, <4>2, Zenon DEF FadesLit
      <4>4. White1st(k) => k # h /\ White1st(k)'
        <5> SUFFICES ASSUME White1st(k) PROVE k # h /\ White1st(k)'
          OBVIOUS
        <5>1. k # h
          BY <1>2, Zenon DEF White1st
        <5> QED
          BY <1>1, <1>7, <1>11, <2>7, <5>1, Zenon DEF White1st, Executing
      <4>5. ASSUME NEW i \in Undone', TurnsOff(call'[line'[i].call])
            PROVE  White1st(k)' /\ \E j \in (i + 1)..Len(line') : line'[j].call = k
        <5>1. i \in 1..Len(line') /\ (i = 1 => ~executed)
          BY <1>1 DEF Undone
        <5>2. i # Len(line) + 1
          BY <1>9, <2>2, <2>8, <4>5, Zenon
        <5>3. i \in 1..Len(line)
          BY <2>3, <5>1, <5>2, Zenon
        <5>4. i \in Undone
          BY <5>1, <5>3 DEF Undone
        <5>5. TurnsOff(call[line[i].call])
          BY <1>16, <2>2, <4>5, <5>3, Zenon
        <5>6. White1st(k) /\ \E j \in (i + 1)..Len(line) : line[j].call = k
          BY <4>3, <5>4, <5>5, Zenon
        <5>7. PICK j \in (i + 1)..Len(line) : line[j].call = k
          BY <5>6
        <5>8. j \in (i + 1)..Len(line') /\ j \in 1..Len(line)
          BY <2>2, <5>3
        <5> QED
          BY <2>2, <4>4, <5>6, <5>7, <5>8, Zenon
      <4> QED
        BY <4>3, <4>4, <4>5, Zenon
    <3>4. ShownAtRest'
      BY <1>2, <1>8, <1>19 DEF ShownAtRest
    <3> QED
      BY <3>2, <3>3, <3>4
  <2> QED
    BY <1>13, <2>5, <2>6, <2>9, Zenon DEF IndInv, PowerInv
<1> QED
  BY <1>18, <1>19

----------------------------------------------------------------------------
(* A call begins.                                                          *)

\* The call that begins, and those before it.
NewCall(op) ==
  [op |-> op, plan |-> Plan(op),
   state |-> IF Plan(op) # <<>> THEN "running" ELSE "ended",
   goal |-> GoalOf(op), alone |-> Running = {}]

Joins(k, new) ==
  /\ call' \in [Calls -> ServiceCalls] /\ call'[k] = new
  /\ \A j \in Running :
       /\ call'[j].plan = call[j].plan /\ call'[j].state = "running"
       /\ TurnsOff(call'[j]) <=> TurnsOff(call[j])
       /\ Shaped(call'[j])
  /\ \A j \in Calls : j # k /\ j \notin Running =>
       call'[j].plan = <<>> /\ call'[j].state = "none"

LEMMA CallJoins ==
  ASSUME Typed, CallsShaped, NEW k \in Calls, k \notin Running, NEW new \in ServiceCalls,
         call' = [j \in Calls |->
           IF j = k THEN new
           ELSE IF j \in Running THEN [call[j] EXCEPT !.alone = FALSE] ELSE NoCall]
  PROVE  Joins(k, new)
<1>1. call \in [Calls -> ServiceCalls]
  BY DEF Typed
<1>2. ASSUME NEW j \in Running
      PROVE  /\ call'[j] \in ServiceCalls
             /\ call'[j].plan = call[j].plan /\ call'[j].state = "running"
             /\ call'[j].op = call[j].op /\ call'[j].goal = call[j].goal
  <2>1. j \in Calls /\ j # k /\ call[j].state = "running" /\ call[j] \in ServiceCalls
    BY <1>1 DEF Running
  <2> DEFINE c == [call[j] EXCEPT !.alone = FALSE]
  <2>2. call'[j] = c
    BY <2>1
  <2>3. /\ c \in ServiceCalls /\ c.plan = call[j].plan /\ c.state = "running"
        /\ c.op = call[j].op /\ c.goal = call[j].goal
    BY <2>1 DEF ServiceCalls
  <2> HIDE DEF c
  <2> QED
    BY <2>2, <2>3, Zenon
<1>3. ASSUME NEW j \in Running
      PROVE  (TurnsOff(call'[j]) <=> TurnsOff(call[j])) /\ Shaped(call'[j])
  <2>1. Shaped(call[j])
    BY RunningCall, Zenon
  <2> QED
    BY <1>2, <2>1, ZenonT(40) DEF Shaped, TurnsOff
<1>4. NoCall \in ServiceCalls /\ NoCall.plan = <<>> /\ NoCall.state = "none"
  BY DEF NoCall, ServiceCalls
<1>5. \A j \in Calls : j # k /\ j \notin Running => call'[j] = NoCall
  BY Zenon
<1>6. call'[k] = new
  BY Zenon
<1>7. call' \in [Calls -> ServiceCalls]
  <2>1. \A j \in Calls : call'[j] \in ServiceCalls
    BY <1>2, <1>4, <1>5, <1>6, Zenon
  <2>2. call' = [j \in Calls |-> call'[j]]
    BY Zenon
  <2> QED
    BY <2>1, <2>2, Zenon
<1> QED
  BY <1>2, <1>3, <1>4, <1>5, <1>6, <1>7, Zenon DEF Joins

LEMMA NewCallTyped ==
  ASSUME Typed, NEW op \in Ops
  PROVE  LET new == NewCall(op)
         IN /\ new \in ServiceCalls /\ new.plan = Plan(op)
            /\ new.state = IF Plan(op) # <<>> THEN "running" ELSE "ended"
            /\ Plan(op) # <<>> =>
                 /\ Shaped(new) /\ Head(Plan(op)) \in Messages
                 /\ Last(Plan(op)).name = "brightness" =>
                      Len(Plan(op)) = 2 /\ ~TurnsOff(new)
<1> DEFINE new == NewCall(op)
           p == Plan(op)
           goal == GoalOf(op)
<1>1. new.op = op /\ new.plan = p /\ new.goal = goal
  BY DEF NewCall
<1>2. new.state = IF p # <<>> THEN "running" ELSE "ended"
  BY DEF NewCall
<1>3. goal \in Goals \cup {None} /\ (p # <<>> => Sends(op, goal, p))
  BY DriverKnown, Planned, Zenon DEF Typed
<1>4. CASE p # <<>>
  <2>1. /\ Shaped(new) /\ p \in Seq(Messages)
        /\ Last(p).name = "brightness" => Len(p) = 2
    <3> HIDE DEF new
    <3> QED
      BY <1>1, <1>3, <1>4, DriverKnown, ShapedIfSends, Zenon
  <2>2. Head(p) \in Messages
    BY <1>4, <2>1, HeadTailProperties, Zenon
  <2>3. TurnsOff(new) => Len(p) = 1
    BY <1>1, <2>1, Zenon DEF Shaped
  <2>4. Last(p).name = "brightness" => ~TurnsOff(new)
    BY <2>1, <2>3
  <2>5. new \in ServiceCalls
    BY <1>3, <1>4, <2>1 DEF NewCall, ServiceCalls
  <2> QED
    BY <1>1, <1>2, <1>4, <2>1, <2>2, <2>4, <2>5, Zenon
<1>5. CASE p = <<>>
  <2>1. new \in ServiceCalls
    BY <1>3, <1>5 DEF NewCall, ServiceCalls
  <2> QED
    BY <1>1, <1>2, <1>5, <2>1, Zenon
<1> QED
  BY <1>4, <1>5

LEMMA BeginStep == ASSUME IndInv, NEW op \in Ops, Begin(op) PROVE IndInv'
<1> DEFINE k == begun + 1
           p == Plan(op)
           new == NewCall(op)
           e == Queued(k, p)
<1>1. /\ Typed /\ Waiting /\ CallsShaped /\ PowerInv
      /\ begun < MaxCalls /\ begun' = k
      /\ call' = [j \in Calls |->
           IF j = k THEN new
           ELSE IF j \in Running THEN [call[j] EXCEPT !.alone = FALSE] ELSE NoCall]
      /\ line' = IF p # <<>> THEN Append(line, e) ELSE line
      /\ api' = IF p # <<>> THEN api ELSE Ended(api, new)
      /\ followed' = (p # <<>> /\ (Running = {} \/ (followed /\ ~Crosses(new))))
      /\ UNCHANGED <<driver, executed, ready, lamp, poll, polls, air, known, told>>
  BY Zenon DEF IndInv, Begin, NewCall, GoalOf, pollVars
<1>2. k \in Calls /\ begun' \in 0..MaxCalls /\ k > begun
  BY <1>1, BoundsAssumption DEF Typed, Calls
<1>3. k \notin Running /\ ~Has(line, k) /\ ~Has(ready, k)
  <2>1. call[k].state = "none"
    BY <1>1, <1>2, Zenon DEF CallsShaped
  <2>2. k \notin Running
    BY <2>1 DEF Running
  <2> QED
    BY <1>1, <1>2, <2>2, Zenon DEF Waiting
<1>4. /\ new \in ServiceCalls /\ new.plan = p
      /\ new.state = IF p # <<>> THEN "running" ELSE "ended"
      /\ p # <<>> =>
           /\ Shaped(new) /\ Head(p) \in Messages
           /\ Last(p).name = "brightness" => Len(p) = 2 /\ ~TurnsOff(new)
  BY <1>1, NewCallTyped, Zenon
<1>5. Joins(k, new)
  <2> HIDE DEF new
  <2> QED
    BY <1>1, <1>2, <1>3, <1>4, CallJoins, Zenon
<1> HIDE DEF new, p
<1>6. /\ call' \in [Calls -> ServiceCalls] /\ call'[k] = new
      /\ \A j \in Running :
           /\ call'[j].plan = call[j].plan /\ call'[j].state = "running"
           /\ TurnsOff(call'[j]) <=> TurnsOff(call[j])
           /\ Shaped(call'[j])
      /\ \A j \in Calls : j # k /\ j \notin Running =>
           call'[j].plan = <<>> /\ call'[j].state = "none"
  BY <1>5, Zenon DEF Joins
<1>7. \A j \in Calls : j \in Running' <=> j \in Running \/ (j = k /\ p # <<>>)
  <2>1. \A j \in Calls : j \in Running' <=> call'[j].state = "running"
    BY DEF Running
  <2>2. /\ "ended" # "running" /\ "none" # "running"
    OBVIOUS
  <2> QED
    BY <1>4, <1>6, <2>1, <2>2, Zenon
<1>8. /\ line \in Seq(Queue) /\ ready \in Seq(Verdicts)
      /\ p # <<>> => e \in Queue
      /\ e.call = k /\ e.frame = Head(p).frame
  BY <1>1, <1>2, <1>4 DEF Typed, Queued, Queue, Commands
<1> HIDE DEF e
<1>9. api' \in ApiStates
  <2>1. api \in ApiStates
    BY <1>1 DEF Typed
  <2> QED
    BY <1>1, <2>1, EndedTyped, Zenon
<1>10. followed' \in BOOLEAN
  BY <1>1
<1>11. CallsShaped'
  <2> SUFFICES ASSUME NEW j \in Calls
               PROVE  /\ call'[j].state = "running" <=> call'[j].plan # <<>>
                      /\ j > begun' => call'[j].state = "none"
                      /\ j \in Running' => Shaped(call'[j])
    BY Zenon DEF CallsShaped
  <2>1. CASE j = k
    <3>1. ~(j > begun')
      BY <1>1, <1>2, <2>1 DEF Calls
    <3>2. call'[j].state = "running" <=> call'[j].plan # <<>>
      BY <1>4, <1>6, <2>1
    <3> QED
      BY <1>3, <1>4, <1>6, <1>7, <2>1, <3>1, <3>2, Zenon
  <2>2. CASE j \in Running
    <3>1. ~(j > begun) /\ call[j].plan # <<>>
      BY <1>1, <2>2 DEF CallsShaped, Running
    <3>2. ~(j > begun')
      BY <1>1, <3>1 DEF Calls, Typed
    <3> QED
      BY <1>6, <2>2, <3>1, <3>2, Zenon
  <2>3. CASE j # k /\ j \notin Running
    <3>1. "none" # "running"
      OBVIOUS
    <3> QED
      BY <1>6, <1>7, <2>3, <3>1, Zenon
  <2> QED
    BY <2>1, <2>2, <2>3
<1>12. \A i \in 1..Len(line) :
         /\ line[i].call \in Running /\ line[i].call # k
         /\ call'[line[i].call].plan = call[line[i].call].plan
         /\ TurnsOff(call'[line[i].call]) <=> TurnsOff(call[line[i].call])
  <2>1. \A i \in 1..Len(line) : line[i].call # k
    BY <1>3, Zenon DEF Has
  <2>2. \A i \in 1..Len(line) : line[i].call \in Calls
    <3>1. \A i \in 1..Len(line) : line[i] \in Queue
      BY <1>8, ElementOfSeq, Zenon
    <3> QED
      BY <3>1 DEF Queue
  <2>3. \A i \in 1..Len(line) : line[i].call \in Running
    BY <1>1, <2>2, Zenon DEF Waiting, Has
  <2> QED
    BY <1>6, <2>1, <2>3, Zenon
<1>13. CASE p = <<>>
  <2>1. line' = line /\ ~followed'
    BY <1>1, <1>13
  <2>2. Typed'
    BY <1>1, <1>2, <1>6, <1>8, <1>9, <1>10, <2>1, SameMessages, Zenon DEF Typed
  <2>3. Waiting'
    <3>1. \A j \in Calls : j \in Running' <=> Has(line', j) \/ Has(ready', j)
      BY <1>1, <1>7, <1>13, <2>1, Zenon DEF Waiting
    <3>2. \A i \in 1..Len(line') : line'[i].frame = Head(call'[line'[i].call].plan).frame
      BY <1>1, <1>12, <2>1, Zenon DEF Waiting
    <3> QED
      BY <1>1, <2>1, <3>1, <3>2, Zenon DEF Waiting
  <2> QED
    BY <1>11, <2>1, <2>2, <2>3, Zenon DEF IndInv, PowerInv
<1>14. CASE p # <<>>
  <2>1. line' = Append(line, e) /\ e \in Queue
    BY <1>1, <1>8, <1>14
  <2>2. /\ line' \in Seq(Queue) /\ Len(line) \in Nat /\ Len(line') = Len(line) + 1
        /\ \A i \in 1..Len(line) : line'[i] = line[i]
        /\ line'[Len(line) + 1] = e /\ line' # <<>>
    <3>1. line \in Seq(Queue)
      BY <1>8, Zenon
    <3> QED
      <4>1. IsBack(line', Queue, line, e)
        BY <2>1, <3>1, Back, Zenon
      <4> QED
        BY <4>1 DEF IsBack
  <2>3. /\ \A i \in 1..Len(line') : i \in 1..Len(line) \/ i = Len(line) + 1
        /\ Len(line) + 1 \in 1..Len(line')
    BY <2>2
  <2>4. Once(line') /\ \A j : Has(line', j) <=> Has(line, j) \/ j = k
    <3>1. Once(line) /\ ~Has(line, e.call)
      BY <1>1, <1>3, <1>8, Zenon DEF Waiting
    <3> QED
      BY <1>8, <2>1, <3>1, Added, Zenon
  <2>5. Typed'
    BY <1>1, <1>2, <1>6, <1>8, <1>9, <1>10, <2>2, SameMessages, Zenon DEF Typed
  <2>6. Waiting'
    <3>1. \A j \in Calls : ~(Has(line', j) /\ Has(ready', j))
      BY <1>1, <1>3, <2>4, Zenon DEF Waiting
    <3>2. \A j \in Calls : j \in Running' <=> Has(line', j) \/ Has(ready', j)
      BY <1>1, <1>7, <1>14, <2>4, Zenon DEF Waiting
    <3>3. ASSUME NEW i \in 1..Len(line')
          PROVE  line'[i].frame = Head(call'[line'[i].call].plan).frame
      <4>1. CASE i \in 1..Len(line)
        <5>1. /\ line'[i] = line[i]
              /\ line[i].frame = Head(call[line[i].call].plan).frame
              /\ call'[line[i].call].plan = call[line[i].call].plan
          BY <1>1, <1>12, <2>2, <4>1, Zenon DEF Waiting
        <5> QED
          BY <5>1
      <4>2. CASE i = Len(line) + 1
        BY <1>4, <1>6, <1>8, <2>2, <4>2, Zenon
      <4> QED
        BY <2>3, <4>1, <4>2, Zenon
    <3> QED
      BY <1>1, <2>2, <2>4, <3>1, <3>2, <3>3, Zenon DEF Waiting
  <2>7. executed => /\ line # <<>> /\ Head(line') = Head(line) /\ Head(line) = line[1]
                    /\ 1 \in 1..Len(line)
    <3> SUFFICES ASSUME executed
                 PROVE  /\ line # <<>> /\ Head(line') = Head(line) /\ Head(line) = line[1]
                        /\ 1 \in 1..Len(line)
      OBVIOUS
    <3>1. line # <<>>
      BY <1>1 DEF Waiting
    <3>2. Head(line) = line[1] /\ 1 \in 1..Len(line)
      BY <1>1, <3>1, OldestCommand, Zenon
    <3>3. Head(line') = line'[1]
      BY <2>2, Ends, Zenon
    <3> QED
      BY <2>2, <3>1, <3>2, <3>3, Zenon
  <2>8. ASSUME followed' PROVE FollowsLatest' /\ FadesLit' /\ ShownAtRest'
    <3>1. \/ Running = {} /\ line = <<>> /\ ready = <<>> /\ ~executed
          \/ followed /\ ~Crosses(new) /\ FollowsLatest /\ FadesLit
      BY <1>1, <2>8, NothingRuns, Zenon DEF PowerInv
    <3>2. FollowsLatest'
      <4>1. CASE Running = {} /\ line = <<>> /\ ready = <<>> /\ ~executed
        BY <1>1, <4>1, Zenon DEF FollowsLatest
      <4>2. CASE followed /\ ~Crosses(new) /\ FollowsLatest /\ FadesLit
        <5>1. executed /\ Len(call'[Head(line').call].plan) = 1
                => lamp.power = IF TurnsOff(call'[Head(line').call]) THEN "off" ELSE "on"
          BY <1>12, <2>7, <4>2, Zenon DEF FollowsLatest, Intent
        <5>2. ready # <<>> => Last(ready).call \in Running
          <6> SUFFICES ASSUME ready # <<>> PROVE Last(ready).call \in Running
            OBVIOUS
          <6>1. Last(ready) = ready[Len(ready)] /\ Len(ready) \in Nat /\ Len(ready) >= 1
            BY <1>8, Ends, Zenon
          <6>2. Len(ready) \in 1..Len(ready)
            BY <6>1
          <6>3. Last(ready) \in Verdicts
            BY <1>8, <6>1, <6>2, ElementOfSeq, Zenon
          <6>4. Last(ready).call \in Calls
            BY <6>3 DEF Verdicts
          <6>5. Has(ready, Last(ready).call)
            BY <6>1, <6>2, Zenon DEF Has
          <6> QED
            BY <1>1, <6>4, <6>5, Zenon DEF Waiting
        <5>3. ~executed /\ ready # <<>> /\ Len(call'[Last(ready).call].plan) = 1
                => lamp.power = IF TurnsOff(call'[Last(ready).call]) THEN "off" ELSE "on"
          BY <1>6, <4>2, <5>2, Zenon DEF FollowsLatest, Intent
        <5> QED
          BY <1>1, <5>1, <5>3, Zenon DEF FollowsLatest, Intent
      <4> QED
        BY <3>1, <4>1, <4>2, Zenon
    <3>3. FadesLit'
      <4> SUFFICES ASSUME NEW f \in Calls, Fades(f)'
                   PROVE  /\ ~White1st(f)' => lamp.power = "on"
                          /\ \A i \in Undone' : TurnsOff(call'[line'[i].call]) =>
                               White1st(f)' /\ \E j \in (i + 1)..Len(line') : line'[j].call = f
        BY <1>1, Zenon DEF FadesLit
      <4>1. f \in Running \/ f = k
        BY <1>7, Zenon DEF Fades
      <4>2. Last(call'[f].plan).name = "brightness"
        BY Zenon DEF Fades
      <4>3. \A i \in Undone' : i \in Undone \/ i = Len(line) + 1
        BY <1>1, <2>3 DEF Undone
      <4>4. \A i \in 1..Len(line) : Len(line) + 1 \in (i + 1)..Len(line')
        BY <2>2
      <4>5. CASE f = k
        <5>1. Len(p) = 2 /\ ~TurnsOff(new)
          BY <1>4, <1>6, <1>14, <4>2, <4>5, Zenon
        <5>2. ~(executed /\ Head(line').call = k)
          BY <1>12, <2>7, Zenon
        <5>3. White1st(f)'
          BY <1>1, <1>3, <1>4, <1>6, <4>5, <5>1, <5>2, Zenon DEF White1st, Executing
        <5>4. ASSUME NEW i \in Undone', TurnsOff(call'[line'[i].call])
              PROVE  \E j \in (i + 1)..Len(line') : line'[j].call = f
          <6>1. i # Len(line) + 1
            BY <1>6, <1>8, <2>2, <5>1, <5>4, Zenon
          <6>2. i \in 1..Len(line)
            BY <4>3, <6>1 DEF Undone
          <6> QED
            BY <1>8, <2>2, <4>4, <4>5, <6>2, Zenon
        <5> QED
          BY <5>3, <5>4, Zenon
      <4>6. CASE f \in Running
        <5>1. f # k /\ Fades(f)
          BY <1>3, <1>6, <4>2, <4>6, Zenon DEF Fades
        <5>2. followed /\ ~Crosses(new) /\ FadesLit
          BY <3>1, <4>6, Zenon
        <5>3. White1st(f)' <=> White1st(f)
          BY <1>1, <1>6, <2>7, <4>6, Zenon DEF White1st, Executing
        <5>4. /\ ~White1st(f) => lamp.power = "on"
              /\ \A i \in Undone : TurnsOff(call[line[i].call]) =>
                   White1st(f) /\ \E j \in (i + 1)..Len(line) : line[j].call = f
          BY <5>1, <5>2, Zenon DEF FadesLit
        <5>5. ~TurnsOff(new)
          BY <4>6, <5>1, <5>2, Zenon DEF Crosses, Fades
        <5>6. ASSUME NEW i \in Undone', TurnsOff(call'[line'[i].call])
              PROVE  White1st(f)' /\ \E j \in (i + 1)..Len(line') : line'[j].call = f
          <6>1. i # Len(line) + 1
            BY <1>6, <1>8, <2>2, <5>5, <5>6, Zenon
          <6>2. i \in Undone /\ i \in 1..Len(line)
            BY <4>3, <6>1 DEF Undone
          <6>3. TurnsOff(call[line[i].call])
            BY <1>12, <2>2, <5>6, <6>2, Zenon
          <6>4. White1st(f) /\ \E j \in (i + 1)..Len(line) : line[j].call = f
            BY <5>4, <6>2, <6>3, Zenon
          <6>5. PICK j \in (i + 1)..Len(line) : line[j].call = f
            BY <6>4
          <6>6. j \in (i + 1)..Len(line') /\ j \in 1..Len(line)
            BY <2>2, <6>2
          <6> QED
            BY <2>2, <5>3, <6>4, <6>5, <6>6, Zenon
        <5> QED
          BY <5>3, <5>4, <5>6, Zenon
      <4> QED
        BY <4>1, <4>5, <4>6
    <3>4. ShownAtRest'
      BY <1>2, <1>7, <1>14, Zenon DEF ShownAtRest
    <3> QED
      BY <3>2, <3>3, <3>4
  <2> QED
    BY <1>11, <2>5, <2>6, <2>8, Zenon DEF IndInv, PowerInv
<1> QED
  BY <1>13, <1>14

----------------------------------------------------------------------------
(* Status queries.                                                         *)

\* What a query changes when it does not change what is shown.
LEMMA QuietSteps ==
  ASSUME IndInv, PollStart \/ PollAnswer \/ PollTimeout
  PROVE  IndInv'
<1>1. /\ Typed /\ Waiting /\ CallsShaped /\ PowerInv
      /\ UNCHANGED <<driver, api, call, begun, line, executed, ready, lamp, known,
                     told, followed>>
  BY DEF IndInv, PollStart, PollAnswer, PollTimeout, callVars, serviceVars
<1>2. Running' = Running
  BY <1>1 DEF Running
<1>3. /\ poll' \in {"idle", "brightness", "color", "power"}
      /\ polls' \in 0..MaxPolls
      /\ air' \subseteq Answers /\ (air' # {} => poll' # "idle")
  <2>1. CASE PollStart
    BY <1>1, <2>1, BoundsAssumption DEF PollStart, Typed
  <2>2. CASE PollAnswer
    <3>1. poll \in {"brightness", "color", "power"} /\ lamp \in Lamps
      BY <1>1, <2>2 DEF PollAnswer, Typed
    <3>2. \A f \in Replies(lamp, poll) : f \in Answers
      BY <3>1, Replied, Zenon
    <3> QED
      BY <1>1, <2>2, <3>1, <3>2 DEF PollAnswer, Typed
  <2>3. CASE PollTimeout
    BY <1>1, <2>3 DEF PollTimeout, GoOn, After, Typed
  <2> QED
    BY <2>1, <2>2, <2>3
<1>4. Typed'
  BY <1>1, <1>3, SameMessages, Zenon DEF Typed
<1>5. Waiting'
  BY <1>1, <1>2 DEF Waiting, Once, Has
<1>6. CallsShaped'
  BY <1>1, <1>2 DEF CallsShaped, Shaped, TurnsOff, Ops
<1>7. PowerInv'
  BY <1>1, <1>2 DEF PowerInv, FollowsLatest, FadesLit, ShownAtRest, Intent, TurnsOff,
                    Fades, White1st, Executing, Has, Undone
<1> QED
  BY <1>4, <1>5, <1>6, <1>7 DEF IndInv

LEMMA HandleStep == ASSUME IndInv, PollHandle PROVE IndInv'
<1>1. /\ Typed /\ Waiting /\ CallsShaped /\ PowerInv
      /\ air' = {} /\ poll' = After(poll) /\ polls' = polls
      /\ UNCHANGED <<driver, call, begun, line, executed, ready, lamp, followed>>
  BY DEF IndInv, PollHandle, callVars, serviceVars, GoOn
<1>2. PICK frame \in air :
        /\ api' = Parsed(api, frame)
        /\ known' = (known \/ frame[1] = 4)
        /\ told' = (told /\ frame \in Replies(lamp, poll))
  BY DEF PollHandle
<1>3. /\ frame \in Answers /\ api \in ApiStates /\ lamp \in Lamps
      /\ poll \in {"brightness", "color", "power"}
  BY <1>1, <1>2 DEF Typed
<1>4. /\ api' \in ApiStates
      /\ api'.is_on = IF frame[1] # 1 THEN api.is_on
                      ELSE IF frame[2] = 1 THEN "on" ELSE "off"
  BY <1>2, <1>3, ParsedTyped, Zenon
<1>5. Running' = Running
  BY <1>1 DEF Running
<1>6. Typed'
  <2>1. poll' \in {"idle", "brightness", "color", "power"}
    BY <1>1, <1>3 DEF After
  <2>2. known' \in BOOLEAN /\ told' \in BOOLEAN
    BY <1>1, <1>2 DEF Typed
  <2>3. air' \subseteq Answers /\ (air' # {} => poll' # "idle")
    BY <1>1
  <2> QED
    BY <1>1, <1>4, <2>1, <2>2, <2>3, SameMessages, Zenon DEF Typed
<1>7. Waiting'
  BY <1>1, <1>5 DEF Waiting, Once, Has
<1>8. CallsShaped'
  BY <1>1, <1>5 DEF CallsShaped, Shaped, TurnsOff, Ops
<1>9. ASSUME followed' PROVE FollowsLatest' /\ FadesLit' /\ ShownAtRest'
  <2>1. FollowsLatest /\ FadesLit /\ ShownAtRest
    BY <1>1, <1>9 DEF PowerInv
  <2>2. FollowsLatest' /\ FadesLit'
    BY <1>1, <1>5, <2>1
       DEF FollowsLatest, FadesLit, Intent, TurnsOff, Fades, White1st, Executing, Has, Undone
  <2>3. ShownAtRest'
    <3> SUFFICES ASSUME told', Running' = {} PROVE api'.is_on \in {"unknown", lamp.power}
      BY <1>1, Zenon DEF ShownAtRest
    <3>1. told /\ frame \in Replies(lamp, poll)
      BY <1>1, <1>2 DEF Typed
    <3>2. api.is_on \in {"unknown", lamp.power}
      BY <1>5, <2>1, <3>1, Zenon DEF ShownAtRest
    <3>3. frame[1] = 1 => (IF frame[2] = 1 THEN "on" ELSE "off") = lamp.power
      BY <1>3, <3>1, Replied, Zenon
    <3> QED
      BY <1>4, <3>2, <3>3
  <2> QED
    BY <2>2, <2>3
<1> QED
  BY <1>6, <1>7, <1>8, <1>9, Zenon DEF IndInv, PowerInv

----------------------------------------------------------------------------
(* Nothing begun yet, and nothing changed.                                 *)

LEMMA Initially == ASSUME Init PROVE IndInv
<1>1. /\ driver \in Drivers
      /\ call = [k \in Calls |-> NoCall] /\ begun = 0
      /\ line = <<>> /\ executed = FALSE /\ ready = <<>>
      /\ poll = "idle" /\ polls = 0 /\ air = {}
      /\ known \in BOOLEAN /\ told = TRUE /\ followed = TRUE
  BY DEF Init
<1>2. PICK on \in {"on", "off"}, level \in Levels :
        lamp = [power |-> on, level |-> level, scene |-> None,
                colour |-> [s \in Segments |-> White]]
  BY DEF Init
<1>3. White \in RGB
  BY DEF White, RGB
<1>4. lamp \in Lamps /\ lamp.power = on /\ lamp.level = level
  BY <1>2, <1>3 DEF Lamps, OnOff, AllLevels
<1>5. lamp.colour[CHOOSE s \in Segments : TRUE] = White
  <2>1. (CHOOSE s \in Segments : TRUE) \in Segments
    BY SegmentsAssumption
  <2> QED
    BY <1>2, <2>1
<1>6. api \in ApiStates /\ api.is_on \in {"unknown", lamp.power}
  <2>1. api = [is_on |-> IF known THEN lamp.power ELSE "unknown",
               brightness |-> IF known THEN lamp.level ELSE NoBrightness,
               last_brightness |-> IF known /\ driver # "H6163"
                                   THEN lamp.level ELSE FullLevel,
               rgb |-> IF known THEN White ELSE NoColor,
               mode |-> "rgb", effect |-> "Normal"]
    <3> DEFINE shown(c) ==
          [is_on |-> IF known THEN lamp.power ELSE "unknown",
           brightness |-> IF known THEN lamp.level ELSE NoBrightness,
           last_brightness |-> IF known /\ driver # "H6163"
                               THEN lamp.level ELSE FullLevel,
           rgb |-> IF known THEN c ELSE NoColor,
           mode |-> "rgb", effect |-> "Normal"]
    <3>1. api = shown(lamp.colour[CHOOSE s \in Segments : TRUE])
      BY DEF Init
    <3> HIDE DEF shown
    <3>2. api = shown(White)
      BY <1>5, <3>1, Zenon
    <3> QED
      BY <3>2 DEF shown
  <2>2. /\ (IF known THEN lamp.power ELSE "unknown") \in {"unknown"} \cup OnOff
        /\ (IF known THEN lamp.level ELSE NoBrightness) \in AllLevels \cup {0, NoBrightness}
        /\ (IF known /\ driver # "H6163" THEN lamp.level ELSE FullLevel) \in AllLevels
        /\ (IF known THEN White ELSE NoColor) \in RGB \cup {NoColor}
        /\ "Normal" \in Effects
    BY <1>1, <1>3, <1>4 DEF OnOff, AllLevels, Effects
  <2>3. api \in ApiStates
    BY <2>1, <2>2, Zenon DEF ApiStates
  <2>4. api.is_on = IF known THEN lamp.power ELSE "unknown"
    BY <2>1
  <2> QED
    BY <2>3, <2>4
<1>7. NoCall \in ServiceCalls /\ NoCall.plan = <<>> /\ NoCall.state = "none"
  BY DEF NoCall, ServiceCalls
<1>8. \A k \in Calls : call[k] = NoCall
  BY <1>1
<1>9. Running = {}
  BY <1>7, <1>8 DEF Running
<1>10. /\ line \in Seq(Queue) /\ ready \in Seq(Verdicts) /\ Len(line) = 0 /\ Len(ready) = 0
       /\ call \in [Calls -> ServiceCalls] /\ begun \in 0..MaxCalls /\ polls \in 0..MaxPolls
  BY <1>1, <1>7, BoundsAssumption
<1>11. Typed
  BY <1>1, <1>4, <1>6, <1>10 DEF Typed
<1>12. Waiting
  BY <1>1, <1>9, <1>10 DEF Waiting, Once, Has
<1>13. CallsShaped
  BY <1>7, <1>8, <1>9 DEF CallsShaped
<1>14. PowerInv
  BY <1>1, <1>6, <1>9 DEF PowerInv, FollowsLatest, FadesLit, ShownAtRest, Fades
<1> QED
  BY <1>11, <1>12, <1>13, <1>14 DEF IndInv

LEMMA StutterStep == ASSUME IndInv, UNCHANGED vars PROVE IndInv'
<1>1. /\ Typed /\ Waiting /\ CallsShaped /\ PowerInv
      /\ UNCHANGED <<driver, api, call, begun, line, executed, ready, lamp, poll, polls,
                     air, known, told, followed>>
  BY DEF IndInv, vars, callVars, serviceVars, pollVars
<1>2. Running' = Running
  BY <1>1 DEF Running
<1>3. Typed'
  BY <1>1, SameMessages, Zenon DEF Typed
<1>4. Waiting'
  BY <1>1, <1>2 DEF Waiting, Once, Has
<1>5. CallsShaped'
  BY <1>1, <1>2 DEF CallsShaped, Shaped, TurnsOff, Ops
<1>6. PowerInv'
  BY <1>1, <1>2 DEF PowerInv, FollowsLatest, FadesLit, ShownAtRest, Intent, TurnsOff,
                    Fades, White1st, Executing, Has, Undone
<1> QED
  BY <1>3, <1>4, <1>5, <1>6 DEF IndInv

\* Whatever calls overlap and whichever of their commands fail, the calls are as
\* described above, and the lamp follows the latest.
THEOREM Invariance == Spec => []IndInv
<1>1. Init => IndInv
  BY Initially
<1>2. IndInv /\ [Next]_vars => IndInv'
  <2> SUFFICES ASSUME IndInv, [Next]_vars PROVE IndInv'
    OBVIOUS
  <2>1. CASE \E op \in Ops : Begin(op)
    BY <2>1, BeginStep
  <2>2. CASE Execute
    BY <2>2, ExecuteStep
  <2>3. CASE Resolve
    BY <2>3, ResolveStep
  <2>4. CASE Continue
    BY <2>4, ContinueStep
  <2>5. CASE PollStart \/ PollAnswer \/ PollTimeout
    BY <2>5, QuietSteps
  <2>6. CASE PollHandle
    BY <2>6, HandleStep
  <2>7. CASE UNCHANGED vars
    BY <2>7, StutterStep
  <2> QED
    BY <2>1, <2>2, <2>3, <2>4, <2>5, <2>6, <2>7 DEF Next
<1> QED
  BY <1>1, <1>2, PTL DEF Spec

\* The types: among them that the transport has one command of a call at a time
\* and that a call runs as long as it has commands to send.
THEOREM TypeCorrect == Spec => []TypeOK
<1>1. IndInv => TypeOK
  <2> SUFFICES ASSUME IndInv PROVE TypeOK
    OBVIOUS
  <2>1. Typed /\ Once(line) /\ CallsShaped
    BY DEF IndInv, Waiting
  <2>2. /\ driver \in Drivers /\ begun \in 0..MaxCalls /\ executed \in BOOLEAN
        /\ ready \in Seq([call : Calls, ok : BOOLEAN])
        /\ poll \in {"idle", "brightness", "color", "power"} /\ polls \in 0..MaxPolls
        /\ known \in BOOLEAN /\ told \in BOOLEAN /\ followed \in BOOLEAN
    BY <2>1 DEF Typed, Verdicts
  <2>3. /\ api.is_on \in {"unknown", "on", "off"}
        /\ api.brightness \in Levels \cup {0, FullLevel, NoBrightness}
        /\ api.last_brightness \in Levels \cup {FullLevel}
        /\ api.rgb \in RGB \cup {NoColor}
        /\ api.mode \in {"rgb", "color_temp"} /\ api.effect \in Effects
    BY <2>1 DEF Typed, ApiStates, OnOff, AllLevels
  <2>4. Len(api.rgb) \in {0, 3}
    <3>1. CASE api.rgb = NoColor
      BY <3>1 DEF NoColor
    <3>2. CASE api.rgb \in RGB
      BY <3>2, ColourBytes
    <3> QED
      BY <2>3, <3>1, <3>2
  <2>5. DOMAIN effects = Effects
    BY DEF effects, Effects
  <2>6. DOMAIN lamp.colour = Segments
    BY <2>1 DEF Typed, Lamps
  <2>7. \A k \in Calls :
          /\ call[k].state \in {"none", "running", "ended"}
          /\ call[k].state = "running" <=> call[k].plan # <<>>
    BY <2>1 DEF Typed, ServiceCalls, CallsShaped
  <2>8. \A i, j \in 1..Len(line) : line[i].call = line[j].call => i = j
    BY <2>1 DEF Once
  <2> QED
    BY <2>2, <2>3, <2>4, <2>5, <2>6, <2>7, <2>8, Zenon DEF TypeOK
<1> QED
  BY <1>1, Invariance, PTL

\* At rest the entity shows whether the lamp is on, for the light entity's
\* turn-ons, turn-offs, effects and segment calls in any order and overlap
\* (light.py:709, 731, 785).
THEOREM OnOffStaysShown == Spec => []OnOffIsShown
<1>1. IndInv => OnOffIsShown
  <2> SUFFICES ASSUME IndInv, AtRest, told, followed PROVE api.is_on \in {"unknown", lamp.power}
    BY DEF OnOffIsShown, Shown
  <2> QED
    BY DEF IndInv, PowerInv, ShownAtRest, AtRest
<1> QED
  BY <1>1, Invariance, PTL

----------------------------------------------------------------------------
(* What a command leaves of the lamp's settings.                           *)

\* A mask has the bits of the segments that the codec can name.
LEMMA Bits ==
  ASSUME NEW codec \in {"rgbic", "dreamcolor"}, NEW segments, NEW s \in 0..15
  PROVE  Bit(segment_mask(codec, segments), s) <=> s \in segments /\ s < MAX_SEGMENTS(codec)
<1> DEFINE bit(k) == IF k \in segments /\ k < MAX_SEGMENTS(codec) THEN 1 ELSE 0
           byte(k) == bit(k) + 2 * bit(k + 1) + 4 * bit(k + 2) + 8 * bit(k + 3)
                        + 16 * bit(k + 4) + 32 * bit(k + 5) + 64 * bit(k + 6)
                        + 128 * bit(k + 7)
           digit(b, w) == (b \div w) % 2 = 1
<1>1. segment_mask(codec, segments) = <<byte(0), byte(8)>>
  BY Zenon DEF segment_mask
<1>2. \A k : bit(k) \in {0, 1} /\ (bit(k) = 1 <=> k \in segments /\ k < MAX_SEGMENTS(codec))
  OBVIOUS
<1> HIDE DEF bit
<1>3. ASSUME NEW k \in {0, 8}
      PROVE  /\ digit(byte(k), 1) <=> bit(k) = 1
             /\ digit(byte(k), 2) <=> bit(k + 1) = 1
             /\ digit(byte(k), 4) <=> bit(k + 2) = 1
             /\ digit(byte(k), 8) <=> bit(k + 3) = 1
             /\ digit(byte(k), 16) <=> bit(k + 4) = 1
             /\ digit(byte(k), 32) <=> bit(k + 5) = 1
             /\ digit(byte(k), 64) <=> bit(k + 6) = 1
             /\ digit(byte(k), 128) <=> bit(k + 7) = 1
  <2>1. /\ bit(k) \in {0, 1} /\ bit(k + 1) \in {0, 1} /\ bit(k + 2) \in {0, 1}
        /\ bit(k + 3) \in {0, 1} /\ bit(k + 4) \in {0, 1} /\ bit(k + 5) \in {0, 1}
        /\ bit(k + 6) \in {0, 1} /\ bit(k + 7) \in {0, 1}
    BY <1>2, Zenon
  <2> QED
    BY <2>1
<1> HIDE DEF byte, digit
<1> DEFINE mask == <<byte(0), byte(8)>>
<1>4. Bit(mask, s) <=> digit(mask[s \div 8 + 1], Weight[(s % 8) + 1])
  BY DEF Bit, digit
<1>5. mask[1] = byte(0) /\ mask[2] = byte(8)
  OBVIOUS
<1> HIDE DEF mask
<1>6. /\ Weight[1] = 1 /\ Weight[2] = 2 /\ Weight[3] = 4 /\ Weight[4] = 8
      /\ Weight[5] = 16 /\ Weight[6] = 32 /\ Weight[7] = 64 /\ Weight[8] = 128
  BY DEF Weight
<1>7. Bit(mask, s) <=> bit(s) = 1
  <2>1. \/ s = 0 \/ s = 1 \/ s = 2 \/ s = 3 \/ s = 4 \/ s = 5 \/ s = 6 \/ s = 7
        \/ s = 8 \/ s = 9 \/ s = 10 \/ s = 11 \/ s = 12 \/ s = 13 \/ s = 14 \/ s = 15
    OBVIOUS
  <2>2. ASSUME s < 8 PROVE Bit(mask, s) <=> bit(s) = 1
    <3>1. s \div 8 + 1 = 1 /\ s % 8 = s
      BY <2>2
    <3>2. Bit(mask, s) <=> digit(byte(0), Weight[s + 1])
      BY <1>4, <1>5, <3>1, Zenon
    <3> QED
      BY <1>3, <1>6, <2>1, <2>2, <3>2
  <2>3. ASSUME ~(s < 8) PROVE Bit(mask, s) <=> bit(s) = 1
    <3>1. s \div 8 + 1 = 2 /\ s % 8 = s - 8
      BY <2>3
    <3>2. Bit(mask, s) <=> digit(byte(8), Weight[(s - 8) + 1])
      BY <1>4, <1>5, <3>1, Zenon
    <3> QED
      BY <1>3, <1>6, <2>1, <2>3, <3>2
  <2> QED
    BY <2>2, <2>3
<1> QED
  BY <1>1, <1>2, <1>7, Zenon DEF mask

\* The names of the commands that set colours; the brightness has one of its own.
ColourNames == {"rgb", "temp", "segments"}
Painted(l, g) ==
  [s \in Segments |-> IF s \in g.segments /\ s < MAX_SEGMENTS(Codec) THEN g.rgb
                      ELSE l.colour[s]]

\* Lamp a is what command m makes of the settings of lamp l.
Sets(l, m, a) ==
  /\ a.level = IF m.name = "brightness" THEN m.arg ELSE l.level
  /\ m.name \notin ColourNames => a.colour = l.colour
  /\ m.name \in {"rgb", "temp"} => a.colour = Whole(m.arg)
  /\ m.name = "temp" => m.arg = Warm
  /\ m.name = "segments" =>
       \E g \in AnyGroup : m.arg = g.rgb /\ a.colour = Painted(l, g)
  /\ \A g \in AnyGroup : driver # "plain" /\ m = GroupMessage(g) => a.colour = Painted(l, g)
  /\ a.scene = IF m.name \in ColourNames THEN None
               ELSE IF m.name = "effect" /\ m.arg = "Sunrise" THEN "Sunrise" ELSE l.scene

\* The fields of a lamp that changed.
LEMMA Changed ==
  ASSUME NEW l \in Lamps
  PROVE  /\ Lit(l).level = l.level /\ Lit(l).colour = l.colour /\ Lit(l).scene = l.scene
         /\ \A c : /\ Coloured(l, c).level = l.level /\ Coloured(l, c).colour = c
                   /\ Coloured(l, c).scene = None
         /\ LET a == [Lit(l) EXCEPT !.scene = "Sunrise"]
            IN a.level = l.level /\ a.colour = l.colour /\ a.scene = "Sunrise"
         /\ LET a == [l EXCEPT !.power = "off"]
            IN a.level = l.level /\ a.colour = l.colour /\ a.scene = l.scene
         /\ \A b : LET a == [l EXCEPT !.level = b]
                   IN a.level = b /\ a.colour = l.colour /\ a.scene = l.scene
BY DEF Lamps, Lit, Coloured, None

LEMMA PartsPainted ==
  ASSUME NEW l, NEW g, Codec \in {"rgbic", "dreamcolor"}
  PROVE  Parts(l, g.rgb, segment_mask(Codec, g.segments)) = Painted(l, g)
<1>1. \A s \in Segments : s \in 0..15
  BY SegmentsAssumption
<1> DEFINE codec == Codec
           mask == segment_mask(codec, g.segments)
<1>2. \A s \in 0..15 : Bit(mask, s) <=> s \in g.segments /\ s < MAX_SEGMENTS(codec)
  <2> HIDE DEF codec
  <2> QED
    BY Bits, Zenon DEF codec
<1> HIDE DEF mask, codec
<1>3. Parts(l, g.rgb, mask) = Painted(l, g)
  BY <1>1, <1>2 DEF Parts, Painted, codec
<1> QED
  BY <1>3, Zenon DEF mask, codec

LEMMA MessageSets ==
  ASSUME driver \in AllDrivers, NEW l \in Lamps, NEW m \in Messages
  PROVE  Sets(l, m, LampAfter(l, m.frame))
<1> DEFINE a == LampAfter(l, m.frame)
<1>0. /\ ColourNames = {"rgb", "temp", "segments"}
      /\ \A g : GroupMessage(g).name = "segments"
  BY DEF ColourNames, GroupMessage, Message
<1>1. CASE m = Message("off", 0, power(FALSE))
  <2>1. m.name = "off" /\ m.frame = power(FALSE)
    BY <1>1 DEF Message
  <2>2. a = [l EXCEPT !.power = "off"]
    BY <2>1, SettingsTaken, Zenon
  <2> HIDE DEF a
  <2>3. a.level = l.level /\ a.colour = l.colour /\ a.scene = l.scene
    BY <2>2, Changed, Zenon
  <2>4. /\ m.name \notin ColourNames \cup {"brightness", "effect"}
        /\ \A g : m # GroupMessage(g)
    BY <1>0, <2>1
  <2> QED
    BY <2>3, <2>4, <1>0 DEF Sets, a
<1>2. ASSUME NEW e \in Effects, m = Message("effect", e, effects[e])
      PROVE  Sets(l, m, a)
  <2>1. m.name = "effect" /\ m.arg = e /\ m.frame = effects[e]
    BY <1>2 DEF Message
  <2>2. a = IF e = "Sunrise" THEN [Lit(l) EXCEPT !.scene = "Sunrise"] ELSE Lit(l)
    BY <2>1, SettingsTaken, Zenon DEF Effects
  <2> HIDE DEF a
  <2>3. /\ a.level = l.level /\ a.colour = l.colour
        /\ a.scene = IF e = "Sunrise" THEN "Sunrise" ELSE l.scene
    BY <2>2, Changed, Zenon
  <2>4. m.name \notin ColourNames \cup {"brightness"} /\ \A g : m # GroupMessage(g)
    BY <1>0, <2>1
  <2> QED
    BY <2>1, <2>3, <2>4, <1>0 DEF Sets
<1>3. ASSUME NEW c \in RGB, m = Message("rgb", c, rgb(Codec, c))
      PROVE  Sets(l, m, a)
  <2>1. m.name = "rgb" /\ m.arg = c /\ m.frame = rgb(Codec, c)
    BY <1>3 DEF Message
  <2>2. a = Coloured(l, Whole(c))
    <3>1. CASE Codec = "rgbic"
      <4> DEFINE g == [segments |-> ALL_SEGMENTS, rgb |-> c]
                 mask == segment_mask("rgbic", ALL_SEGMENTS)
      <4>1. rgb(Codec, c) = segment_color("rgbic", c, ALL_SEGMENTS)
        BY <3>1 DEF rgb
      <4>2. a = Coloured(l, Parts(l, c, mask))
        <5>1. LampAfter(l, segment_color("rgbic", c, ALL_SEGMENTS))
                = Coloured(l, Parts(l, c, mask))
          BY SegmentsTaken
        <5> QED
          BY <2>1, <4>1, <5>1
      <4>3. Parts(l, c, mask) = Painted(l, g)
        <5>1. Parts(l, g.rgb, segment_mask(Codec, g.segments)) = Painted(l, g)
          <6> HIDE DEF g
          <6> QED
            BY <3>1, PartsPainted
        <5> QED
          BY <3>1, <5>1
      <4>4. Painted(l, g) = Whole(c)
        BY <3>1, SegmentsAssumption DEF Painted, Whole, MAX_SEGMENTS, ALL_SEGMENTS
      <4> QED
        BY <4>2, <4>3, <4>4, Zenon
    <3>2. CASE Codec \in {"dreamcolor", "common"}
      BY <2>1, <3>2, ColourTaken, Zenon
    <3> QED
      BY <3>1, <3>2, Codecs, Zenon
  <2> HIDE DEF a
  <2>3. a.level = l.level /\ a.colour = Whole(c) /\ a.scene = None
    BY <2>2, Changed, Zenon
  <2>4. m.name \in ColourNames /\ \A g : m # GroupMessage(g)
    BY <1>0, <2>1
  <2> QED
    BY <2>1, <2>3, <2>4, <1>0 DEF Sets
<1>4. CASE m = Message("temp", Warm, color_temp_rgb(Codec, Warm))
  <2>1. m.name = "temp" /\ m.arg = Warm /\ m.frame = color_temp_rgb(Codec, Warm)
    BY <1>4 DEF Message
  <2>2. Warm \in RGB /\ Codec \in {"rgbic", "dreamcolor", "common"}
    BY ColorsAssumption, Codecs
  <2>3. a = Coloured(l, Whole(Warm))
    BY <2>1, <2>2, WhiteTaken, Zenon
  <2> HIDE DEF a
  <2>4. a.level = l.level /\ a.colour = Whole(Warm) /\ a.scene = None
    BY <2>3, Changed, Zenon
  <2>5. m.name \in ColourNames /\ \A g : m # GroupMessage(g)
    BY <1>0, <2>1
  <2> QED
    BY <2>1, <2>4, <2>5, <1>0 DEF Sets, a
<1>5. ASSUME NEW b \in AllLevels, m = Message("brightness", b, brightness(b))
      PROVE  Sets(l, m, a)
  <2>1. m.name = "brightness" /\ m.arg = b /\ m.frame = brightness(b)
    BY <1>5 DEF Message
  <2>2. b \in Int
    BY LevelsAreInt, Zenon
  <2>3. a = [l EXCEPT !.level = b]
    <3>1. LampAfter(l, brightness(b)) = [l EXCEPT !.level = b]
      BY <2>2, BrightnessTaken, Zenon
    <3> QED
      BY <2>1, <3>1, Zenon
  <2> HIDE DEF a
  <2>4. a.level = b /\ a.colour = l.colour /\ a.scene = l.scene
    BY <2>3, Changed, Zenon
  <2>5. m.name \notin ColourNames \cup {"effect"} /\ \A g : m # GroupMessage(g)
    BY <1>0, <2>1
  <2> QED
    BY <2>1, <2>4, <2>5, <1>0 DEF Sets
<1>6. ASSUME driver # "plain", NEW g \in AnyGroup, m = GroupMessage(g)
      PROVE  /\ a = Coloured(l, Painted(l, g))
             /\ a.level = l.level /\ a.colour = Painted(l, g) /\ a.scene = None
             /\ m.name = "segments" /\ m.arg = g.rgb
  <2> DEFINE c == g.rgb
             s == g.segments
  <2>1. /\ c \in RGB /\ m.name = "segments" /\ m.arg = c
        /\ m.frame = segment_color(Codec, c, s)
    BY <1>6, GroupTyped DEF GroupMessage, Message
  <2>2. Codec \in {"rgbic", "dreamcolor"}
    BY <1>6, Codecs DEF AllDrivers
  <2>3. Parts(l, c, segment_mask(Codec, s)) = Painted(l, g)
    BY <2>2, PartsPainted
  <2> HIDE DEF c, s
  <2>4. a = Coloured(l, Parts(l, c, segment_mask(Codec, s)))
    BY <2>1, <2>2, SegmentsTaken, Zenon
  <2>5. a = Coloured(l, Painted(l, g))
    BY <2>3, <2>4
  <2> HIDE DEF a
  <2>6. a.level = l.level /\ a.colour = Painted(l, g) /\ a.scene = None
    BY <2>5, Changed, Zenon
  <2> QED
    BY <2>1, <2>5, <2>6, Zenon DEF c
<1>7. ASSUME driver # "plain", NEW g \in AnyGroup, m = GroupMessage(g)
      PROVE  Sets(l, m, a)
  <2>1. /\ a.level = l.level /\ a.colour = Painted(l, g) /\ a.scene = None
        /\ m.name = "segments" /\ m.arg = g.rgb
    BY <1>6, <1>7, Zenon
  <2>2. \A f \in AnyGroup : m = GroupMessage(f) => a.colour = Painted(l, f)
    BY <1>6, <1>7, Zenon
  <2> HIDE DEF a
  <2>3. m.name \in ColourNames /\ m.name \notin {"rgb", "temp", "brightness"}
    BY <1>0, <2>1
  <2> QED
    BY <2>1, <2>2, <2>3 DEF Sets
<1>8. \/ m = Message("off", 0, power(FALSE))
      \/ \E e \in Effects : m = Message("effect", e, effects[e])
      \/ \E c \in RGB : m = Message("rgb", c, rgb(Codec, c))
      \/ m = Message("temp", Warm, color_temp_rgb(Codec, Warm))
      \/ \E b \in AllLevels : m = Message("brightness", b, brightness(b))
      \/ driver # "plain" /\ \E g \in AnyGroup : m = GroupMessage(g)
  BY Zenon DEF Messages, SegmentMessages
<1> QED
  BY <1>1, <1>2, <1>3, <1>4, <1>5, <1>7, <1>8, Zenon

----------------------------------------------------------------------------
(* The lamp's settings.                                                    *)

Aspects == {{"brightness"}, ColourNames}

\* The segments that every driver in use reaches; that each group of a segment
\* call has one of them, and that the lamp has no others.
Reached == {s \in Segments : s < 15 \/ "H6163" \notin Drivers}
GroupsReach == \A g \in AnyGroup : g.segments \cap Reached # {}
StripReached == Segments = Reached

\* A lamp is as command m set it.
AsSet(l, m) ==
  /\ m.name = "brightness" => l.level = m.arg
  /\ m.name \in ColourNames /\ GroupsReach => \E s \in Segments : l.colour[s] = m.arg
  /\ m.name = "temp" => \A s \in Segments : l.colour[s] = Warm

\* An API state a that was told the brightness, if k, shows an aspect of a lamp.
ShowsLevel(l, a, k) ==
  /\ a.brightness \in {NoBrightness, 0, l.level}
  /\ k /\ driver # "H6163" => a.last_brightness = l.level
ShowsColours(l, a) ==
  /\ GroupsReach /\ a.rgb # NoColor => \E s \in Segments : l.colour[s] = a.rgb
  /\ a.mode = "color_temp" /\ driver # "H6163" => \A s \in Segments : l.colour[s] = Warm
Shows(names, l, a, k) ==
  IF names = {"brightness"} THEN ShowsLevel(l, a, k) ELSE ShowsColours(l, a)

Same(names, l, b) ==
  IF names = {"brightness"} THEN b.level = l.level ELSE b.colour = l.colour

LEMMA AspectNames ==
  ASSUME NEW names \in Aspects
  PROVE  /\ names = {"brightness"} \/ names = ColourNames
         /\ {"brightness"} # ColourNames /\ "brightness" \notin ColourNames
BY DEF Aspects, ColourNames

LEMMA GroupPaints ==
  ASSUME driver \in Drivers, GroupsReach, NEW l \in Lamps, NEW g \in AnyGroup
  PROVE  \E s \in Segments : Painted(l, g)[s] = g.rgb
<1>1. PICK s \in g.segments : s \in Segments /\ (s < 15 \/ "H6163" \notin Drivers)
  BY DEF GroupsReach, Reached
<1>2. s < MAX_SEGMENTS(Codec)
  <2>1. s \in 0..15
    BY <1>1, SegmentsAssumption
  <2>2. driver # "H6163" => Codec # "dreamcolor"
    BY DriversAssumption, Codecs
  <2> QED
    BY <1>1, <2>1, <2>2 DEF MAX_SEGMENTS
<1> QED
  BY <1>1, <1>2 DEF Painted

\* A command sets what it is for and nothing else.
LEMMA MessageSettles ==
  ASSUME driver \in Drivers, NEW l \in Lamps, NEW m \in Messages
  PROVE  LET b == LampAfter(l, m.frame)
         IN /\ AsSet(b, m)
            /\ \A names \in Aspects : m.name \notin names => Same(names, l, b)
<1> DEFINE b == LampAfter(l, m.frame)
<1>1. Sets(l, m, b) /\ Argument(m)
  BY DriversAssumption, MessageSets, MessageTaken, Zenon
<1> HIDE DEF b
<1>2. m.name = "brightness" => b.level = m.arg
  BY <1>1 DEF Sets
<1>3. \A c : \A s \in Segments : Whole(c)[s] = c
  BY DEF Whole
<1>4. PICK s \in Segments : TRUE
  BY SegmentsAssumption
<1>5. ASSUME m.name \in ColourNames, GroupsReach
      PROVE  \E t \in Segments : b.colour[t] = m.arg
  <2>1. CASE m.name \in {"rgb", "temp"}
    <3>1. b.colour = Whole(m.arg)
      BY <1>1, <2>1, Zenon DEF Sets
    <3> QED
      BY <1>3, <1>4, <3>1, Zenon
  <2>2. CASE m.name = "segments"
    <3>1. PICK g \in AnyGroup : m.arg = g.rgb /\ b.colour = Painted(l, g)
      BY <1>1, <2>2, Zenon DEF Sets
    <3> QED
      BY <1>5, <3>1, GroupPaints, Zenon
  <2> QED
    BY <1>5, <2>1, <2>2 DEF ColourNames
<1>6. m.name = "temp" => \A t \in Segments : b.colour[t] = Warm
  BY <1>1, <1>3 DEF Sets
<1>7. ASSUME NEW names \in Aspects, m.name \notin names
      PROVE  Same(names, l, b)
  BY <1>1, <1>7, AspectNames DEF Sets, Same
<1> QED
  BY <1>2, <1>5, <1>6, <1>7, Zenon DEF AsSet, b

LEMMA SettingsKept ==
  ASSUME NEW names \in Aspects, NEW l, NEW b, Same(names, l, b)
  PROVE  /\ \A m : m.name \in names /\ AsSet(l, m) => AsSet(b, m)
         /\ \A a, k : Shows(names, l, a, k) => Shows(names, b, a, k)
<1>1. CASE names = {"brightness"}
  <2>1. b.level = l.level /\ names # ColourNames
    BY <1>1, AspectNames DEF Same
  <2>2. ASSUME NEW m, m.name \in names, AsSet(l, m) PROVE AsSet(b, m)
    <3>1. m.name = "brightness" /\ m.name \notin ColourNames /\ m.name # "temp"
      BY <1>1, <2>2, AspectNames
    <3> QED
      BY <2>1, <2>2, <3>1, Zenon DEF AsSet
  <2> QED
    BY <1>1, <2>1, <2>2 DEF Shows, ShowsLevel, ShowsColours
<1>2. CASE names = ColourNames
  <2>1. b.colour = l.colour /\ names # {"brightness"}
    BY <1>2, AspectNames DEF Same
  <2>2. ASSUME NEW m, m.name \in names, AsSet(l, m) PROVE AsSet(b, m)
    <3>1. m.name # "brightness"
      BY <1>2, <2>2, AspectNames
    <3> QED
      BY <2>1, <2>2, <3>1, Zenon DEF AsSet
  <2> QED
    BY <2>1, <2>2, Zenon DEF Shows, ShowsLevel, ShowsColours
<1> QED
  BY <1>1, <1>2, AspectNames

\* What a command's acknowledgement makes the API show is what the lamp is.
LEMMA AcknowledgedShows ==
  ASSUME NEW names \in Aspects, NEW l, NEW a \in ApiStates, NEW k \in BOOLEAN,
         NEW m, Argument(m),
         m.name \in names => AsSet(l, m),
         m.name \notin names => Shows(names, l, a, k)
  PROVE  Shows(names, l, Acknowledged(a, m), k \/ m.name = "brightness")
<1> DEFINE ack == Acknowledged(a, m)
<1>1. CASE m.name = "brightness"
  <2>1. ack = [a EXCEPT !.brightness = m.arg, !.last_brightness = m.arg]
    BY <1>1 DEF Acknowledged
  <2>2. /\ ack.brightness = m.arg /\ ack.last_brightness = m.arg
        /\ ack.rgb = a.rgb /\ ack.mode = a.mode
    BY <2>1 DEF ApiStates
  <2> HIDE DEF ack
  <2>3. CASE names = {"brightness"}
    <3>1. l.level = m.arg
      BY <1>1, <2>3 DEF AsSet
    <3>2. ShowsLevel(l, ack, TRUE)
      BY <2>2, <3>1 DEF ShowsLevel
    <3> QED
      BY <1>1, <2>3, <3>2 DEF Shows, ShowsLevel, ack
  <2>4. CASE names = ColourNames
    <3>1. m.name \notin names /\ names # {"brightness"}
      BY <1>1, <2>4, AspectNames
    <3>2. ShowsColours(l, a)
      BY <3>1 DEF Shows
    <3>3. ShowsColours(l, ack)
      BY <2>2, <3>2 DEF ShowsColours
    <3> QED
      BY <3>1, <3>3 DEF Shows, ack
  <2> QED
    BY <2>3, <2>4, AspectNames, Zenon
<1>2. CASE m.name \in ColourNames
  <2>1. \/ ack = [a EXCEPT !.rgb = m.arg, !.mode = "rgb"]
        \/ m.name = "temp" /\ ack = [a EXCEPT !.rgb = m.arg, !.mode = "color_temp"]
        \/ driver = "H6163" /\ ack = [a EXCEPT !.rgb = m.arg, !.is_on = "on"]
    BY <1>2, Zenon DEF Acknowledged, ColourNames
  <2> HIDE DEF ack
  <2>2. /\ ack.brightness = a.brightness /\ ack.last_brightness = a.last_brightness
        /\ ack.rgb = m.arg
        /\ ack.mode = "rgb" \/ m.name = "temp" \/ driver = "H6163"
    BY <2>1 DEF ApiStates
  <2>3. m.name # "brightness"
    BY <1>2 DEF ColourNames
  <2>4. CASE names = {"brightness"}
    <3>1. ShowsLevel(l, a, k)
      BY <2>3, <2>4 DEF Shows
    <3>2. ShowsLevel(l, ack, k)
      BY <2>2, <3>1 DEF ShowsLevel
    <3> QED
      BY <2>3, <2>4, <3>2 DEF Shows, ShowsLevel, ack
  <2>5. CASE names = ColourNames
    <3>1. AsSet(l, m) /\ names # {"brightness"}
      BY <1>2, <2>5, AspectNames
    <3>2. ShowsColours(l, ack)
      BY <1>2, <2>2, <3>1 DEF AsSet, ShowsColours
    <3> QED
      BY <3>1, <3>2 DEF Shows, ack
  <2> QED
    BY <2>4, <2>5, AspectNames, Zenon
<1>3. CASE m.name \in {"off", "effect"}
  <2>1. \/ ack = [a EXCEPT !.effect = m.arg]
        \/ ack = [a EXCEPT !.is_on = "off"]
    BY <1>3, Zenon DEF Acknowledged
  <2> HIDE DEF ack
  <2>2. /\ ack.brightness = a.brightness /\ ack.last_brightness = a.last_brightness
        /\ ack.rgb = a.rgb /\ ack.mode = a.mode
    BY <2>1 DEF ApiStates
  <2>3. m.name \notin names /\ m.name # "brightness"
    BY <1>3, AspectNames DEF ColourNames
  <2>4. Shows(names, l, a, k)
    BY <2>3
  <2> QED
    BY <2>2, <2>3, <2>4 DEF Shows, ShowsLevel, ShowsColours, ack
<1> QED
  BY <1>1, <1>2, <1>3 DEF Argument, ColourNames

\* What the entity assigns at the end of a call says no more of the settings.
LEMMA EndedShows ==
  ASSUME NEW names \in Aspects, NEW l, NEW a \in ApiStates, NEW k, NEW c,
         Shows(names, l, a, k)
  PROVE  Shows(names, l, Ended(a, c), k)
<1> DEFINE e == Ended(a, c)
<1>1. \/ e = [a EXCEPT !.brightness = 0, !.is_on = "off"]
      \/ e = [a EXCEPT !.is_on = "on", !.effect = "Normal"]
      \/ e = [a EXCEPT !.is_on = "on"]
  BY Zenon DEF Ended
<1> HIDE DEF e
<1>2. /\ e.brightness \in {0, a.brightness} /\ e.last_brightness = a.last_brightness
      /\ e.rgb = a.rgb /\ e.mode = a.mode
  BY <1>1 DEF ApiStates
<1>3. a.brightness \in {NoBrightness, 0, l.level} => e.brightness \in {NoBrightness, 0, l.level}
  BY <1>2
<1> QED
  BY <1>2, <1>3, Zenon DEF Shows, ShowsLevel, ShowsColours, e

\* An answer that is still true shows the lamp.
LEMMA ParsedShows ==
  ASSUME NEW names \in Aspects, NEW l \in Lamps, NEW a \in ApiStates, NEW k \in BOOLEAN,
         NEW q \in {"brightness", "color", "power"}, NEW f \in Replies(l, q),
         Shows(names, l, a, k)
  PROVE  Shows(names, l, Parsed(a, f), k \/ f[1] = 4)
<1> DEFINE p == Parsed(a, f)
<1>1. CASE q = "brightness"
  <2>1. f[1] = 4 /\ f[2] = l.level
    BY <1>1 DEF Replies
  <2>2. p = IF driver = "H6163" THEN [a EXCEPT !.brightness = l.level]
            ELSE [a EXCEPT !.brightness = l.level, !.last_brightness = l.level]
    BY <2>1 DEF Parsed
  <2> HIDE DEF p
  <2>3. /\ p.brightness = l.level /\ p.rgb = a.rgb /\ p.mode = a.mode
        /\ driver # "H6163" => p.last_brightness = l.level
    BY <2>2 DEF ApiStates
  <2> QED
    BY <2>3 DEF Shows, ShowsLevel, ShowsColours, p
<1>2. CASE q = "color"
  <2>1. DOMAIN l.colour = Segments /\ \A s \in Segments : l.colour[s] \in RGB
    BY DEF Lamps
  <2>2. PICK s \in Segments : f = <<5, 1>> \o l.colour[s]
    BY <1>2, <2>1 DEF Replies
  <2> DEFINE c == l.colour[s]
  <2>3. c \in RGB /\ f = <<5, 1>> \o c
    BY <2>1, <2>2
  <2>4. f[1] = 5 /\ SubSeq(f, 3, 5) = c
    <3> DEFINE t == <<5, 1>>
    <3> HIDE DEF c
    <3>1. t \in Seq(Int) /\ Len(t) = 2 /\ t[1] = 5
      OBVIOUS
    <3>2. c \in Seq(Int) /\ Len(c) = 3
      BY <2>3, ColourBytes
    <3>3. f = t \o c
      BY <2>3
    <3> HIDE DEF t
    <3>4. /\ f \in Seq(Int) /\ Len(f) = Len(t) + Len(c)
          /\ \A i \in 1..Len(t) : f[i] = t[i]
          /\ \A i \in 1..Len(c) : f[Len(t) + i] = c[i]
      BY <3>1, <3>2, <3>3, Joined, Zenon
    <3>5. f[1] = 5 /\ 2 \in Nat /\ Len(f) >= 2 + Len(c) /\ \A i \in 1..Len(c) : f[2 + i] = c[i]
      BY <3>1, <3>2, <3>4
    <3>6. SubSeq(f, 2 + 1, 2 + Len(c)) = c
      BY <3>2, <3>4, <3>5, Part, Zenon
    <3>7. 2 + 1 = 3 /\ 2 + Len(c) = 5
      BY <3>2
    <3> QED
      BY <3>5, <3>6, <3>7, Zenon
  <2>5. p = [a EXCEPT !.rgb = c] /\ f[1] # 4
    <3>1. p = [a EXCEPT !.rgb = SubSeq(f, 3, 5)]
      BY <2>4 DEF Parsed
    <3> QED
      BY <2>4, <3>1
  <2>6. l.colour[s] = c
    OBVIOUS
  <2> HIDE DEF p, c
  <2>7. /\ p.brightness = a.brightness /\ p.last_brightness = a.last_brightness
        /\ p.rgb = c /\ p.mode = a.mode
    BY <2>5 DEF ApiStates
  <2> QED
    BY <2>5, <2>6, <2>7, Zenon DEF Shows, ShowsLevel, ShowsColours, p
<1>3. CASE q = "power"
  <2>1. f[1] = 1
    BY <1>3 DEF Replies, power
  <2>2. p = [a EXCEPT !.is_on = IF f[2] = 1 THEN "on" ELSE "off"]
    BY <2>1 DEF Parsed
  <2> HIDE DEF p
  <2>3. /\ p.brightness = a.brightness /\ p.last_brightness = a.last_brightness
        /\ p.rgb = a.rgb /\ p.mode = a.mode /\ f[1] # 4
    BY <2>1, <2>2 DEF ApiStates
  <2> QED
    BY <2>3, Zenon DEF Shows, ShowsLevel, ShowsColours, p
<1> QED
  BY <1>1, <1>2, <1>3

----------------------------------------------------------------------------
(* The entity shows the settings.                                          *)

\* The command a call waits with, and whether verdict i tells its caller that a
\* command for an aspect was executed, the last of them so far.
Current(k) == Head(call[k].plan)
Tells(i, names) == ready[i].ok /\ Current(ready[i].call).name \in names
LastTold(i, names) == \A j \in 1..Len(ready) : j > i => ~Tells(j, names)
JustSet(names) == executed /\ Current(Head(line).call).name \in names

\* The lamp is as the command executed last set it, and the API shows it when no
\* such command waits for its caller.
Delivered(names) ==
  \A i \in 1..Len(ready) : Tells(i, names) /\ LastTold(i, names)
    => AsSet(lamp, Current(ready[i].call))
Untold(names) == \A i \in 1..Len(ready) : ~Tells(i, names)
InTouch(names) ==
  IF JustSet(names) THEN AsSet(lamp, Current(Head(line).call))
  ELSE Delivered(names) /\ (Untold(names) => Shows(names, lamp, api, known))
SettingsInv == told => \A names \in Aspects : InTouch(names)

LEMMA WaitingCalls ==
  ASSUME Typed, Waiting
  PROVE  /\ \A i \in 1..Len(ready) :
              /\ ready[i].call \in Running /\ ready[i].call \in Calls
              /\ ready[i].ok \in BOOLEAN
         /\ \A i \in 1..Len(line) : line[i].call \in Running /\ line[i].call \in Calls
         /\ Len(ready) \in Nat /\ Len(line) \in Nat
<1>1. ready \in Seq(Verdicts) /\ line \in Seq(Queue)
  BY DEF Typed
<1>2. /\ \A i \in 1..Len(ready) : ready[i] \in Verdicts
      /\ \A i \in 1..Len(line) : line[i] \in Queue
      /\ Len(ready) \in Nat /\ Len(line) \in Nat
  BY <1>1, ElementOfSeq, LenProperties, Zenon
<1>3. /\ \A i \in 1..Len(ready) : ready[i].call \in Calls /\ ready[i].ok \in BOOLEAN
      /\ \A i \in 1..Len(line) : line[i].call \in Calls
  BY <1>2 DEF Verdicts, Queue
<1>4. /\ \A i \in 1..Len(ready) : Has(ready, ready[i].call)
      /\ \A i \in 1..Len(line) : Has(line, line[i].call)
  BY Zenon DEF Has
<1> QED
  BY <1>2, <1>3, <1>4, Zenon DEF Waiting

\* The frame and the message that are executed next.
LEMMA NextMessage ==
  ASSUME IndInv, line # <<>>
  PROVE  LET m == Current(Head(line).call)
         IN m \in Messages /\ Head(line).frame = m.frame /\ lamp \in Lamps /\ driver \in Drivers
<1>1. Typed /\ Waiting /\ CallsShaped
  BY DEF IndInv
<1> DEFINE h == Head(line).call
<1>2. h \in Running /\ Head(line).frame = Head(call[h].plan).frame
  BY <1>1, OldestCommand, Zenon
<1>3. Head(call[h].plan) \in Messages
  BY <1>1, <1>2, RunningCall, Zenon
<1> QED
  BY <1>1, <1>2, <1>3 DEF Typed, Current

LEMMA SettingsExecute == ASSUME IndInv, SettingsInv, Execute PROVE SettingsInv'
<1> DEFINE m == Current(Head(line).call)
<1>1. /\ line # <<>> /\ ~executed /\ executed' = TRUE
      /\ UNCHANGED <<driver, api, call, line, ready, known, told>>
      /\ lamp' = LampAfter(lamp, Head(line).frame)
  BY DEF Execute, callVars
<1>2. m \in Messages /\ lamp \in Lamps /\ driver \in Drivers /\ Head(line).frame = m.frame
  BY <1>1, NextMessage, Zenon
<1>3. /\ AsSet(lamp', m)
      /\ \A names \in Aspects : m.name \notin names => Same(names, lamp, lamp')
  BY <1>1, <1>2, MessageSettles
<1>4. \A k : Current(k)' = Current(k)
  BY <1>1 DEF Current
<1> HIDE DEF m
<1>5. ASSUME told', NEW names \in Aspects PROVE InTouch(names)'
  <2>1. ~JustSet(names) /\ InTouch(names)
    BY <1>1, <1>5 DEF JustSet, SettingsInv
  <2>2. JustSet(names)' <=> m.name \in names
    BY <1>1, <1>4, Zenon DEF JustSet, m
  <2>3. \A i : Tells(i, names)' <=> Tells(i, names)
    BY <1>1, <1>4, Zenon DEF Tells
  <2>4. \A i : LastTold(i, names)' <=> LastTold(i, names)
    BY <1>1, <2>3, Zenon DEF LastTold
  <2>5. CASE m.name \in names
    BY <1>1, <1>3, <1>4, <2>2, <2>5, Zenon DEF InTouch, m
  <2>6. CASE m.name \notin names
    <3>1. Delivered(names) /\ (Untold(names) => Shows(names, lamp, api, known))
      BY <2>1, Zenon DEF InTouch
    <3>2. Same(names, lamp, lamp')
      BY <1>3, <2>6
    <3>3. Delivered(names)'
      <4> SUFFICES ASSUME NEW i \in 1..Len(ready), Tells(i, names), LastTold(i, names)
                   PROVE  AsSet(lamp', Current(ready[i].call))
        BY <1>1, <1>4, <2>3, <2>4, Zenon DEF Delivered
      <4>1. AsSet(lamp, Current(ready[i].call)) /\ Current(ready[i].call).name \in names
        BY <3>1, Zenon DEF Delivered, Tells
      <4> QED
        BY <3>2, <4>1, SettingsKept, Zenon
    <3>4. Untold(names)' => Shows(names, lamp', api, known)
      <4>1. Untold(names)' <=> Untold(names)
        BY <1>1, <2>3, Zenon DEF Untold
      <4> QED
        BY <3>1, <3>2, <4>1, SettingsKept, Zenon
    <3>5. Untold(names)' => Shows(names, lamp, api, known)'
      BY <1>1, <3>4 DEF Shows, ShowsLevel, ShowsColours
    <3> QED
      BY <2>2, <2>6, <3>3, <3>5, Zenon DEF InTouch
  <2> QED
    BY <2>5, <2>6
<1> QED
  BY <1>5 DEF SettingsInv

\* Nothing changed that an aspect depends on.
LEMMA SettingsUntouched ==
  ASSUME SettingsInv, UNCHANGED <<driver, api, call, line, executed, ready, lamp, known, told>>
  PROVE  SettingsInv'
BY DEF SettingsInv, InTouch, JustSet, Delivered, Untold, Tells, LastTold, Current,
       Shows, ShowsLevel, ShowsColours

LEMMA SettingsHandle == ASSUME IndInv, SettingsInv, PollHandle PROVE SettingsInv'
<1>1. /\ Typed /\ lamp \in Lamps /\ api \in ApiStates /\ known \in BOOLEAN
      /\ UNCHANGED <<driver, call, line, executed, ready, lamp>>
  BY DEF IndInv, PollHandle, callVars, serviceVars, Typed
<1>2. PICK frame \in air :
        /\ api' = Parsed(api, frame)
        /\ known' = (known \/ frame[1] = 4)
        /\ told' = (told /\ frame \in Replies(lamp, poll))
  BY DEF PollHandle
<1>3. poll \in {"brightness", "color", "power"}
  BY <1>1, <1>2 DEF Typed
<1>4. ASSUME told', NEW names \in Aspects PROVE InTouch(names)'
  <2>1. InTouch(names) /\ frame \in Replies(lamp, poll)
    BY <1>2, <1>4 DEF SettingsInv
  <2>2. Shows(names, lamp, api, known) => Shows(names, lamp, api', known')
    BY <1>1, <1>2, <1>3, <2>1, ParsedShows, Zenon
  <2>3. Shows(names, lamp, api', known') => Shows(names, lamp, api, known)'
    BY <1>1 DEF Shows, ShowsLevel, ShowsColours
  <2>4. /\ JustSet(names)' <=> JustSet(names)
        /\ Delivered(names)' <=> Delivered(names)
        /\ Untold(names)' <=> Untold(names)
    BY <1>1 DEF JustSet, Delivered, Untold, Tells, LastTold, Current
  <2>5. AsSet(lamp, Current(Head(line).call))' <=> AsSet(lamp, Current(Head(line).call))
    BY <1>1 DEF Current
  <2> QED
    BY <2>1, <2>2, <2>3, <2>4, <2>5, Zenon DEF InTouch
<1> QED
  BY <1>4 DEF SettingsInv

LEMMA SettingsResolve == ASSUME IndInv, SettingsInv, Resolve PROVE SettingsInv'
<1> DEFINE h == Head(line).call
<1>1. /\ Typed /\ Waiting /\ line # <<>> /\ executed \in BOOLEAN /\ told \in BOOLEAN
      /\ executed' = FALSE
      /\ UNCHANGED <<driver, api, call, lamp, known>>
  BY DEF IndInv, Resolve, callVars, Typed
<1>2. PICK ok \in BOOLEAN :
        /\ ok => executed
        /\ ready' = Append(ready, [call |-> h, ok |-> ok])
        /\ told' = (told /\ (executed => ok))
  BY DEF Resolve
<1>0. PICK n \in Nat : n = Len(ready) + 1
  <2>1. Len(ready) \in Nat
    BY <1>1, WaitingCalls, Zenon
  <2> QED
    BY <2>1
<1> DEFINE e == [call |-> h, ok |-> ok]
<1>3. ready \in Seq(Verdicts) /\ e \in Verdicts /\ e.call = h /\ e.ok = ok
  <2>1. h \in Calls
    BY <1>1, OldestCommand, Zenon
  <2> QED
    BY <1>1, <2>1 DEF Typed, Verdicts
<1>4. ready' = Append(ready, e)
  BY <1>2
<1> HIDE DEF e
<1>5. /\ Len(ready) \in Nat /\ Len(ready') = n
      /\ \A i \in 1..Len(ready) : ready'[i] = ready[i]
      /\ ready'[n] = e
  <2>1. IsBack(ready', Verdicts, ready, e)
    BY <1>3, <1>4, Back, Zenon
  <2> QED
    BY <1>0, <2>1 DEF IsBack
<1>6. /\ \A i \in 1..Len(ready') : i \in 1..Len(ready) \/ i = n
      /\ \A i \in 1..Len(ready) : i \in 1..Len(ready') /\ n > i
      /\ n \in 1..Len(ready')
  BY <1>0, <1>5
<1>7. \A k : Current(k)' = Current(k)
  BY <1>1 DEF Current
<1>8. ASSUME told', NEW names \in Aspects PROVE InTouch(names)'
  <2>1. InTouch(names) /\ (executed <=> ok)
    BY <1>1, <1>2, <1>8 DEF SettingsInv
  <2>2. ~JustSet(names)'
    BY <1>1 DEF JustSet
  <2>3. \A i \in 1..Len(ready) : Tells(i, names)' <=> Tells(i, names)
    BY <1>5, <1>7, Zenon DEF Tells
  <2>4. Tells(n, names)' <=> JustSet(names)
    BY <1>3, <1>5, <1>7, <2>1, Zenon DEF Tells, JustSet
  <2>5. CASE JustSet(names)
    <3>1. AsSet(lamp, Current(h))
      BY <2>1, <2>5, Zenon DEF InTouch
    <3>2. Tells(n, names)'
      BY <2>4, <2>5
    <3>3. ~Untold(names)'
      BY <1>6, <3>2, Zenon DEF Untold
    <3>4. \A i \in 1..Len(ready) : ~LastTold(i, names)'
      BY <1>6, <3>2, Zenon DEF LastTold
    <3>5. Delivered(names)'
      <4> SUFFICES ASSUME NEW i \in 1..Len(ready'), LastTold(i, names)'
                   PROVE  AsSet(lamp, Current(ready'[i].call))
        BY <1>1, <1>7, Zenon DEF Delivered
      <4>1. i = n
        BY <1>6, <3>4, Zenon
      <4> QED
        BY <1>3, <1>5, <3>1, <4>1, Zenon
    <3> QED
      BY <2>2, <3>3, <3>5, Zenon DEF InTouch
  <2>6. CASE ~JustSet(names)
    <3>1. Delivered(names) /\ (Untold(names) => Shows(names, lamp, api, known))
      BY <2>1, <2>6, Zenon DEF InTouch
    <3>2. ~Tells(n, names)'
      BY <2>4, <2>6
    <3>3. Untold(names)' => Untold(names)
      BY <1>6, <2>3, Zenon DEF Untold
    <3>4. Delivered(names)'
      <4> SUFFICES ASSUME NEW i \in 1..Len(ready'), Tells(i, names)', LastTold(i, names)'
                   PROVE  AsSet(lamp, Current(ready'[i].call))
        BY <1>1, <1>7, Zenon DEF Delivered
      <4>1. i \in 1..Len(ready) /\ Tells(i, names) /\ ready'[i] = ready[i]
        BY <1>5, <1>6, <2>3, <3>2, Zenon
      <4>2. LastTold(i, names)
        BY <1>6, <2>3, Zenon DEF LastTold
      <4> QED
        BY <3>1, <4>1, <4>2, Zenon DEF Delivered
    <3>5. Untold(names)' => Shows(names, lamp, api, known)'
      <4>1. Shows(names, lamp, api, known) => Shows(names, lamp, api, known)'
        BY <1>1 DEF Shows, ShowsLevel, ShowsColours
      <4> QED
        BY <3>1, <3>3, <4>1, Zenon
    <3> QED
      BY <2>2, <3>4, <3>5, Zenon DEF InTouch
  <2> QED
    BY <2>5, <2>6
<1> QED
  BY <1>8 DEF SettingsInv

LEMMA SettingsContinue == ASSUME IndInv, SettingsInv, Continue PROVE SettingsInv'
<1> DEFINE h == Head(ready).call
           m == Current(h)
           rest == Tail(call[h].plan)
           ok == Head(ready).ok
           a == IF ok THEN Acknowledged(api, m) ELSE api
           k == known \/ (ok /\ m.name = "brightness")
           e == Queued(h, rest)
<1>1. /\ Typed /\ Waiting /\ CallsShaped /\ ready # <<>>
      /\ call' = [call EXCEPT ![h].plan = rest,
                              ![h].state = IF rest = <<>> THEN "ended" ELSE @]
      /\ ready' = Tail(ready)
      /\ line' = IF rest = <<>> THEN line ELSE Append(line, e)
      /\ api' = IF rest = <<>> THEN Ended(a, call[h]) ELSE a
      /\ known' = k
      /\ UNCHANGED <<driver, executed, lamp, told>>
  BY DEF IndInv, Continue, Current
<1>2. /\ h \in Running /\ h \in Calls /\ ~Has(line, h)
      /\ ok \in BOOLEAN
      /\ Head(ready) = ready[1] /\ 1 \in 1..Len(ready)
      /\ \A i \in 1..Len(ready) : ready[i].call = h => i = 1
  BY <1>1, WokenCall, Zenon
<1>3. call[h].plan # <<>> /\ m \in Messages
  BY <1>1, <1>2, RunningCall, Zenon DEF Current
<1>4. GoesOn(h)
  BY <1>1, <1>2, <1>3, CallGoesOn, Zenon
<1>5. \A j \in Calls : j # h => Current(j)' = Current(j)
  BY <1>4, Zenon DEF GoesOn, Current
<1>6. /\ ready \in Seq(Verdicts) /\ Len(ready) \in Nat /\ Len(ready) >= 1
      /\ Len(ready') = Len(ready) - 1
      /\ \A i \in 1..Len(ready') : ready'[i] = ready[i + 1]
  <2>1. ready \in Seq(Verdicts)
    BY <1>1 DEF Typed
  <2> QED
    BY <1>1, <2>1, Ends, Zenon
<1>7. /\ \A i \in 1..Len(ready') : i + 1 \in 1..Len(ready) /\ i + 1 # 1
      /\ \A i \in 1..Len(ready) : i # 1 => i - 1 \in 1..Len(ready') /\ (i - 1) + 1 = i
      /\ \A i, j \in 1..Len(ready') : j > i <=> j + 1 > i + 1
      /\ \A i \in 1..Len(ready) : i # 1 => i > 1
  BY <1>6
<1>8. /\ \A i \in 1..Len(ready') : ready'[i].call # h /\ ready'[i].call \in Calls
      /\ \A i \in 1..Len(line) : line[i].call # h /\ line[i].call \in Calls
  <2>1. \A i \in 1..Len(ready') : ready[i + 1].call # h /\ ready[i + 1].call \in Calls
    BY <1>1, <1>2, <1>7, WaitingCalls, Zenon
  <2>2. \A i \in 1..Len(line) : line[i].call # h /\ line[i].call \in Calls
    BY <1>1, <1>2, WaitingCalls, Zenon DEF Has
  <2> QED
    BY <1>6, <2>1, <2>2, Zenon
<1>9. executed => Head(line') = Head(line) /\ Head(line).call # h /\ Head(line).call \in Calls
  <2> SUFFICES ASSUME executed
               PROVE  Head(line') = Head(line) /\ Head(line).call # h /\ Head(line).call \in Calls
    OBVIOUS
  <2>1. line # <<>> /\ line \in Seq(Queue)
    BY <1>1 DEF Waiting, Typed
  <2>2. Head(line) = line[1] /\ 1 \in 1..Len(line)
    BY <1>1, <2>1, OldestCommand, Zenon
  <2>3. CASE rest # <<>>
    <3>1. e \in Queue
      <4>1. rest \in Seq(Messages)
        BY <1>1, <1>2, <1>3, RunningCall, HeadTailProperties, Zenon
      <4> HIDE DEF rest
      <4>2. Head(rest) \in Messages
        BY <2>3, <4>1, HeadTailProperties, Zenon
      <4> QED
        BY <1>2, <4>2 DEF Queued, Queue, Commands
    <3>2. IsBack(line', Queue, line, e)
      <4>1. line' = Append(line, e)
        BY <1>1, <2>3
      <4> HIDE DEF e
      <4> QED
        BY <2>1, <3>1, <4>1, Back, Zenon
    <3>3. Head(line') = line'[1]
      BY <3>2, Ends, Zenon DEF IsBack
    <3>4. line'[1] = line[1]
      BY <2>2, <3>2, Zenon DEF IsBack
    <3> QED
      BY <1>8, <2>2, <3>3, <3>4, Zenon
  <2>4. CASE rest = <<>>
    BY <1>1, <1>8, <2>2, <2>4, Zenon
  <2> QED
    BY <2>3, <2>4
<1>10. api \in ApiStates /\ known \in BOOLEAN /\ Argument(m) /\ a \in ApiStates
  <2>1. api \in ApiStates /\ lamp \in Lamps /\ known \in BOOLEAN
    BY <1>1 DEF Typed
  <2> HIDE DEF m
  <2>2. Argument(m)
    BY <1>1, <1>3, <2>1, DriverKnown, MessageTaken, Zenon
  <2> QED
    BY <2>1, <2>2, AcknowledgedTyped, Zenon
<1> HIDE DEF rest, e, m
<1>11. ASSUME told', NEW names \in Aspects PROVE InTouch(names)'
  <2>1. InTouch(names)
    BY <1>1, <1>11 DEF SettingsInv
  <2>2. JustSet(names)' <=> JustSet(names)
    BY <1>1, <1>5, <1>9, Zenon DEF JustSet
  <2>3. JustSet(names) => AsSet(lamp, Current(Head(line).call))'
    <3> SUFFICES ASSUME JustSet(names) PROVE AsSet(lamp, Current(Head(line).call))'
      OBVIOUS
    <3>1. executed /\ AsSet(lamp, Current(Head(line).call))
      BY <2>1, Zenon DEF InTouch, JustSet
    <3>2. Current(Head(line).call)' = Current(Head(line).call)
      BY <1>5, <1>9, <3>1, Zenon
    <3> QED
      BY <1>1, <3>1, <3>2, Zenon
  <2>4. \A i \in 1..Len(ready') : /\ Current(ready[i].call)' = Current(ready[i + 1].call)
                                  /\ Tells(i, names)' <=> Tells(i + 1, names)
    <3>1. \A i \in 1..Len(ready') : Current(ready[i].call)' = Current(ready[i + 1].call)
      BY <1>5, <1>6, <1>8, Zenon
    <3> QED
      BY <1>6, <3>1, Zenon DEF Tells
  <2>5. ASSUME ~JustSet(names)
        PROVE  Delivered(names)' /\ (Untold(names)' => Shows(names, lamp, api, known)')
    <3>1. Delivered(names) /\ (Untold(names) => Shows(names, lamp, api, known))
      BY <2>1, <2>5, Zenon DEF InTouch
    <3>2. Delivered(names)'
      <4> SUFFICES ASSUME NEW i \in 1..Len(ready'), Tells(i, names)', LastTold(i, names)'
                   PROVE  AsSet(lamp, Current(ready[i].call)')
        BY <1>1, Zenon DEF Delivered
      <4>1. i + 1 \in 1..Len(ready) /\ Tells(i + 1, names)
        BY <1>7, <2>4, Zenon
      <4>2. LastTold(i + 1, names)
        <5> SUFFICES ASSUME NEW j \in 1..Len(ready), j > i + 1 PROVE ~Tells(j, names)
          BY Zenon DEF LastTold
        <5>1. j # 1 /\ j - 1 > i
          OBVIOUS
        <5>2. j - 1 \in 1..Len(ready') /\ (j - 1) + 1 = j
          BY <1>7, <5>1, Zenon
        <5>3. ~Tells(j - 1, names)'
          BY <5>1, <5>2, Zenon DEF LastTold
        <5> QED
          BY <2>4, <5>2, <5>3, Zenon
      <4> QED
        BY <2>4, <3>1, <4>1, <4>2, Zenon DEF Delivered
    <3>3. ASSUME Untold(names)' PROVE Shows(names, lamp, api, known)'
      <4>1. \A i \in 1..Len(ready) : i # 1 => ~Tells(i, names)
        <5> SUFFICES ASSUME NEW i \in 1..Len(ready), i # 1 PROVE ~Tells(i, names)
          OBVIOUS
        <5>1. i - 1 \in 1..Len(ready') /\ (i - 1) + 1 = i
          BY <1>7, Zenon
        <5>2. ~Tells(i - 1, names)'
          BY <3>3, <5>1, Zenon DEF Untold
        <5> QED
          BY <2>4, <5>1, <5>2, Zenon
      <4>2. Tells(1, names) => AsSet(lamp, m)
        <5>1. LastTold(1, names)
          BY <4>1 DEF LastTold
        <5> QED
          BY <1>2, <3>1, <5>1, Zenon DEF Delivered, m
      <4>3. ~Tells(1, names) => Shows(names, lamp, api, known)
        BY <3>1, <4>1, Zenon DEF Untold
      <4>4. Tells(1, names) <=> ok /\ m.name \in names
        BY <1>2, Zenon DEF Tells, m
      <4>5. Shows(names, lamp, a, k)
        <5>1. CASE ok
          <6>1. Shows(names, lamp, Acknowledged(api, m), known \/ m.name = "brightness")
            BY <1>10, <4>2, <4>3, <4>4, <5>1, AcknowledgedShows, Zenon
          <6> QED
            BY <5>1, <6>1
        <5>2. CASE ~ok
          <6>1. Shows(names, lamp, api, known)
            BY <4>3, <4>4, <5>2
          <6>2. a = api /\ k = known
            BY <1>10, <5>2
          <6> QED
            BY <6>1, <6>2, Zenon
        <5> QED
          BY <5>1, <5>2
      <4> HIDE DEF a, k
      <4>6. Shows(names, lamp, api', k)
        BY <1>1, <1>10, <4>5, EndedShows, Zenon
      <4> QED
        BY <1>1, <4>6 DEF Shows, ShowsLevel, ShowsColours
    <3> QED
      BY <3>2, <3>3
  <2> QED
    BY <2>2, <2>3, <2>5, Zenon DEF InTouch
<1> QED
  BY <1>11 DEF SettingsInv

LEMMA SettingsBegin ==
  ASSUME IndInv, SettingsInv, NEW op \in Ops, Begin(op)
  PROVE  SettingsInv'
<1> DEFINE k == begun + 1
           p == Plan(op)
           new == NewCall(op)
           e == Queued(k, p)
<1>1. /\ Typed /\ Waiting /\ CallsShaped /\ begun < MaxCalls /\ api \in ApiStates
      /\ call' = [j \in Calls |->
           IF j = k THEN new
           ELSE IF j \in Running THEN [call[j] EXCEPT !.alone = FALSE] ELSE NoCall]
      /\ line' = IF p # <<>> THEN Append(line, e) ELSE line
      /\ api' = IF p # <<>> THEN api ELSE Ended(api, new)
      /\ UNCHANGED <<driver, executed, ready, lamp, known, told>>
  BY Zenon DEF IndInv, Begin, NewCall, GoalOf, Typed
<1>2. k \in Calls /\ k > begun
  BY <1>1, BoundsAssumption DEF Typed, Calls
<1>3. k \notin Running
  BY <1>1, <1>2 DEF CallsShaped, Running
<1>4. /\ new \in ServiceCalls /\ (p # <<>> => Head(p) \in Messages)
  BY <1>1, NewCallTyped, Zenon
<1>5. Joins(k, new)
  <2> HIDE DEF new
  <2> QED
    BY <1>1, <1>2, <1>3, <1>4, CallJoins, Zenon
<1>6. \A j \in Running : Current(j)' = Current(j)
  BY <1>5, Zenon DEF Joins, Current
<1> HIDE DEF new, p
<1>7. \A i \in 1..Len(ready) : Current(ready[i].call)' = Current(ready[i].call)
  BY <1>1, <1>6, WaitingCalls, Zenon
<1>8. executed => Head(line') = Head(line) /\ Head(line).call \in Running
  <2> SUFFICES ASSUME executed PROVE Head(line') = Head(line) /\ Head(line).call \in Running
    OBVIOUS
  <2>1. line # <<>> /\ line \in Seq(Queue)
    BY <1>1 DEF Waiting, Typed
  <2>2. Head(line) = line[1] /\ 1 \in 1..Len(line) /\ Head(line).call \in Running
    BY <1>1, <2>1, OldestCommand, Zenon
  <2>3. CASE p # <<>>
    <3>1. e \in Queue
      BY <1>2, <1>4, <2>3 DEF Queued, Queue, Commands
    <3>2. IsBack(line', Queue, line, e)
      <4>1. line' = Append(line, e)
        BY <1>1, <2>3
      <4> HIDE DEF e
      <4> QED
        BY <2>1, <3>1, <4>1, Back, Zenon
    <3>3. Head(line') = line'[1]
      BY <3>2, Ends, Zenon DEF IsBack
    <3>4. line'[1] = line[1]
      BY <2>2, <3>2, Zenon DEF IsBack
    <3> QED
      BY <2>2, <3>3, <3>4, Zenon
  <2>4. CASE p = <<>>
    BY <1>1, <2>2, <2>4, Zenon
  <2> QED
    BY <2>3, <2>4
<1> HIDE DEF e
<1>9. ASSUME told', NEW names \in Aspects PROVE InTouch(names)'
  <2>1. InTouch(names)
    BY <1>1, <1>9 DEF SettingsInv
  <2>2. executed => Current(Head(line).call)' = Current(Head(line).call)
    BY <1>6, <1>8, Zenon
  <2>3. JustSet(names)' <=> JustSet(names)
    BY <1>1, <2>2, Zenon DEF JustSet
  <2>4. JustSet(names) /\ AsSet(lamp, Current(Head(line).call))
          => AsSet(lamp, Current(Head(line).call))'
    BY <1>1, <2>2, Zenon DEF JustSet
  <2>5. \A i \in 1..Len(ready) : Tells(i, names)' <=> Tells(i, names)
    BY <1>1, <1>7, Zenon DEF Tells
  <2>6. /\ Untold(names)' <=> Untold(names)
        /\ \A i \in 1..Len(ready) : LastTold(i, names)' <=> LastTold(i, names)
    BY <1>1, <2>5, Zenon DEF Untold, LastTold
  <2>7. Delivered(names)' <=> Delivered(names)
    BY <1>1, <1>7, <2>5, <2>6, Zenon DEF Delivered
  <2>8. Shows(names, lamp, api, known) => Shows(names, lamp, api, known)'
    <3>1. Shows(names, lamp, api, known) => Shows(names, lamp, api', known)
      BY <1>1, EndedShows, Zenon
    <3>2. Shows(names, lamp, api', known) => Shows(names, lamp, api, known)'
      BY <1>1 DEF Shows, ShowsLevel, ShowsColours
    <3> QED
      BY <3>1, <3>2
  <2> QED
    BY <2>1, <2>3, <2>4, <2>6, <2>7, <2>8, Zenon DEF InTouch
<1> QED
  BY <1>9 DEF SettingsInv

LEMMA SettingsInitially == ASSUME Init PROVE SettingsInv
<1>1. PICK on \in {"on", "off"}, level \in Levels :
        lamp = [power |-> on, level |-> level, scene |-> None,
                colour |-> [s \in Segments |-> White]]
  BY DEF Init
<1>2. lamp.level = level /\ \A s \in Segments : lamp.colour[s] = White
  BY <1>1
<1>3. (CHOOSE s \in Segments : TRUE) \in Segments
  BY SegmentsAssumption
<1>4. /\ api.brightness = IF known THEN lamp.level ELSE NoBrightness
      /\ known /\ driver # "H6163" => api.last_brightness = lamp.level
      /\ api.rgb = IF known THEN White ELSE NoColor
      /\ api.mode = "rgb"
  BY <1>2, <1>3 DEF Init
<1>5. \A names \in Aspects : Shows(names, lamp, api, known)
  BY <1>2, <1>3, <1>4 DEF Shows, ShowsLevel, ShowsColours
<1>6. executed = FALSE /\ Len(ready) = 0
  BY DEF Init
<1> QED
  BY <1>5, <1>6 DEF SettingsInv, InTouch, JustSet, Delivered, Untold

LEMMA SettingsStep == ASSUME IndInv, SettingsInv, [Next]_vars PROVE SettingsInv'
<1>1. CASE \E op \in Ops : Begin(op)
  BY <1>1, SettingsBegin
<1>2. CASE Execute
  BY <1>2, SettingsExecute
<1>3. CASE Resolve
  BY <1>3, SettingsResolve
<1>4. CASE Continue
  BY <1>4, SettingsContinue
<1>5. CASE PollStart \/ PollAnswer \/ PollTimeout \/ UNCHANGED vars
  <2>1. UNCHANGED <<driver, api, call, line, executed, ready, lamp, known, told>>
    BY <1>5 DEF PollStart, PollAnswer, PollTimeout, vars, callVars, serviceVars
  <2> QED
    BY <2>1, SettingsUntouched
<1>6. CASE PollHandle
  BY <1>6, SettingsHandle
<1> QED
  BY <1>1, <1>2, <1>3, <1>4, <1>5, <1>6 DEF Next

\* Whichever commands failed and whatever calls overlapped: once every command that
\* the lamp executed is known to be, the brightness, colour and white mode the
\* entity shows at rest are the lamp's (light.py:709, 731, 785).  A segment call
\* may name segments that a lamp does not have; if a group of one has none that
\* it has, the entity shows a colour that no segment took.
THEOREM SettingsStayShown ==
  ASSUME GroupsReach PROVE Spec => []SettingsAreShown
<1>1. Init => IndInv /\ SettingsInv
  BY Initially, SettingsInitially
<1>2. IndInv /\ SettingsInv /\ IndInv' /\ [Next]_vars => SettingsInv'
  BY SettingsStep
<1>3. IndInv /\ SettingsInv => SettingsAreShown
  <2> SUFFICES ASSUME IndInv, SettingsInv, AtRest, told
               PROVE  /\ ShowsLevel(lamp, api, known)
                      /\ ShowsColours(lamp, api)
    BY DEF SettingsAreShown, Shown, ShowsLevel, ShowsColours
  <2>1. line = <<>> /\ Len(ready) = 0 /\ ~executed
    BY DEF AtRest, IndInv, Waiting
  <2>2. \A names \in Aspects : Shows(names, lamp, api, known)
    BY <2>1 DEF SettingsInv, InTouch, JustSet, Untold
  <2>3. {"brightness"} \in Aspects /\ ColourNames \in Aspects /\ ColourNames # {"brightness"}
    BY DEF Aspects, ColourNames
  <2> QED
    BY <2>2, <2>3, Zenon DEF Shows
<1> QED
  BY <1>1, <1>2, <1>3, Invariance, PTL DEF Spec

----------------------------------------------------------------------------
(* What a call that runs alone has still to do.                            *)

\* Least and largest elements, for the latest of the groups that paint a segment.
LEMMA Least ==
  ASSUME NEW S, S \subseteq Nat, S # {}
  PROVE  \E x \in S : \A y \in S : x <= y
<1>1. \E R : IsWellFoundedOn(R, Nat) /\ \A x, y \in Nat : <<x, y>> \in R <=> x < y
  <2>1. IsWellFoundedOn(OpToRel(<, Nat), Nat)
    BY NatLessThanWellFounded
  <2>2. \A x, y \in Nat : <<x, y>> \in OpToRel(<, Nat) <=> x < y
    BY DEF OpToRel
  <2> QED
    BY <2>1, <2>2, Zenon
<1>2. PICK R : IsWellFoundedOn(R, Nat) /\ \A x, y \in Nat : <<x, y>> \in R <=> x < y
  BY <1>1
<1>3. \E x \in S : \A y \in S : ~ (<<y, x>> \in R)
  <2>1. IsWellFoundedOn(R, Nat)
    BY <1>2
  <2>2. S \subseteq Nat /\ S # {}
    OBVIOUS
  <2> QED
    BY <2>1, <2>2, WFMin, Zenon
<1>4. \A x, y \in S : x \in Nat /\ y \in Nat
  OBVIOUS
<1>5. \A x, y \in Nat : ~(y < x) => x <= y
  OBVIOUS
<1> QED
  BY <1>2, <1>3, <1>4, <1>5, Zenon

LEMMA Largest ==
  ASSUME NEW n \in Nat, NEW S, S \subseteq 1..n, S # {}
  PROVE  Max(S) \in S /\ \A y \in S : Max(S) >= y
<1> DEFINE T == {n - i : i \in S}
<1>1. T \subseteq Nat /\ T # {}
  <2>1. \A i \in S : n - i \in Nat
    OBVIOUS
  <2>2. \E i : i \in S
    OBVIOUS
  <2> QED
    BY <2>1, <2>2
<1>2. PICK x \in T : \A y \in T : x <= y
  BY <1>1, Least, Zenon
<1>3. PICK i \in S : x = n - i
  OBVIOUS
<1>4. \A y \in S : n - i <= n - y
  BY <1>2, <1>3
<1> HIDE DEF T
<1>5. i \in Nat /\ \A y \in S : y \in Nat
  OBVIOUS
<1>6. \A y \in S : i >= y
  BY <1>4, <1>5
<1> QED
  BY <1>6 DEF Max

\* Commands, some of which set an aspect.
Awaits(due, names) == \E m \in due : m.name \in names
Switches == {"off", "effect", "rgb", "temp", "segments"}

\* What a manual call aims at is what it was asked for, and each command of a call
\* is for what the call was asked.
GoalFits(c) == c.op.kind = "manual" =>
  /\ c.op.rgb # NoColor => c.goal.rgb = c.op.rgb
  /\ c.op.brightness # NoBrightness => c.goal.brightness = c.op.brightness
  /\ c.op.brightness = NoBrightness => c.goal.brightness # 0
Fits(c, m) ==
  /\ c.op.kind = "effect" => m.name = "effect" /\ m.arg = c.op.effect
  /\ c.op.kind = "temp" =>
       m.name = "temp" \/ (m.name = "brightness" /\ m.arg = c.op.brightness)
  /\ c.op.kind = "manual" /\ ~TurnsOff(c) =>
       \/ m.name = "rgb" /\ m.arg = c.goal.rgb
       \/ m.name = "brightness" /\ m.arg = c.goal.brightness
       \/ m.name = "effect"

\* A lamp is as call c asks, but for what the commands due will do.
IsPower(c, l) == l.power = IF TurnsOff(c) THEN "off" ELSE "on"
IsScene(c, l) == c.op.effect = "Normal" \/ l.scene = c.op.effect
IsWarm(l) == l.scene = None /\ \A s \in Segments : l.colour[s] = Warm
IsLevel(c, l) == c.op.brightness \in {0, NoBrightness} \/ l.level = c.op.brightness
IsColour(c, l) ==
  c.op.rgb = NoColor \/ c.op.brightness = 0 \/ \E s \in Segments : l.colour[s] = c.op.rgb
Aims(c, due, l) ==
  /\ Awaits(due, Switches) \/ IsPower(c, l)
  /\ c.op.kind = "effect" => Awaits(due, {"effect"}) \/ IsScene(c, l)
  /\ c.op.kind = "temp" => Awaits(due, {"temp"}) \/ IsWarm(l)
  /\ c.op.kind \in {"temp", "manual"} => Awaits(due, {"brightness"}) \/ IsLevel(c, l)
  /\ c.op.kind = "manual" => Awaits(due, {"rgb"}) \/ IsColour(c, l)
Heads(c, due, l) ==
  /\ c.op \in Ops /\ GoalFits(c)
  /\ \A m \in due : Fits(c, m)
  /\ Aims(c, due, l)

LEMMA AwaitsOne ==
  ASSUME NEW due, NEW m, NEW names
  PROVE  Awaits(due \cup {m}, names) <=> Awaits(due, names) \/ m.name \in names
BY DEF Awaits

\* The lamp executes one of the commands due.
LEMMA HeadsOn ==
  ASSUME driver \in AllDrivers, NEW l \in Lamps, NEW m \in Messages, NEW c, NEW due,
         m.name = "off" <=> TurnsOff(c),
         Heads(c, due \cup {m}, l)
  PROVE  Heads(c, due, LampAfter(l, m.frame))
<1> DEFINE b == LampAfter(l, m.frame)
<1>1. Sets(l, m, b) /\ Argument(m) /\ Shines(m.name, l.power, b.power)
  BY MessageSets, MessageTaken, Zenon
<1> HIDE DEF b
<1>2. /\ c.op \in Ops /\ Kinds(c.op) /\ GoalFits(c)
      /\ Fits(c, m) /\ (\A x \in due : Fits(c, x))
      /\ Aims(c, due \cup {m}, l)
  BY OpKinds DEF Heads
<1>3. \A names : Awaits(due \cup {m}, names) => Awaits(due, names) \/ m.name \in names
  BY AwaitsOne, Zenon
<1>4. Awaits(due, Switches) \/ IsPower(c, b)
  <2>1. m.name \in Switches => IsPower(c, b)
    BY <1>1 DEF Switches, Shines, IsPower
  <2>2. m.name \notin Switches => m.name = "brightness"
    BY <1>1 DEF Switches, Argument
  <2>3. m.name = "brightness" /\ IsPower(c, l) => IsPower(c, b)
    BY <1>1 DEF Shines, IsPower
  <2> QED
    BY <1>2, <1>3, <2>1, <2>2, <2>3, Zenon DEF Aims
<1>5. ASSUME c.op.kind = "effect" PROVE IsScene(c, b)
  <2>1. m.name = "effect" /\ m.arg = c.op.effect /\ m.arg \in Effects
    BY <1>1, <1>2, <1>5 DEF Fits, Argument
  <2> QED
    BY <1>1, <2>1 DEF Sets, IsScene, Effects, ColourNames
<1>6. ASSUME c.op.kind = "temp" PROVE Awaits(due, {"temp"}) \/ IsWarm(b)
  <2>1. CASE m.name = "temp"
    <3>1. b.colour = Whole(Warm) /\ b.scene = None
      BY <1>1, <2>1 DEF Sets, ColourNames
    <3> QED
      BY <3>1 DEF IsWarm, Whole
  <2>2. CASE m.name = "brightness"
    <3>1. b.colour = l.colour /\ b.scene = l.scene /\ m.name \notin {"temp"}
      BY <1>1, <2>2 DEF Sets, ColourNames
    <3>2. Awaits(due, {"temp"}) \/ IsWarm(l)
      BY <1>2, <1>3, <1>6, <3>1, Zenon DEF Aims
    <3> QED
      BY <3>1, <3>2 DEF IsWarm
  <2> QED
    BY <1>2, <1>6, <2>1, <2>2 DEF Fits
<1>7. ASSUME c.op.kind \in {"temp", "manual"} PROVE Awaits(due, {"brightness"}) \/ IsLevel(c, b)
  <2>1. CASE m.name = "brightness"
    <3>1. b.level = m.arg
      BY <1>1, <2>1 DEF Sets
    <3>2. CASE c.op.kind = "temp"
      BY <1>2, <2>1, <3>1, <3>2 DEF Fits, IsLevel
    <3>3. CASE c.op.kind = "manual" /\ ~TurnsOff(c)
      BY <1>2, <2>1, <3>1, <3>3 DEF Fits, IsLevel, GoalFits
    <3>4. CASE c.op.kind = "manual" /\ TurnsOff(c)
      BY <1>2, <3>4 DEF IsLevel, GoalFits, TurnsOff
    <3> QED
      BY <1>7, <3>2, <3>3, <3>4
  <2>2. CASE m.name # "brightness"
    <3>1. b.level = l.level /\ m.name \notin {"brightness"}
      BY <1>1, <2>2 DEF Sets
    <3>2. Awaits(due, {"brightness"}) \/ IsLevel(c, l)
      BY <1>2, <1>3, <1>7, <3>1, Zenon DEF Aims
    <3> QED
      BY <3>1, <3>2 DEF IsLevel
  <2> QED
    BY <2>1, <2>2
<1>8. ASSUME c.op.kind = "manual" PROVE Awaits(due, {"rgb"}) \/ IsColour(c, b)
  <2>1. CASE TurnsOff(c)
    BY <1>2, <1>8, <2>1 DEF IsColour, GoalFits, TurnsOff
  <2>2. CASE ~TurnsOff(c) /\ m.name = "rgb"
    <3>1. m.arg = c.goal.rgb /\ b.colour = Whole(m.arg)
      BY <1>1, <1>2, <1>8, <2>2 DEF Fits, Sets
    <3>2. \E s \in Segments : b.colour[s] = m.arg
      BY <3>1, SegmentsAssumption DEF Whole
    <3> QED
      BY <1>2, <1>8, <3>1, <3>2 DEF IsColour, GoalFits
  <2>3. CASE ~TurnsOff(c) /\ m.name \in {"brightness", "effect"}
    <3>1. b.colour = l.colour /\ m.name \notin {"rgb"}
      BY <1>1, <2>3 DEF Sets, ColourNames
    <3>2. Awaits(due, {"rgb"}) \/ IsColour(c, l)
      BY <1>2, <1>3, <1>8, <3>1, Zenon DEF Aims
    <3> QED
      BY <3>1, <3>2, Zenon DEF IsColour
  <2> QED
    BY <1>2, <1>8, <2>1, <2>2, <2>3 DEF Fits
<1>9. Aims(c, due, b)
  BY <1>4, <1>5, <1>6, <1>7, <1>8, Zenon DEF Aims
<1> QED
  BY <1>2, <1>9, Zenon DEF Heads, b

\* The first so many groups of a segment call have been painted, each over those
\* before it.
Strokes(groups, n, l) ==
  \A s \in Segments, i \in 1..n :
    Paints(groups[i], s) =>
      (\E j \in (i + 1)..n : Paints(groups[j], s)) \/ l.colour[s] = groups[i].rgb

LEMMA NextStroke ==
  ASSUME driver \in AllDrivers, driver # "plain", driver \in Drivers, StripReached,
         NEW l \in Lamps, NEW groups \in Groups, NEW n \in Nat, n + 1 <= Len(groups),
         NEW m \in Messages, m = GroupMessage(groups[n + 1]),
         Strokes(groups, n, l)
  PROVE  Strokes(groups, n + 1, LampAfter(l, m.frame))
<1> DEFINE b == LampAfter(l, m.frame)
           g == groups[n + 1]
<1>1. g \in AnyGroup
  <2>1. n + 1 \in 1..Len(groups)
    BY GroupTyped
  <2> QED
    BY <2>1, GroupTyped, Zenon
<1>2. b.colour = Painted(l, g)
  <2>1. Sets(l, m, b)
    BY MessageSets, Zenon
  <2> HIDE DEF b
  <2> QED
    BY <1>1, <2>1, Zenon DEF Sets
<1> HIDE DEF b, g
<1>3. \A s \in Segments : s < MAX_SEGMENTS(Codec)
  <2> SUFFICES ASSUME NEW s \in Segments PROVE s < MAX_SEGMENTS(Codec)
    OBVIOUS
  <2>1. s \in 0..15 /\ (s < 15 \/ "H6163" \notin Drivers)
    BY SegmentsAssumption DEF StripReached, Reached
  <2>2. driver # "H6163" => Codec # "dreamcolor"
    BY Codecs
  <2> QED
    BY <2>1, <2>2 DEF MAX_SEGMENTS
<1>4. \A s \in Segments : b.colour[s] = IF Paints(g, s) THEN g.rgb ELSE l.colour[s]
  BY <1>2, <1>3 DEF Painted, Paints
<1>5. ASSUME NEW s \in Segments, NEW i \in 1..(n + 1), Paints(groups[i], s)
      PROVE  (\E j \in (i + 1)..(n + 1) : Paints(groups[j], s)) \/ b.colour[s] = groups[i].rgb
  <2>1. CASE i = n + 1
    BY <1>4, <1>5, <2>1, Zenon DEF g
  <2>2. CASE i # n + 1 /\ Paints(g, s)
    <3>1. n + 1 \in (i + 1)..(n + 1)
      BY <2>2
    <3> QED
      BY <2>2, <3>1, Zenon DEF g
  <2>3. CASE i # n + 1 /\ ~Paints(g, s)
    <3>1. i \in 1..n /\ \A j \in (i + 1)..n : j \in (i + 1)..(n + 1)
      BY <2>3
    <3>2. b.colour[s] = l.colour[s]
      BY <1>4, <2>3
    <3> QED
      BY <1>5, <3>1, <3>2, Zenon DEF Strokes
  <2> QED
    BY <2>1, <2>2, <2>3
<1> QED
  BY <1>5, Zenon DEF Strokes, b

\* What is left of a plan, and how far a segment call came: call c has still to do
\* its plan from command n on.
From(p, n) == {p[i] : i \in n..Len(p)}
InOrder(c) ==
  /\ driver # "plain" /\ Len(c.plan) <= Len(c.op.groups)
  /\ \A i \in 1..Len(c.plan) :
       c.plan[i] = GroupMessage(c.op.groups[Len(c.op.groups) - Len(c.plan) + i])
Advances(c, n, l) ==
  /\ Heads(c, From(c.plan, n), l)
  /\ c.op.kind = "segments" =>
       InOrder(c) /\ Strokes(c.op.groups, Len(c.op.groups) - Len(c.plan) + n - 1, l)

LEMMA AdvancesKept ==
  ASSUME UNCHANGED driver, NEW c, NEW n, NEW l
  PROVE  Advances(c, n, l)' <=> Advances(c, n, l)
<1>1. Codec' = Codec
  BY DEF Codec
<1>2. \A g : GroupMessage(g)' = GroupMessage(g)
  BY <1>1 DEF GroupMessage
<1>3. InOrder(c)' <=> InOrder(c)
  BY <1>2, Zenon DEF InOrder
<1> QED
  BY <1>3, Zenon DEF Advances

\* The lamp executes the next command of a plan.
LEMMA MovesOn ==
  ASSUME driver \in Drivers, StripReached, NEW l \in Lamps, NEW c,
         c.plan \in Seq(Messages), c.plan # <<>>,
         c.plan[1].name = "off" <=> TurnsOff(c),
         Advances(c, 1, l)
  PROVE  Advances(c, 2, LampAfter(l, c.plan[1].frame))
<1> DEFINE p == c.plan
           m == p[1]
           b == LampAfter(l, m.frame)
<1>1. driver \in AllDrivers
  BY DriversAssumption
<1>2. Len(p) \in Nat /\ Len(p) >= 1 /\ \A i \in 1..Len(p) : p[i] \in Messages
  BY Ends, Zenon
<1>3. m \in Messages
  BY <1>2
<1>4. From(p, 1) = From(p, 2) \cup {m}
  BY <1>2 DEF From
<1>5. Heads(c, From(p, 2), b)
  BY <1>1, <1>3, <1>4, HeadsOn, Zenon DEF Advances
<1>6. ASSUME c.op.kind = "segments"
      PROVE  InOrder(c) /\ Strokes(c.op.groups, Len(c.op.groups) - Len(p) + 2 - 1, b)
  <2> DEFINE groups == c.op.groups
             n == Len(groups) - Len(p)
  <2>1. groups \in Groups
    BY <1>6, OpKinds DEF Advances, Heads, Kinds
  <2>2. InOrder(c) /\ Strokes(groups, Len(groups) - Len(p) + 1 - 1, l)
    BY <1>6 DEF Advances
  <2>3. Len(groups) \in Nat /\ n \in Nat /\ n + 1 <= Len(groups)
    BY <1>2, <2>1, <2>2, GroupTyped DEF InOrder
  <2>4. Strokes(groups, n, l)
    <3>1. Len(groups) - Len(p) + 1 - 1 = n
      BY <1>2, <2>3
    <3> QED
      BY <2>2, <3>1, Zenon
  <2>5. m = GroupMessage(groups[n + 1]) /\ driver # "plain"
    <3>1. 1 \in 1..Len(p)
      BY <1>2
    <3> QED
      BY <2>2, <3>1, Zenon DEF InOrder
  <2> HIDE DEF n
  <2>6. Strokes(groups, n + 1, b)
    BY <1>1, <1>3, <2>1, <2>3, <2>4, <2>5, NextStroke, Zenon
  <2>7. n + 1 = Len(groups) - Len(p) + 2 - 1
    BY <1>2, <2>3 DEF n
  <2> QED
    BY <2>2, <2>6, <2>7, Zenon
<1> QED
  BY <1>5, <1>6, Zenon DEF Advances

\* A call goes on to its next command.
LEMMA Shortened ==
  ASSUME NEW l, NEW c, c.plan \in Seq(Messages), c.plan # <<>>,
         NEW d, d.plan = Tail(c.plan), d.op = c.op, d.goal = c.goal,
         Advances(c, 2, l)
  PROVE  Advances(d, 1, l)
<1> DEFINE p == c.plan
           q == d.plan
<1>1. /\ Len(p) \in Nat /\ Len(p) >= 1 /\ Len(q) = Len(p) - 1
      /\ \A i \in 1..Len(q) : q[i] = p[i + 1]
  <2>1. /\ Len(p) \in Nat /\ Len(p) >= 1 /\ Len(Tail(p)) = Len(p) - 1
        /\ \A i \in 1..Len(Tail(p)) : Tail(p)[i] = p[i + 1]
    BY Ends, Zenon
  <2> QED
    BY <2>1
<1>0. Len(q) \in Nat
  BY <1>1
<1> HIDE DEF p, q
<1>2. From(q, 1) = From(p, 2)
  <2>1. ASSUME NEW i \in 1..Len(q) PROVE q[i] \in From(p, 2)
    <3>1. i + 1 \in 2..Len(p)
      BY <1>1
    <3> QED
      BY <1>1, <3>1 DEF From
  <2>2. ASSUME NEW i \in 2..Len(p) PROVE p[i] \in From(q, 1)
    <3>1. i - 1 \in 1..Len(q) /\ (i - 1) + 1 = i
      BY <1>1
    <3>2. q[i - 1] = p[i]
      BY <1>1, <3>1
    <3> QED
      BY <3>1, <3>2 DEF From
  <2>3. From(q, 1) \subseteq From(p, 2)
    BY <2>1, Zenon DEF From
  <2>4. From(p, 2) \subseteq From(q, 1)
    BY <2>2, Zenon DEF From
  <2> QED
    BY <2>3, <2>4
<1>3. \A due : Heads(c, due, l) => Heads(d, due, l)
  <2>1. TurnsOff(c) <=> TurnsOff(d)
    BY DEF TurnsOff
  <2>2. GoalFits(c) => GoalFits(d)
    BY DEF GoalFits
  <2>3. \A m : Fits(c, m) => Fits(d, m)
    BY <2>1 DEF Fits
  <2>4. \A due : Aims(c, due, l) => Aims(d, due, l)
    BY <2>1 DEF Aims, IsPower, IsScene, IsLevel, IsColour
  <2> QED
    BY <2>2, <2>3, <2>4, Zenon DEF Heads
<1>4. ASSUME d.op.kind = "segments"
      PROVE  InOrder(d) /\ Strokes(d.op.groups, Len(d.op.groups) - Len(q) + 1 - 1, l)
  <2> DEFINE groups == c.op.groups
  <2>1. groups \in Groups
    BY <1>4, OpKinds DEF Advances, Heads, Kinds
  <2>2. InOrder(c) /\ Strokes(groups, Len(groups) - Len(p) + 2 - 1, l)
    BY <1>4 DEF Advances, p
  <2>3. Len(groups) \in Nat
    BY <2>1, GroupTyped
  <2>4. Len(groups) - Len(p) + 2 - 1 = Len(groups) - Len(q) + 1 - 1
    BY <1>1, <2>3
  <2>5. ASSUME NEW i \in 1..Len(q)
        PROVE  q[i] = GroupMessage(groups[Len(groups) - Len(q) + i])
    <3>0. \A x, y \in Nat : x - (y + 1) + (i + 1) = x - y + i
      OBVIOUS
    <3>1. i + 1 \in 1..Len(p) /\ Len(groups) - Len(p) + (i + 1) = Len(groups) - Len(q) + i
      <4>1. i + 1 \in 1..Len(p) /\ Len(p) = Len(q) + 1
        BY <1>0, <1>1
      <4> QED
        BY <1>0, <2>3, <3>0, <4>1, Zenon
    <3>2. p[i + 1] = GroupMessage(groups[Len(groups) - Len(p) + (i + 1)])
      BY <2>2, <3>1, Zenon DEF InOrder, p
    <3> QED
      BY <1>1, <3>1, <3>2, Zenon
  <2>6. Len(q) <= Len(groups) /\ driver # "plain"
    BY <1>0, <1>1, <2>2, <2>3 DEF InOrder, p
  <2>7. InOrder(d)
    BY <2>5, <2>6, Zenon DEF InOrder, q
  <2> QED
    BY <2>2, <2>4, <2>7, Zenon
<1> QED
  BY <1>2, <1>3, <1>4, Zenon DEF Advances, p, q

\* Short plans, put together.
LEMMA Tuples ==
  /\ \A a, b : <<a>> \o <<b>> = <<a, b>>
  /\ \A a, b, c : <<a, b>> \o <<c>> = <<a, b, c>>
<1>1. ASSUME NEW a, NEW b PROVE <<a>> \o <<b>> = <<a, b>>
  <2> DEFINE S == {a, b}
             u == <<a>> \o <<b>>
  <2>1. <<a>> \in Seq(S) /\ <<b>> \in Seq(S)
    OBVIOUS
  <2>2. u \in Seq(S) /\ Len(u) = 2 /\ u[1] = a /\ u[2] = b
    BY <2>1, ConcatProperties
  <2> HIDE DEF u
  <2>3. u = <<a, b>>
    BY <2>2
  <2> QED
    BY <2>3 DEF u
<1>2. ASSUME NEW a, NEW b, NEW c PROVE <<a, b>> \o <<c>> = <<a, b, c>>
  <2> DEFINE S == {a, b, c}
             u == <<a, b>> \o <<c>>
  <2>1. <<a, b>> \in Seq(S) /\ <<c>> \in Seq(S)
    OBVIOUS
  <2>2. u \in Seq(S) /\ Len(u) = 3 /\ u[1] = a /\ u[2] = b /\ u[3] = c
    BY <2>1, ConcatProperties
  <2> HIDE DEF u
  <2>3. u = <<a, b, c>>
    BY <2>2
  <2> QED
    BY <2>3 DEF u
<1> QED
  BY <1>1, <1>2

LEMMA Triples ==
  /\ \A a, b, c : (<<a>> \o <<b>>) \o <<c>> = <<a, b, c>>
  /\ \A a, c : (<<a>> \o <<>>) \o <<c>> = <<a, c>>
  /\ \A b, c : (<<>> \o <<b>>) \o <<c>> = <<b, c>>
  /\ \A c : (<<>> \o <<>>) \o <<c>> = <<c>>
<1>1. ASSUME NEW a, NEW b, NEW c PROVE (<<a>> \o <<b>>) \o <<c>> = <<a, b, c>>
  <2>1. <<a>> \o <<b>> = <<a, b>>
    BY Tuples, Zenon
  <2> QED
    BY <2>1, Tuples, Zenon
<1>2. \A a : <<a>> \o <<>> = <<a>> /\ <<>> \o <<a>> = <<a>>
  OBVIOUS
<1>3. <<>> \o <<>> = <<>>
  OBVIOUS
<1> QED
  BY <1>1, <1>2, <1>3, Tuples, Zenon

\* A call sets out with commands for all that it asks and that is not shown.
LEMMA FromAll ==
  /\ \A a : From(<<a>>, 1) = {a}
  /\ \A a, b : From(<<a, b>>, 1) = {a, b}
  /\ \A a, b, c : From(<<a, b, c>>, 1) = {a, b, c}
BY DEF From

LEMMA TempDue ==
  ASSUME NEW b
  PROVE  LET due == From(TempPlan(b), 1)
         IN /\ \A m \in due : m.name = "temp" \/ (m.name = "brightness" /\ m.arg = b)
            /\ Awaits(due, {"temp"})
            /\ b # NoBrightness /\ b # api.brightness => Awaits(due, {"brightness"})
<1> DEFINE due == From(TempPlan(b), 1)
           white == Message("temp", Warm, color_temp_rgb(Codec, Warm))
           bright == Message("brightness", b, brightness(b))
<1>1. white.name = "temp" /\ bright.name = "brightness" /\ bright.arg = b
  BY DEF Message
<1>2. TempPlan(b) = IF b # NoBrightness /\ b # api.brightness
                    THEN <<white, bright>> ELSE <<white>>
  <2> USE DEF TempPlan, async_set_light_color_temp, async_set_light_brightness,
              Command, Message
  <2>1. CASE b # NoBrightness /\ b # api.brightness
    <3>1. TempPlan(b) = <<white>> \o <<bright>>
      BY <2>1
    <3> HIDE DEF TempPlan, white, bright
    <3> QED
      BY <2>1, <3>1, Tuples, Zenon
  <2>2. CASE ~(b # NoBrightness /\ b # api.brightness)
    <3>1. TempPlan(b) = <<white>> \o <<>>
      BY <2>2
    <3> QED
      BY <2>2, <3>1
  <2> QED
    BY <2>1, <2>2
<1> HIDE DEF white, bright
<1>3. due = IF b # NoBrightness /\ b # api.brightness THEN {white, bright} ELSE {white}
  BY <1>2, FromAll, Zenon
<1> QED
  BY <1>1, <1>3 DEF Awaits

LEMMA ManualDue ==
  ASSUME NEW goal, goal.brightness # 0
  PROVE  LET due == From(ManualPlan(goal), 1)
         IN /\ \A m \in due : \/ m.name = "rgb" /\ m.arg = goal.rgb
                              \/ m.name = "brightness" /\ m.arg = goal.brightness
                              \/ m.name = "effect"
            /\ Awaits(due, {"effect"})
            /\ goal.rgb # api.rgb => Awaits(due, {"rgb"})
            /\ goal.brightness # api.brightness => Awaits(due, {"brightness"})
<1> DEFINE due == From(ManualPlan(goal), 1)
           normal == Message("effect", "Normal", effects["Normal"])
           colour == Message("rgb", goal.rgb, rgb(Codec, goal.rgb))
           bright == Message("brightness", goal.brightness, brightness(goal.brightness))
           x == IF goal.rgb # api.rgb THEN <<colour>> ELSE <<>>
           y == IF goal.brightness # api.brightness THEN <<bright>> ELSE <<>>
<1>1. /\ normal.name = "effect" /\ colour.name = "rgb" /\ colour.arg = goal.rgb
      /\ bright.name = "brightness" /\ bright.arg = goal.brightness
  BY DEF Message
<1>2. ManualPlan(goal) = (x \o y) \o <<normal>>
  BY Zenon DEF ManualPlan, async_set_light_rgb, async_set_light_brightness,
               async_set_effect, Command, Message, effects
<1> HIDE DEF normal, colour, bright
<1>3. /\ x = IF goal.rgb # api.rgb THEN <<colour>> ELSE <<>>
      /\ y = IF goal.brightness # api.brightness THEN <<bright>> ELSE <<>>
  OBVIOUS
<1> HIDE DEF x, y
<1>4. due = (IF goal.rgb # api.rgb THEN {colour} ELSE {})
              \cup (IF goal.brightness # api.brightness THEN {bright} ELSE {})
              \cup {normal}
  <2>1. CASE goal.rgb # api.rgb /\ goal.brightness # api.brightness
    <3>1. x = <<colour>> /\ y = <<bright>>
      BY <1>3, <2>1
    <3>2. ManualPlan(goal) = <<colour, bright, normal>>
      BY <1>2, <3>1, Triples, Zenon
    <3>3. due = {colour, bright, normal}
      BY <3>2, FromAll
    <3> QED
      BY <2>1, <3>3
  <2>2. CASE goal.rgb # api.rgb /\ ~(goal.brightness # api.brightness)
    <3>1. x = <<colour>> /\ y = <<>>
      BY <1>3, <2>2
    <3>2. ManualPlan(goal) = <<colour, normal>>
      BY <1>2, <3>1, Triples, Zenon
    <3>3. due = {colour, normal}
      BY <3>2, FromAll, Zenon
    <3> QED
      BY <2>2, <3>3
  <2>3. CASE ~(goal.rgb # api.rgb) /\ goal.brightness # api.brightness
    <3>1. x = <<>> /\ y = <<bright>>
      BY <1>3, <2>3
    <3>2. ManualPlan(goal) = <<bright, normal>>
      BY <1>2, <3>1, Triples, Zenon
    <3>3. due = {bright, normal}
      BY <3>2, FromAll, Zenon
    <3> QED
      BY <2>3, <3>3
  <2>4. CASE ~(goal.rgb # api.rgb) /\ ~(goal.brightness # api.brightness)
    <3>1. x = <<>> /\ y = <<>>
      BY <1>3, <2>4
    <3>2. ManualPlan(goal) = <<normal>>
      BY <1>2, <3>1, Triples, Zenon
    <3>3. due = {normal}
      BY <3>2, FromAll, Zenon
    <3> QED
      BY <2>4, <3>3
  <2> QED
    BY <2>1, <2>2, <2>3, <2>4
<1> HIDE DEF due
<1>5. goal.rgb # api.rgb => colour \in due
  BY <1>4
<1>6. goal.brightness # api.brightness => bright \in due
  BY <1>4
<1>7. normal \in due /\ \A m \in due : m \in {colour, bright, normal}
  BY <1>4
<1> QED
  BY <1>1, <1>5, <1>6, <1>7 DEF Awaits, due

\* A group's plan: one command for each group, in their order.
LEMMA GroupsDue ==
  ASSUME NEW groups \in Groups, async_set_segment_colors(groups) # <<>>
  PROVE  LET p == async_set_segment_colors(groups)
         IN /\ driver # "plain" /\ Len(p) = Len(groups)
            /\ \A i \in 1..Len(p) : p[i] = GroupMessage(groups[i])
            /\ Awaits(From(p, 1), {"segments"})
<1> DEFINE p == async_set_segment_colors(groups)
<1>1. driver # "plain" /\ p = [i \in DOMAIN groups |-> GroupMessage(groups[i])]
  <2>1. driver # "plain"
    BY DEF async_set_segment_colors
  <2> QED
    BY <2>1, Zenon DEF async_set_segment_colors, GroupMessage, Message
<1>2. Len(groups) \in Nat /\ DOMAIN groups = 1..Len(groups)
  BY GroupTyped, Zenon
<1> HIDE DEF p
<1> DEFINE S == {GroupMessage(groups[i]) : i \in 1..Len(groups)}
<1>3. p \in [1..Len(groups) -> S] /\ \A i \in 1..Len(groups) : p[i] = GroupMessage(groups[i])
  BY <1>1, <1>2
<1> HIDE DEF S
<1>4. p \in Seq(S)
  BY <1>2, <1>3, SeqDef
<1>5. Len(p) = Len(groups)
  BY <1>2, <1>3, <1>4
<1>6. 1 \in 1..Len(p)
  <2>1. p # <<>>
    BY DEF p
  <2>2. Len(p) \in Nat /\ Len(p) >= 1
    BY <1>4, <2>1, Ends, Zenon
  <2> QED
    BY <2>2
<1>7. p[1] \in From(p, 1) /\ p[1].name \in {"segments"}
  <2>1. p[1] = GroupMessage(groups[1])
    BY <1>3, <1>5, <1>6
  <2> QED
    BY <1>6, <2>1 DEF From, GroupMessage, Message
<1>8. Awaits(From(p, 1), {"segments"})
  BY <1>7, Zenon DEF Awaits
<1> QED
  BY <1>1, <1>3, <1>5, <1>8, Zenon DEF p

LEMMA SetsOut ==
  ASSUME GroupsReach, driver \in AllDrivers, api \in ApiStates, lamp \in Lamps, NEW op \in Ops,
         Plan(op) # <<>>,
         ShowsLevel(lamp, api, known), ShowsColours(lamp, api),
         NEW c, c.op = op, c.goal = GoalOf(op), c.plan = Plan(op)
  PROVE  Advances(c, 1, lamp)
<1> DEFINE p == Plan(op)
           due == From(p, 1)
<1>1. Kinds(op)
  BY OpKinds, Zenon
<1>2. GoalFits(c)
  <2> SUFFICES ASSUME op.kind = "manual" PROVE GoalFits(c)
    BY DEF GoalFits
  <2>1. c.goal = Goal(op) /\ api.last_brightness \in AllLevels
    BY DEF GoalOf, ApiStates
  <2>2. api.last_brightness # 0
    BY <2>1, LevelsAssumption DEF AllLevels, FullLevel
  <2>3. /\ op.rgb # NoColor => Goal(op).rgb = op.rgb
        /\ op.brightness # NoBrightness => Goal(op).brightness = op.brightness
        /\ op.brightness = NoBrightness => Goal(op).brightness = api.last_brightness
    BY DEF Goal
  <2> QED
    BY <2>1, <2>2, <2>3 DEF GoalFits
<1>3. TurnsOff(c) <=> op.kind = "off" \/ (op.kind = "manual" /\ c.goal.brightness = 0)
  BY DEF TurnsOff
<1>4. CASE TurnsOff(c)
  <2>1. p = <<OffMessage>>
    BY <1>3, <1>4, Zenon DEF p, Plan, ManualPlan, async_turn_off, Command,
       OffMessage, Message, GoalOf
  <2>2. due = {OffMessage} /\ OffMessage.name = "off"
    BY <2>1, FromAll DEF OffMessage, Message
  <2> HIDE DEF due
  <2>3. Awaits(due, Switches) /\ \A m \in due : Fits(c, m)
    BY <1>3, <1>4, <2>2 DEF Awaits, Switches, Fits
  <2>4. op.kind = "manual" => IsLevel(c, lamp) /\ IsColour(c, lamp)
    BY <1>2, <1>3, <1>4 DEF GoalFits, IsLevel, IsColour
  <2>5. op.kind \notin {"effect", "temp", "segments"}
    BY <1>3, <1>4
  <2>6. Aims(c, due, lamp)
    BY <2>3, <2>4, <2>5 DEF Aims
  <2> QED
    BY <1>2, <2>3, <2>5, <2>6 DEF Advances, Heads, due
<1>5. CASE op.kind = "effect"
  <2> DEFINE m == Message("effect", op.effect, effects[op.effect])
  <2>1. p = <<m>>
    BY <1>5 DEF p, Plan, async_set_effect, Command, Message
  <2>2. m.name = "effect" /\ m.arg = op.effect
    BY DEF Message
  <2> HIDE DEF m
  <2>3. due = {m}
    BY <2>1, FromAll, Zenon
  <2> HIDE DEF due
  <2>4. Awaits(due, Switches) /\ Awaits(due, {"effect"}) /\ \A x \in due : Fits(c, x)
    BY <1>5, <2>2, <2>3 DEF Awaits, Switches, Fits
  <2> QED
    BY <1>2, <1>5, <2>4 DEF Advances, Heads, Aims, due
<1>6. CASE op.kind = "temp"
  <2> DEFINE b == op.brightness
  <2>1. p = TempPlan(b)
    BY <1>6 DEF p, Plan
  <2>2. /\ \A m \in due : m.name = "temp" \/ (m.name = "brightness" /\ m.arg = b)
        /\ Awaits(due, {"temp"})
        /\ b # NoBrightness /\ b # api.brightness => Awaits(due, {"brightness"})
    BY <2>1, TempDue, Zenon
  <2> HIDE DEF due
  <2>3. Awaits(due, Switches) /\ \A m \in due : Fits(c, m)
    BY <1>6, <2>2 DEF Awaits, Switches, Fits
  <2>4. Awaits(due, {"brightness"}) \/ IsLevel(c, lamp)
    BY <2>2 DEF IsLevel, ShowsLevel
  <2>5. Aims(c, due, lamp)
    BY <1>6, <2>2, <2>3, <2>4 DEF Aims
  <2> QED
    BY <1>2, <1>6, <2>3, <2>5 DEF Advances, Heads, due
<1>7. CASE op.kind = "manual" /\ ~TurnsOff(c)
  <2> DEFINE goal == c.goal
  <2>1. p = ManualPlan(goal) /\ goal.brightness # 0
    BY <1>3, <1>7 DEF p, Plan, GoalOf
  <2>2. /\ \A m \in due : \/ m.name = "rgb" /\ m.arg = goal.rgb
                          \/ m.name = "brightness" /\ m.arg = goal.brightness
                          \/ m.name = "effect"
        /\ Awaits(due, {"effect"})
        /\ goal.rgb # api.rgb => Awaits(due, {"rgb"})
        /\ goal.brightness # api.brightness => Awaits(due, {"brightness"})
    BY <2>1, ManualDue, Zenon
  <2> HIDE DEF due
  <2>3. Awaits(due, Switches) /\ \A m \in due : Fits(c, m)
    BY <1>7, <2>2 DEF Awaits, Switches, Fits
  <2>4. Awaits(due, {"brightness"}) \/ IsLevel(c, lamp)
    BY <1>2, <1>7, <2>2 DEF IsLevel, ShowsLevel, GoalFits
  <2>5. Awaits(due, {"rgb"}) \/ IsColour(c, lamp)
    BY <1>2, <1>7, <2>2 DEF IsColour, ShowsColours, GoalFits
  <2>6. Aims(c, due, lamp)
    BY <1>7, <2>2, <2>3, <2>4, <2>5 DEF Aims
  <2> QED
    BY <1>2, <1>7, <2>3, <2>6 DEF Advances, Heads, due
<1>8. CASE op.kind = "segments"
  <2> DEFINE groups == op.groups
  <2>1. groups \in Groups /\ p = async_set_segment_colors(groups)
    BY <1>1, <1>8 DEF p, Plan, Kinds
  <2>2. Len(groups) \in Nat
    BY <2>1, GroupTyped
  <2>3. /\ driver # "plain" /\ Len(p) = Len(groups)
        /\ \A i \in 1..Len(p) : p[i] = GroupMessage(groups[i])
        /\ Awaits(due, {"segments"})
    BY <2>1, GroupsDue, Zenon
  <2> HIDE DEF p
  <2>4. Awaits(due, Switches) /\ \A m \in due : Fits(c, m)
    BY <1>8, <2>3 DEF Awaits, Switches, Fits
  <2>5. Aims(c, due, lamp)
    BY <1>8, <2>4 DEF Aims
  <2>6. Heads(c, due, lamp)
    BY <1>2, <2>4, <2>5, Zenon DEF Heads
  <2>7. c.plan = p
    BY DEF p
  <2>8. InOrder(c)
    <3>1. \A i \in 1..Len(p) : Len(groups) - Len(p) + i = i
      BY <2>2, <2>3
    <3>2. Len(p) <= Len(groups)
      BY <2>2, <2>3
    <3>3. \A i \in 1..Len(p) : p[i] = GroupMessage(groups[Len(groups) - Len(p) + i])
      BY <2>3, <3>1, Zenon
    <3> QED
      BY <2>3, <2>7, <3>2, <3>3, Zenon DEF InOrder
  <2>9. Strokes(groups, Len(groups) - Len(p) + 1 - 1, lamp)
    <3>1. 1..(Len(groups) - Len(p) + 1 - 1) = {}
      BY <2>2, <2>3
    <3> QED
      BY <3>1 DEF Strokes
  <2> QED
    BY <2>6, <2>7, <2>8, <2>9, Zenon DEF Advances
<1> QED
  BY <1>1, <1>3, <1>4, <1>5, <1>6, <1>7, <1>8 DEF Kinds

\* A call that has nothing left to do was obeyed.
LEMMA ObeyedAtEnd ==
  ASSUME NEW k \in Calls, call[k].plan = <<>>, Advances(call[k], 1, lamp)
  PROVE  Obeyed(k)
<1> DEFINE c == call[k]
           op == c.op
           due == From(c.plan, 1)
<1>1. due = {}
  BY DEF From
<1>2. \A names : ~Awaits(due, names)
  BY <1>1, Zenon DEF Awaits
<1> HIDE DEF due
<1>3. op \in Ops /\ Kinds(op) /\ GoalFits(c) /\ Aims(c, due, lamp)
  BY OpKinds, Zenon DEF Advances, Heads, due
<1>4. /\ IsPower(c, lamp)
      /\ op.kind = "effect" => IsScene(c, lamp)
      /\ op.kind = "temp" => IsWarm(lamp)
      /\ op.kind \in {"temp", "manual"} => IsLevel(c, lamp)
      /\ op.kind = "manual" => IsColour(c, lamp)
  BY <1>2, <1>3, Zenon DEF Aims
<1>5. CASE op.kind = "off" \/ (op.kind = "manual" /\ op.brightness = 0)
  <2>1. TurnsOff(c)
    BY <1>3, <1>5 DEF TurnsOff, GoalFits, NoBrightness
  <2>2. lamp.power = "off"
    BY <1>4, <2>1 DEF IsPower
  <2> QED
    BY <1>5, <2>2 DEF Obeyed
<1>6. CASE op.kind = "effect"
  <2>1. lamp.power = "on" /\ (op.effect = "Normal" \/ lamp.scene = op.effect)
    BY <1>4, <1>6 DEF IsPower, IsScene, TurnsOff
  <2> QED
    BY <1>6, <2>1 DEF Obeyed
<1>7. CASE op.kind = "temp"
  <2>1. lamp.power = "on" /\ IsWarm(lamp)
    BY <1>4, <1>7 DEF IsPower, TurnsOff
  <2>2. op.brightness # 0
    BY <1>3, <1>7, LevelsAssumption DEF Kinds, NoBrightness
  <2>3. op.brightness # NoBrightness => lamp.level = op.brightness
    BY <1>4, <1>7, <2>2 DEF IsLevel
  <2> QED
    BY <1>7, <2>1, <2>3 DEF Obeyed, IsWarm
<1>8. CASE op.kind = "manual" /\ op.brightness # 0
  <2>1. lamp.power = "on"
    BY <1>3, <1>4, <1>8 DEF IsPower, TurnsOff, GoalFits
  <2>2. op.brightness # NoBrightness => lamp.level = op.brightness
    BY <1>4, <1>8 DEF IsLevel
  <2>3. op.rgb # NoColor /\ Uniform => \A s \in Segments : lamp.colour[s] = op.rgb
    BY <1>4, <1>8 DEF IsColour, Uniform
  <2> QED
    BY <1>8, <2>1, <2>2, <2>3 DEF Obeyed
<1>9. CASE op.kind = "segments"
  <2> DEFINE groups == op.groups
             by(s) == {i \in DOMAIN groups : Paints(groups[i], s)}
  <2>1. lamp.power = "on"
    BY <1>4, <1>9 DEF IsPower, TurnsOff
  <2>2. Len(groups) \in Nat /\ DOMAIN groups = 1..Len(groups)
    BY <1>3, <1>9, GroupTyped DEF Kinds
  <2>3. Strokes(groups, Len(groups), lamp)
    <3>1. Strokes(groups, Len(groups) - Len(c.plan) + 1 - 1, lamp)
      BY <1>9 DEF Advances
    <3>2. Len(c.plan) = 0
      OBVIOUS
    <3>3. Len(groups) - Len(c.plan) + 1 - 1 = Len(groups)
      BY <2>2, <3>2
    <3> QED
      BY <3>1, <3>3, Zenon
  <2>4. ASSUME NEW s \in Segments, by(s) # {}
        PROVE  lamp.colour[s] = groups[Max(by(s))].rgb
    <3> DEFINE S == by(s)
    <3>1. S \subseteq 1..Len(groups) /\ S # {}
      BY <2>2, <2>4
    <3>2. \A i \in S : Paints(groups[i], s)
      OBVIOUS
    <3>3. \A i \in 1..Len(groups) : Paints(groups[i], s) => i \in S
      BY <2>2
    <3> HIDE DEF S
    <3> DEFINE i == Max(S)
    <3>4. i \in S /\ \A j \in S : i >= j
      BY <2>2, <3>1, Largest, Zenon
    <3> HIDE DEF i
    <3>5. \A j \in (i + 1)..Len(groups) : j \in 1..Len(groups) /\ ~(i >= j)
      BY <2>2, <3>1, <3>4
    <3>6. ~ \E j \in (i + 1)..Len(groups) : Paints(groups[j], s)
      BY <3>3, <3>4, <3>5, Zenon
    <3>7. lamp.colour[s] = groups[i].rgb
      BY <2>3, <3>1, <3>2, <3>4, <3>6, Zenon DEF Strokes
    <3> QED
      BY <3>7 DEF i, S
  <2> QED
    BY <1>9, <2>1, <2>4 DEF Obeyed
<1> QED
  BY <1>3, <1>5, <1>6, <1>7, <1>8, <1>9 DEF Kinds

----------------------------------------------------------------------------
(* The latest call, when it runs alone.                                    *)

\* The command that is the first of its plan to be executed.
First(k) == IF Executing(k) \/ Has(ready, k) THEN 2 ELSE 1

\* While all commands are known to have been executed, the latest call, if none ran
\* when it was made, is the only one that runs, and the lamp is as it asks but for
\* what it has still to do.
AloneInv ==
  told /\ followed /\ begun # 0 /\ call[begun].alone
    => Running \subseteq {begun} /\ Advances(call[begun], First(begun), lamp)

LEMMA AloneExecute ==
  ASSUME StripReached, IndInv, AloneInv, Execute
  PROVE  AloneInv'
<1> DEFINE h == Head(line).call
           c == call[begun]
<1>1. /\ Typed /\ Waiting /\ CallsShaped /\ line # <<>> /\ ~executed
      /\ executed' = TRUE
      /\ lamp' = LampAfter(lamp, Head(line).frame)
      /\ lamp \in Lamps /\ driver \in Drivers
      /\ UNCHANGED <<driver, call, begun, line, ready, told, followed>>
  BY DEF IndInv, Typed, Execute, callVars
<1>2. h \in Running /\ ~Has(ready, h) /\ Head(line).frame = Head(call[h].plan).frame
  BY <1>1, OldestCommand, Zenon
<1>3. SUFFICES ASSUME told, followed, begun # 0, call[begun].alone
               PROVE  Running \subseteq {begun} /\ Advances(c, 2, lamp')
  <2>1. Running' = Running
    BY <1>1 DEF Running
  <2>2. h = begun => First(begun)' = 2
    BY <1>1 DEF First, Executing
  <2>3. Advances(c, 2, lamp') => Advances(c, 2, lamp)'
    <3>1. Advances(c, 2, lamp') => Advances(c', 2, lamp')
      BY <1>1
    <3> QED
      BY <1>1, <3>1, AdvancesKept, Zenon
  <2>4. Running \subseteq {begun} => h = begun
    BY <1>2
  <2> QED
    BY <1>1, <2>1, <2>2, <2>3, <2>4, Zenon DEF AloneInv
<1>4. Running \subseteq {begun} /\ Advances(c, First(begun), lamp)
  BY <1>3, Zenon DEF AloneInv
<1>5. h = begun /\ First(begun) = 1
  BY <1>1, <1>2, <1>4 DEF First, Executing
<1>6. /\ c.plan \in Seq(Messages) /\ c.plan # <<>> /\ Head(c.plan) = c.plan[1]
      /\ Head(c.plan).name = "off" <=> TurnsOff(c)
  BY <1>1, <1>2, <1>5, RunningCall, Zenon
<1>7. Advances(c, 1, lamp)
  BY <1>4, <1>5, Zenon
<1>8. Advances(c, 2, LampAfter(lamp, c.plan[1].frame))
  BY <1>1, <1>6, <1>7, MovesOn, Zenon
<1> QED
  BY <1>1, <1>2, <1>4, <1>5, <1>6, <1>8, Zenon

LEMMA AloneResolve ==
  ASSUME IndInv, AloneInv, Resolve
  PROVE  AloneInv'
<1> DEFINE h == Head(line).call
           c == call[begun]
<1>1. /\ Typed /\ Waiting /\ line # <<>> /\ executed \in BOOLEAN
      /\ followed \in BOOLEAN /\ told \in BOOLEAN
      /\ executed' = FALSE
      /\ UNCHANGED <<driver, call, begun, lamp>>
  BY DEF IndInv, Typed, Resolve, callVars
<1>2. PICK ok \in BOOLEAN :
        /\ ok => executed
        /\ ready' = Append(ready, [call |-> h, ok |-> ok])
        /\ followed' = (followed /\ ok)
        /\ told' = (told /\ (executed => ok))
  BY DEF Resolve
<1>3. SUFFICES ASSUME told', followed', begun # 0, call[begun].alone
               PROVE  AloneInv'
  BY <1>1 DEF AloneInv
<1>4. told /\ followed /\ executed
  BY <1>1, <1>2, <1>3
<1>5. Running \subseteq {begun} /\ Advances(c, First(begun), lamp)
  BY <1>3, <1>4, Zenon DEF AloneInv
<1>6. h = begun /\ First(begun) = 2
  <2>1. h \in Running
    BY <1>1, OldestCommand, Zenon
  <2> QED
    BY <1>4, <1>5, <2>1 DEF First, Executing
<1>7. Has(ready', begun)
  <2> DEFINE e == [call |-> h, ok |-> ok]
  <2>1. ready \in Seq(Verdicts) /\ e \in Verdicts /\ e.call = h
    <3>1. h \in Calls
      BY <1>1, OldestCommand, Zenon
    <3> QED
      BY <1>1, <3>1 DEF Typed, Verdicts
  <2>2. ready' = Append(ready, e)
    BY <1>2
  <2> HIDE DEF e
  <2>3. IsBack(ready', Verdicts, ready, e)
    BY <2>1, <2>2, Back, Zenon
  <2>4. Len(ready) + 1 \in 1..Len(ready')
    BY <2>3 DEF IsBack
  <2>5. ready'[Len(ready) + 1].call = begun
    BY <1>6, <2>1, <2>3, Zenon DEF IsBack
  <2> QED
    BY <2>4, <2>5, Zenon DEF Has
<1>8. First(begun)' = 2
  BY <1>1, <1>7 DEF First, Has
<1>9. Advances(c, 2, lamp)'
  <2>1. Advances(c', 2, lamp')
    BY <1>1, <1>5, <1>6
  <2> QED
    BY <1>1, <2>1, AdvancesKept, Zenon
<1>10. Running' \subseteq {begun}
  BY <1>1, <1>5 DEF Running
<1> QED
  BY <1>1, <1>8, <1>9, <1>10, Zenon DEF AloneInv

LEMMA AloneContinue ==
  ASSUME IndInv, AloneInv, Continue
  PROVE  AloneInv'
<1> DEFINE h == Head(ready).call
           c == call[begun]
           rest == Tail(call[h].plan)
<1>1. /\ Typed /\ Waiting /\ CallsShaped /\ ready # <<>>
      /\ call' = [call EXCEPT ![h].plan = rest,
                              ![h].state = IF rest = <<>> THEN "ended" ELSE @]
      /\ ready' = Tail(ready) /\ ready \in Seq(Verdicts)
      /\ UNCHANGED <<driver, begun, executed, lamp, told, followed>>
  BY DEF IndInv, Typed, Continue
<1>2. h \in Running /\ h \in Calls /\ Has(ready, h) /\ ~Has(line, h)
  BY <1>1, WokenCall, Zenon
<1>3. call[h].plan \in Seq(Messages) /\ call[h].plan # <<>>
  BY <1>1, <1>2, RunningCall, Zenon
<1>4. GoesOn(h)
  BY <1>1, <1>2, <1>3, CallGoesOn, Zenon
<1>5. begun # 0 => call'[begun].alone = call[begun].alone
  <2>1. begun # 0 => begun \in Calls
    BY <1>1, BoundsAssumption DEF Typed, Calls
  <2> QED
    BY <1>4, <2>1, Zenon DEF GoesOn
<1>6. SUFFICES ASSUME told, followed, begun # 0, call[begun].alone
               PROVE  AloneInv'
  BY <1>1, <1>5 DEF AloneInv
<1>7. Running \subseteq {begun} /\ Advances(c, First(begun), lamp)
  BY <1>6, Zenon DEF AloneInv
<1>8. h = begun /\ First(begun) = 2
  BY <1>2, <1>7 DEF First
<1>9. ~executed
  <2> SUFFICES ASSUME executed PROVE FALSE
    OBVIOUS
  <2>1. line # <<>>
    BY <1>1 DEF Waiting
  <2>2. Head(line).call \in Running /\ Has(line, Head(line).call)
    BY <1>1, <2>1, OldestCommand, Zenon
  <2> QED
    BY <1>2, <1>7, <1>8, <2>2
<1>10. ~Has(ready', begun)
  BY <1>1, <1>8, Dropped, Zenon DEF Waiting
<1>11. First(begun)' = 1
  BY <1>1, <1>9, <1>10 DEF First, Executing, Has
<1>12. /\ call'[begun].plan = rest /\ call'[begun].op = c.op /\ call'[begun].goal = c.goal
       /\ \A j \in Calls : j # begun => call'[j] = call[j]
  BY <1>4, <1>8, Zenon DEF GoesOn
<1>13. Running' \subseteq {begun}
  BY <1>7, <1>12 DEF Running
<1>14. Advances(call'[begun], 1, lamp)
  BY <1>3, <1>7, <1>8, <1>12, Shortened, Zenon
<1>15. Advances(call[begun], 1, lamp)'
  <2>1. Advances(call'[begun], 1, lamp')
    BY <1>1, <1>14
  <2> QED
    BY <1>1, <2>1, AdvancesKept, Zenon
<1> QED
  BY <1>1, <1>11, <1>13, <1>15, Zenon DEF AloneInv

LEMMA AloneBegin ==
  ASSUME GroupsReach, IndInv, SettingsInv, NEW op \in Ops, Begin(op)
  PROVE  AloneInv'
<1> DEFINE p == Plan(op)
           new == NewCall(op)
<1>0. PICK k : k = begun + 1
  OBVIOUS
<1>1. /\ Typed /\ Waiting /\ CallsShaped /\ begun < MaxCalls
      /\ api \in ApiStates /\ lamp \in Lamps /\ driver \in AllDrivers
      /\ begun' = k
      /\ call' = [j \in Calls |->
           IF j = k THEN new
           ELSE IF j \in Running THEN [call[j] EXCEPT !.alone = FALSE] ELSE NoCall]
      /\ followed' => p # <<>>
      /\ UNCHANGED <<driver, executed, ready, lamp, told>>
  BY <1>0, DriversAssumption DEF IndInv, Begin, NewCall, GoalOf, Typed
<1>2. k \in Calls /\ k > begun
  BY <1>0, <1>1, BoundsAssumption DEF Typed, Calls
<1>3. k \notin Running
  BY <1>1, <1>2 DEF CallsShaped, Running
<1>4. /\ new \in ServiceCalls /\ new.op = op /\ new.plan = p /\ new.goal = GoalOf(op)
      /\ new.alone <=> Running = {}
  <2>1. new \in ServiceCalls
    BY <1>1, NewCallTyped, Zenon
  <2> QED
    BY <2>1 DEF NewCall
<1>5. Joins(k, new)
  <2> HIDE DEF new
  <2> QED
    BY <1>1, <1>2, <1>3, <1>4, CallJoins, Zenon
<1> HIDE DEF new, p
<1>6. SUFFICES ASSUME told, p # <<>>, Running = {}
               PROVE  Running' \subseteq {k} /\ (First(k)' = 1) /\ Advances(new, 1, lamp)
  <2>1. call'[k] = new
    BY <1>5, Zenon DEF Joins
  <2>2. call'[begun'] = new
    BY <1>1, <2>1
  <2>3. First(begun)' = First(k)'
    BY <1>1 DEF First, Executing
  <2>4. First(k)' = 1 /\ Advances(new, 1, lamp) => Advances(call'[begun'], First(begun)', lamp')
    BY <1>1, <2>2, <2>3
  <2>5. Advances(call'[begun'], First(begun)', lamp') => Advances(call[begun], First(begun), lamp)'
    BY <1>1, AdvancesKept, Zenon
  <2> QED
    BY <1>1, <1>4, <2>2, <2>4, <2>5 DEF AloneInv
<1>7. line = <<>> /\ ready = <<>> /\ ~executed /\ Len(ready) = 0
  BY <1>1, <1>6, NothingRuns
<1>8. Running' \subseteq {k}
  <2>1. \A j \in Calls : j # k => call'[j].state = "none"
    BY <1>5, <1>6 DEF Joins
  <2> QED
    BY <2>1 DEF Running
<1>9. First(k)' = 1
  <2>1. executed' = FALSE /\ ready' = <<>> /\ Len(ready') = 0
    BY <1>1, <1>7 DEF Typed
  <2>2. ~Has(ready, k)' /\ ~Executing(k)'
    BY <2>1 DEF Has, Executing
  <2> QED
    BY <2>2 DEF First
<1>10. ShowsLevel(lamp, api, known) /\ ShowsColours(lamp, api)
  <2>1. \A names \in Aspects : Shows(names, lamp, api, known)
    BY <1>6, <1>7 DEF SettingsInv, InTouch, JustSet, Untold
  <2>2. {"brightness"} \in Aspects /\ ColourNames \in Aspects /\ ColourNames # {"brightness"}
    BY DEF Aspects, ColourNames
  <2> QED
    BY <2>1, <2>2, Zenon DEF Shows
<1>11. Advances(new, 1, lamp)
  BY <1>1, <1>4, <1>6, <1>10, SetsOut, Zenon DEF p
<1> QED
  BY <1>8, <1>9, <1>11

\* Nothing changed that a call and the lamp depend on.
LEMMA AloneUntouched ==
  ASSUME AloneInv, UNCHANGED <<driver, call, begun, line, executed, ready, lamp, followed>>,
         told' => told
  PROVE  AloneInv'
<1>1. First(begun)' = First(begun) /\ Running' = Running
  BY DEF First, Executing, Has, Running
<1>2. Advances(call[begun], First(begun), lamp) => Advances(call'[begun'], First(begun)', lamp')
  BY <1>1
<1>3. Advances(call'[begun'], First(begun)', lamp') => Advances(call[begun], First(begun), lamp)'
  BY AdvancesKept, Zenon
<1> QED
  BY <1>1, <1>2, <1>3 DEF AloneInv

LEMMA AloneStep ==
  ASSUME GroupsReach, StripReached, IndInv, SettingsInv, AloneInv, [Next]_vars
  PROVE  AloneInv'
<1>1. CASE \E op \in Ops : Begin(op)
  BY <1>1, AloneBegin
<1>2. CASE Execute
  BY <1>2, AloneExecute
<1>3. CASE Resolve
  BY <1>3, AloneResolve
<1>4. CASE Continue
  BY <1>4, AloneContinue
<1>5. CASE PollStart \/ PollAnswer \/ PollTimeout \/ UNCHANGED vars
  <2>1. UNCHANGED <<driver, call, begun, line, executed, ready, lamp, followed, told>>
    BY <1>5 DEF PollStart, PollAnswer, PollTimeout, vars, callVars, serviceVars
  <2> QED
    BY <2>1, AloneUntouched
<1>6. CASE PollHandle
  <2>1. UNCHANGED <<driver, call, begun, line, executed, ready, lamp, followed>> /\ (told' => told)
    BY <1>6 DEF PollHandle, callVars, serviceVars
  <2> QED
    BY <2>1, AloneUntouched
<1> QED
  BY <1>1, <1>2, <1>3, <1>4, <1>5, <1>6 DEF Next

\* A service call that runs alone leaves the lamp as it asked although it sends
\* only what differs from what is shown, however the calls before it overlapped or
\* failed and whatever a status query does in between: switched on or off, with
\* the brightness, colour, scene or segment colours of the call (light.py:709, 731,
\* 785).  Besides what SettingsStayShown supposes, the lamp has only segments that
\* its driver can name: an H6163 none after the fifteenth.
THEOREM AloneStaysObeyed ==
  ASSUME GroupsReach, StripReached PROVE Spec => []AloneIsObeyed
<1>1. Init => IndInv /\ SettingsInv /\ AloneInv
  <2>1. Init => AloneInv
    BY DEF Init, AloneInv
  <2> QED
    BY <2>1, Initially, SettingsInitially
<1>2. IndInv /\ SettingsInv /\ AloneInv /\ IndInv' /\ [Next]_vars => SettingsInv' /\ AloneInv'
  BY SettingsStep, AloneStep
<1>3. IndInv /\ AloneInv => AloneIsObeyed
  <2> SUFFICES ASSUME IndInv, AloneInv, NEW k \in Calls,
                      AtRest, told, followed, k = begun, call[k].alone
               PROVE  Obeyed(k)
    BY DEF AloneIsObeyed
  <2>1. k # 0 /\ line = <<>> /\ ready = <<>> /\ Len(ready) = 0 /\ ~executed
    BY DEF AtRest, IndInv, Waiting, Calls
  <2>2. call[k].plan = <<>>
    BY DEF AtRest, Running, IndInv, CallsShaped
  <2>3. First(k) = 1
    BY <2>1 DEF First, Executing, Has
  <2>4. Advances(call[k], 1, lamp)
    BY <2>1, <2>3, Zenon DEF AloneInv
  <2> QED
    BY <2>2, <2>4, ObeyedAtEnd, Zenon
<1> QED
  BY <1>1, <1>2, <1>3, Invariance, PTL DEF Spec
===============================================================================
