---------------------------- MODULE BleSessionProofs ----------------------------
(***************************************************************************)
(* Proofs about BleSession for any number of commands and token requests,  *)
(* over links that lose frames or not: an authenticated session and its    *)
(* device use the same keys, and what a session hands to its callers is    *)
(* what the device said.                                                   *)
(***************************************************************************)
EXTENDS BleSession, SequenceTheorems, TLAPS

Messages == [key : Keys, frame : Frames]
Inbox == Frames \cup {Garbage}

----------------------------------------------------------------------------
(* The inductive invariant.                                                *)

\* The session is not open yet; its frames are those of the key exchange.
Early == pc \in {"new", "e7_01", "e7_02"}
KeyExchange == {"e7_01", "e7_02"}

\* In a sequence, each element is related by R to all that come after it.
Ordered(s, R) == \A i, j \in 1..Len(s) : i < j => <<s[i], s[j]>> \in R

\* The client writes the frames of the key exchange first, and its commands by
\* their numbers.
AsWritten ==
  {p \in Messages \X Messages :
     /\ p[2].frame.kind \in KeyExchange => p[1].frame.kind \in KeyExchange
     /\ p[1].frame.kind = "33_01" /\ p[2].frame.kind = "33_01"
          => p[1].frame.arg < p[2].frame.arg}

\* The device acknowledges by those numbers, unless the client only polls, and
\* changes its keys no more once it has answered an authentication.
AsAnswered ==
  {p \in Messages \X Messages :
     /\ p[1].frame.kind = "33_b2" => p[2].key = p[1].key
     /\ role = "control" /\ p[1].frame.kind = "33_01" /\ p[2].frame.kind = "33_01"
          => p[1].frame.arg < p[2].frame.arg}

AsReceived ==
  {p \in Inbox \X Inbox :
     role = "control" /\ p[1].kind = "33_01" /\ p[2].kind = "33_01"
       => p[1].arg < p[2].arg}

InOrder ==
  /\ Ordered(to_device, AsWritten)
  /\ Ordered(from_device, AsAnswered)
  /\ Ordered(q, AsReceived)

\* Where the client is in the protocol.
Protocol ==
  /\ Early => crypto = "initial"
  /\ pc = "33_01" => role = "control" /\ asked \in Cmds
  /\ pc = "33_00" => role = "poll"
  /\ pc = "aa_b1" => role = "pair"
  /\ dev_key \in IF legacy THEN {"plain"} ELSE {"initial", "material"}

\* What the client has written.
Written ==
  \A m \in Range(to_device) :
    /\ m.frame.kind \in KeyExchange => m.key = "initial"
    /\ m.frame.kind \notin KeyExchange => ~Early /\ m.key = crypto
    /\ m.frame.kind = "33_b2" => m.frame.arg \in {0, 1}
    /\ m.frame.kind = "33_01" => role = "control" /\ m.frame.arg \in 1..asked
    /\ m.frame.kind = "33_00" => role = "poll"

\* Client and device use the same keys, and nothing will change them.
Paired ==
  /\ ~Early
  /\ dev_key = crypto
  /\ \A m \in Range(to_device) : m.frame.kind \notin KeyExchange

AnsweredAlike == \A m \in Range(from_device) : m.key = crypto

\* The device understood the authentication, and accepts commands if it says so.
Confirms(f) == Paired /\ (legacy \/ f.arg = 0 => dev_authed)

\* An answer to the authentication, wherever it is, tells that keys agree.
Authentication ==
  /\ \A m \in Range(from_device) :
       m.frame.kind = "33_b2" => m.key = crypto /\ Confirms(m.frame)
  /\ \A f \in Range(q) : f.kind = "33_b2" => Confirms(f) /\ AnsweredAlike
  /\ Authed => Paired /\ AnsweredAlike /\ dev_authed

\* The command of number a is older than every command and ack on the air, and
\* than every ack in the queue.
OlderThanAir(a) ==
  \A m \in Range(from_device) \cup Range(to_device) :
    m.frame.kind = "33_01" => a < m.frame.arg
OlderThanQueue(a) == \A f \in Range(q) : f.kind = "33_01" => a < f.arg

\* Acks of executed commands only; and they are heard, taken from the queue and
\* given to a command in the order in which the commands were sent.
Acks ==
  /\ \A m \in Range(from_device), n \in Range(to_device) :
       m.frame.kind = "33_01" /\ n.frame.kind = "33_01"
         => m.frame.arg < n.frame.arg
  /\ \A m \in Range(from_device) :
       m.frame.kind = "33_01" => m.frame.arg \in 1..asked \cap Range(executed)
  /\ \A f \in Range(q) : f.kind = "33_01" => f.arg \in heard
  /\ \A a \in heard : a \in 1..asked \cap Range(executed) /\ OlderThanAir(a)
  /\ \A c \in Cmds : result[c] # 0 =>
       c \in 1..asked /\ result[c] \in heard /\ OlderThanQueue(result[c])
  /\ pc = "33_01" => \A a \in arrived[asked] : OlderThanAir(a) /\ OlderThanQueue(a)

NoResults == \A c \in Cmds : result[c] = 0

IndInv ==
  /\ TypeOK /\ Protocol /\ InOrder /\ Written /\ Authentication
  /\ IF role = "control" THEN Acks ELSE NoResults
  /\ AnswersAreGenuine
----------------------------------------------------------------------------
(* Sequences: what is in them and in which order.                          *)

LEMMA Empty == ASSUME NEW R PROVE Range(<<>>) = {} /\ Ordered(<<>>, R)
  BY DEF Range, Ordered

\* An element of a sequence stands at some place of it.
LEMMA IsEntry ==
  ASSUME NEW S, NEW s \in Seq(S), NEW e \in Range(s)
  PROVE  \E i \in 1..Len(s) : s[i] = e
<1>1. Range(s) = {s[i] : i \in 1..Len(s)}
  BY RangeEquality
<1> QED
  BY <1>1

\* t is s and e behind it.
IsLonger(t, S, s, e) ==
  /\ t \in Seq(S)
  /\ Range(t) = Range(s) \cup {e}
  /\ \A R : Ordered(s, R) /\ (\A m \in Range(s) : <<m, e>> \in R)
            => Ordered(t, R)

LEMMA Appended ==
  ASSUME NEW S, NEW s \in Seq(S), NEW e \in S
  PROVE  IsLonger(Append(s, e), S, s, e)
<1> DEFINE t == Append(s, e)
           n == Len(s)
<1>1. /\ t \in Seq(S) /\ Len(t) = n + 1 /\ n \in Nat
      /\ \A i \in 1..n : t[i] = s[i]
      /\ t[n + 1] = e
  BY AppendProperties, LenProperties
<1>2. Range(s) = {s[i] : i \in 1..n} /\ Range(t) = {t[i] : i \in 1..(n + 1)}
  BY <1>1, RangeEquality
<1> HIDE DEF t, n
<1>3. Range(t) = Range(s) \cup {e}
  BY <1>1, <1>2
<1>4. ASSUME NEW R, Ordered(s, R), \A m \in Range(s) : <<m, e>> \in R
      PROVE  Ordered(t, R)
  <2> SUFFICES ASSUME NEW i \in 1..(n + 1), NEW j \in 1..(n + 1), i < j
               PROVE  <<t[i], t[j]>> \in R
    BY <1>1 DEF Ordered
  <2>1. i \in 1..n /\ t[i] = s[i]
    BY <1>1
  <2>2. CASE j = n + 1
    BY <1>1, <1>2, <1>4, <2>1, <2>2
  <2>3. CASE j \in 1..n
    BY <1>1, <1>4, <2>1, <2>3 DEF Ordered, n
  <2> QED
    BY <1>1, <2>2, <2>3
<1> QED
  BY <1>1, <1>3, <1>4 DEF t, IsLonger

LEMMA Taken ==
  ASSUME NEW S, NEW s \in Seq(S), s # <<>>
  PROVE  /\ Tail(s) \in Seq(S) /\ Head(s) \in S /\ Head(s) \in Range(s)
         /\ \A m \in Range(Tail(s)) : m \in Range(s)
         /\ \A R : Ordered(s, R) =>
              /\ Ordered(Tail(s), R)
              /\ \A m \in Range(Tail(s)) : <<Head(s), m>> \in R
<1> DEFINE t == Tail(s)
           n == Len(s)
<1>1. /\ t \in Seq(S) /\ Head(s) \in S /\ Len(t) = n - 1
      /\ \A i \in 1..Len(t) : t[i] = s[i + 1]
      /\ n \in Nat \ {0} /\ Head(s) = s[1]
  BY HeadTailProperties, EmptySeq, LenProperties
<1>2. Range(s) = {s[i] : i \in 1..n} /\ Range(t) = {t[i] : i \in 1..Len(t)}
  <2>1. t \in Seq(S)
    BY <1>1
  <2>2. Range(t) = {t[i] : i \in 1..Len(t)}
    BY <2>1, RangeEquality, Zenon
  <2> QED
    BY <2>2, RangeEquality, Zenon
<1> HIDE DEF t, n
<1>3. Head(s) \in Range(s)
  BY <1>1, <1>2
<1>4. \A i \in 1..Len(t) : /\ t[i] = s[i + 1] /\ i + 1 \in 1..n
                           /\ 1 \in 1..n /\ 1 < i + 1
  BY <1>1 DEF n
<1>5. \A m \in Range(t) : m \in Range(s)
  BY <1>2, <1>4
<1>6. ASSUME NEW R, Ordered(s, R)
      PROVE  Ordered(t, R) /\ \A m \in Range(t) : <<Head(s), m>> \in R
  <2>1. \A i, j \in 1..n : i < j => <<s[i], s[j]>> \in R
    BY <1>6 DEF Ordered, n
  <2>2. ASSUME NEW i \in 1..Len(t), NEW j \in 1..Len(t), i < j
        PROVE  <<t[i], t[j]>> \in R
    <3>1. i + 1 < j + 1
      BY <1>1, <2>2
    <3> QED
      BY <1>4, <2>1, <3>1
  <2>3. ASSUME NEW i \in 1..Len(t) PROVE <<Head(s), t[i]>> \in R
    BY <1>1, <1>4, <2>1
  <2> QED
    BY <1>2, <2>2, <2>3 DEF Ordered
<1> QED
  BY <1>1, <1>3, <1>5, <1>6 DEF t
----------------------------------------------------------------------------
(* What the steps do to what is on the air.                                *)

\* The types as the proofs use them.
LEMMA Types ==
  ASSUME TypeOK
  PROVE  /\ q \in Seq(Inbox)
         /\ to_device \in Seq(Messages) /\ from_device \in Seq(Messages)
         /\ executed \in Seq(Cmds) /\ collected \in Seq(Frames)
         /\ asked \in Nat /\ heard \subseteq Cmds
         /\ crypto \in Keys /\ dev_key \in Keys
BY DEF TypeOK, Messages, Inbox, Cmds

\* An exchange empties the queue and writes one frame with the present keys.
Wrote(k, a) ==
  /\ q' = <<>> /\ q' \in Seq(Inbox) /\ Range(q') = {}
  /\ \A R : Ordered(q', R)
  /\ to_device' \in Seq(Messages)
  /\ \E m \in Messages :
       /\ m.key = crypto /\ m.frame.kind = k /\ m.frame.arg = a
       /\ Range(to_device') = Range(to_device) \cup {m}
       /\ \A R : Ordered(to_device, R)
                   /\ (\A x \in Range(to_device) : <<x, m>> \in R)
                => Ordered(to_device', R)

LEMMA Exchanged ==
  ASSUME TypeOK, NEW k \in Kinds, NEW a \in Nat, Exchange(k, a)
  PROVE  Wrote(k, a)
<1> DEFINE m == Encrypted(crypto, k, a)
<1>1. m \in Messages /\ m.key = crypto /\ m.frame.kind = k /\ m.frame.arg = a
  BY Types DEF Encrypted, Messages, Frames
<1>2. to_device' = Append(to_device, m) /\ q' = <<>>
  BY DEF Exchange, Write
<1> HIDE DEF m
<1>3. q' \in Seq(Inbox) /\ Range(q') = {} /\ \A R : Ordered(q', R)
  BY <1>2, Empty, EmptySeq
<1>4. /\ to_device' \in Seq(Messages)
      /\ Range(to_device') = Range(to_device) \cup {m}
      /\ \A R : Ordered(to_device, R)
                  /\ (\A x \in Range(to_device) : <<x, m>> \in R)
               => Ordered(to_device', R)
  BY <1>1, <1>2, Types, Appended, Zenon DEF IsLonger
<1> QED
  BY <1>1, <1>2, <1>3, <1>4 DEF Wrote

\* The six steps of the client that write.
LEMMA Writing ==
  ASSUME TypeOK,
         \/ OpenSession \/ GotMaterial \/ Authenticate \/ SendCommand \/ SendQuery
         \/ AskToken /\ asked < RETRIES
  PROVE  \E k \in Kinds, a \in Nat :
           /\ Exchange(k, a)
           /\ k \in KeyExchange => Early /\ pc' \in KeyExchange
           /\ k \notin KeyExchange => ~Early /\ pc' = k
           /\ k = "33_b2" => a \in {0, 1}
           /\ IF k = "33_01" THEN role = "control" /\ a = asked + 1 /\ asked' = a
                                   /\ asked < MaxCmds
                                   /\ arrived' = [arrived EXCEPT ![a] = heard]
              ELSE /\ asked' = IF k = "aa_b1" THEN asked + 1 ELSE asked
                   /\ arrived' = arrived
                   /\ k = "aa_b1" => role = "pair" /\ asked < RETRIES
           /\ k = "33_00" => role = "poll"
           /\ k = "33_01" \/ k = "33_00" => Authed
           /\ UNCHANGED <<envVars, crypto, result, collected, token,
                          from_device, deviceVars, heard>>
<1> USE DEF Kinds, KeyExchange, Early, Authed
<1>0. asked \in Nat
  BY Types
<1>1. CASE OpenSession
  <2>1. Exchange("e7_01", 0)
    BY <1>1 DEF OpenSession
  <2> QED
    BY <1>1, <2>1 DEF OpenSession, historyVars
<1>2. CASE GotMaterial
  <2>1. Exchange("e7_02", 0)
    BY <1>2 DEF GotMaterial
  <2> QED
    BY <1>2, <2>1 DEF GotMaterial, historyVars
<1>3. CASE Authenticate
  <2>1. Exchange("33_b2", IF right THEN 1 ELSE 0)
    BY <1>3 DEF Authenticate
  <2>2. (IF right THEN 1 ELSE 0) \in {0, 1}
    OBVIOUS
  <2> QED
    BY <1>3, <2>1, <2>2 DEF Authenticate, historyVars
<1>4. CASE SendCommand
  <2>1. Exchange("33_01", asked + 1) /\ asked' = asked + 1
    BY <1>4 DEF SendCommand
  <2> QED
    <3>1. /\ pc = "ready" /\ role = "control" /\ asked < MaxCmds /\ pc' = "33_01"
          /\ arrived' = [arrived EXCEPT ![asked + 1] = heard]
          /\ UNCHANGED <<envVars, crypto, result, collected, token,
                         from_device, deviceVars, heard>>
      BY <1>4, <2>1 DEF SendCommand
    <3> "33_01" \in Kinds /\ asked + 1 \in Nat
      BY <1>0
    <3> WITNESS "33_01" \in Kinds, asked + 1 \in Nat
    <3> QED
      BY <2>1, <3>1
<1>5. CASE SendQuery
  <2>1. Exchange("33_00", 0)
    BY <1>5 DEF SendQuery
  <2> QED
    BY <1>5, <2>1 DEF SendQuery, historyVars
<1>6. CASE AskToken /\ asked < RETRIES
  <2>1. Exchange("aa_b1", 0) /\ asked' = asked + 1 /\ pc' = "aa_b1"
    BY <1>6 DEF AskToken
  <2> QED
    BY <1>6, <2>1 DEF AskToken, historyVars
<1> QED
  BY <1>1, <1>2, <1>3, <1>4, <1>5, <1>6

\* What arrives leaves the air for the queue, readable or as garbage.
LEMMA Notified ==
  ASSUME TypeOK, Notify
  PROVE  \E m \in Range(from_device), f \in Inbox :
           /\ m \in Messages
           /\ f = IF m.key = crypto THEN m.frame ELSE Garbage
           /\ q' \in Seq(Inbox)
           /\ from_device' \in Seq(Messages)
           /\ Range(q') = Range(q) \cup {f}
           /\ \A R : Ordered(q, R) /\ (\A x \in Range(q) : <<x, f>> \in R)
                       => Ordered(q', R)
           /\ \A x \in Range(from_device') : x \in Range(from_device)
           /\ \A R : Ordered(from_device, R) =>
                /\ Ordered(from_device', R)
                /\ \A x \in Range(from_device') : <<m, x>> \in R
           /\ heard' = IF f.kind = "33_01" /\ role = "control"
                       THEN heard \cup {f.arg} ELSE heard
<1> DEFINE m == Head(from_device)
           f == Decrypted(crypto, m)
<1>1. from_device # <<>> /\ from_device' = Tail(from_device)
      /\ q' = Append(q, f)
      /\ heard' = IF f.kind = "33_01" /\ role = "control"
                  THEN heard \cup {f.arg} ELSE heard
  BY DEF Notify
<1>2. /\ m \in Range(from_device) /\ m \in Messages
      /\ from_device' \in Seq(Messages)
      /\ \A x \in Range(from_device') : x \in Range(from_device)
      /\ \A R : Ordered(from_device, R) =>
           /\ Ordered(from_device', R)
           /\ \A x \in Range(from_device') : <<m, x>> \in R
  BY <1>1, Types, Taken, Zenon
<1>3. f \in Inbox
      /\ f = IF m.key = crypto THEN m.frame ELSE Garbage
  BY <1>2 DEF Decrypted, Messages, Inbox
<1> HIDE DEF m, f
<1>4. /\ q' \in Seq(Inbox)
      /\ Range(q') = Range(q) \cup {f}
      /\ \A R : Ordered(q, R) /\ (\A x \in Range(q) : <<x, f>> \in R)
                  => Ordered(q', R)
  <2>1. q \in Seq(Inbox) /\ f \in Inbox /\ q' = Append(q, f)
    BY <1>1, <1>3, Types
  <2> QED
    BY <2>1, Appended, Zenon DEF IsLonger
<1> QED
  BY <1>1, <1>2, <1>3, <1>4

\* Steps of the client that at most take a frame from the queue.
Looks ==
  \/ Drop \/ Rekey \/ SetPlaintext \/ Authenticated \/ AuthenticationTimeout
  \/ Acked \/ AckTimeout \/ Collect \/ QueryQuiet \/ GotToken \/ TokenTimeout

LEMMA Looking ==
  ASSUME TypeOK, Looks
  PROVE  /\ UNCHANGED <<envVars, asked, to_device, from_device, deviceVars,
                        historyVars>>
         /\ q' \in Seq(Inbox)
         /\ \A f \in Range(q') : f \in Range(q)
         /\ \A R : Ordered(q, R) => Ordered(q', R)
         /\ Early' => Early
<1>1. /\ UNCHANGED <<envVars, asked, to_device, from_device, deviceVars, historyVars>>
      /\ q' = q \/ (q # <<>> /\ q' = Tail(q))
      /\ Early' => Early
  BY DEF Looks, Drop, Rekey, SetPlaintext, Authenticated, AuthenticationTimeout, Acked,
         AckTimeout, Collect, QueryQuiet, GotToken, TokenTimeout, Received, Early
<1>2. CASE q' = q
  BY <1>1, <1>2, Types
<1>3. CASE q # <<>> /\ q' = Tail(q)
  BY <1>1, <1>3, Types, Taken, Zenon
<1> QED
  BY <1>1, <1>2, <1>3
\* A reply joins what is on the air.
LEMMA Replied ==
  ASSUME TypeOK, NEW k \in Kinds, NEW a \in Nat, Replies(k, a)
  PROVE  /\ from_device' \in Seq(Messages)
         /\ \E r \in Messages :
              /\ r.key = dev_key /\ r.frame.kind = k /\ r.frame.arg = a
              /\ Range(from_device') = Range(from_device) \cup {r}
              /\ \A R : Ordered(from_device, R)
                          /\ (\A x \in Range(from_device) : <<x, r>> \in R)
                       => Ordered(from_device', R)
<1> DEFINE r == Encrypted(dev_key, k, a)
<1>1. r \in Messages /\ r.key = dev_key /\ r.frame.kind = k /\ r.frame.arg = a
  BY Types DEF Encrypted, Messages, Frames
<1>2. from_device' = Append(from_device, r)
  BY DEF Replies
<1> HIDE DEF r
<1>3. /\ from_device' \in Seq(Messages)
      /\ Range(from_device') = Range(from_device) \cup {r}
      /\ \A R : Ordered(from_device, R)
                  /\ (\A x \in Range(from_device) : <<x, r>> \in R)
               => Ordered(from_device', R)
  BY <1>1, <1>2, Types, Appended, Zenon DEF IsLonger
<1> QED
  BY <1>1, <1>3

\* What the device does with the frame m, which it can read.
Answers(m, k, a) ==
  \/ k \in {"e7_01", "aa_b1"} /\ m.frame.kind = k /\ UNCHANGED deviceVars
  \/ /\ k = "e7_02" /\ m.frame.kind = k /\ ~legacy
     /\ dev_key' = "material" /\ UNCHANGED <<dev_authed, window, executed>>
  \/ /\ k = "33_b2" /\ m.frame.kind = k
     /\ dev_authed' = (dev_authed \/ legacy \/ m.frame.arg = 1)
     /\ ~legacy => a = 1 - m.frame.arg
     /\ UNCHANGED <<dev_key, window, executed>>
  \/ /\ k = "33_01" /\ m.frame.kind = k /\ a = m.frame.arg
     /\ executed' = Append(executed, a)
     /\ UNCHANGED <<dev_key, dev_authed, window>>
  \/ k = "33_01" /\ m.frame.kind = "33_00" /\ a = 0 /\ UNCHANGED deviceVars

\* The device takes the oldest frame, and answers it or not.
LEMMA Handled ==
  ASSUME TypeOK, Written, DeviceHandles
  PROVE  /\ UNCHANGED <<envVars, clientVars, historyVars>>
         /\ to_device' \in Seq(Messages)
         /\ \A x \in Range(to_device') : x \in Range(to_device)
         /\ \A R : Ordered(to_device, R) => Ordered(to_device', R)
         /\ \/ UNCHANGED <<from_device, deviceVars>>
            \/ \E m \in Range(to_device), k \in Kinds, a \in Nat :
                 /\ m \in Messages /\ m.key = dev_key
                 /\ \A R : Ordered(to_device, R)
                       => \A x \in Range(to_device') : <<m, x>> \in R
                 /\ Replies(k, a)
                 /\ Answers(m, k, a)
<1> DEFINE m == Head(to_device)
<1>1. /\ to_device # <<>> /\ to_device' = Tail(to_device)
      /\ Executes(Decrypted(dev_key, m))
      /\ UNCHANGED <<envVars, clientVars, historyVars>>
  BY DEF DeviceHandles
<1>2. /\ m \in Range(to_device) /\ m \in Messages
      /\ to_device' \in Seq(Messages)
      /\ \A x \in Range(to_device') : x \in Range(to_device)
      /\ \A R : Ordered(to_device, R) =>
           /\ Ordered(to_device', R)
           /\ \A x \in Range(to_device') : <<m, x>> \in R
  BY <1>1, Types, Taken, Zenon
<1> HIDE DEF m
<1>3. CASE m.key # dev_key
  <2>1. Executes(Garbage)
    BY <1>1, <1>3 DEF Decrypted
  <2>2. UNCHANGED <<from_device, deviceVars>>
    BY <2>1 DEF Executes, Garbage
  <2> QED
    BY <1>1, <1>2, <2>2
<1>4. CASE m.key = dev_key
  <2>1. Executes(m.frame)
    BY <1>1, <1>4 DEF Decrypted
  <2>2. m.frame.kind \in Kinds /\ m.frame.arg \in Nat
    BY <1>2 DEF Messages, Frames
  <2>3. m.frame.kind = "33_b2" => m.frame.arg \in {0, 1}
    BY <1>2 DEF Written
  <2>4. \/ UNCHANGED <<from_device, deviceVars>>
        \/ \E k \in Kinds, a \in Nat : Replies(k, a) /\ Answers(m, k, a)
    <3> USE DEF Answers
    <3>1. CASE m.frame.kind = "e7_01" /\ ~legacy
      <4>1. Replies("e7_01", 0) /\ UNCHANGED deviceVars
        BY <2>1, <3>1 DEF Executes
      <4> QED
        BY <3>1, <4>1 DEF Kinds
    <3>2. CASE m.frame.kind = "e7_02" /\ ~legacy
      <4>1. /\ Replies("e7_02", 0) /\ dev_key' = "material"
            /\ UNCHANGED <<dev_authed, window, executed>>
        BY <2>1, <3>2 DEF Executes
      <4> QED
        BY <3>2, <4>1 DEF Kinds
    <3>3. CASE m.frame.kind = "aa_b1"
      <4>1. Replies("aa_b1", IF window THEN 1 ELSE 0) /\ UNCHANGED deviceVars
        BY <2>1, <3>3 DEF Executes
      <4>2. (IF window THEN 1 ELSE 0) \in Nat
        OBVIOUS
      <4> QED
        BY <3>3, <4>1, <4>2 DEF Kinds
    <3>4. CASE m.frame.kind = "33_b2"
      <4>1. /\ dev_authed' = (dev_authed \/ legacy \/ m.frame.arg = 1)
            /\ Replies("33_b2", IF legacy THEN 7 ELSE 1 - m.frame.arg)
            /\ UNCHANGED <<dev_key, window, executed>>
        BY <2>1, <3>4 DEF Executes
      <4>2. (IF legacy THEN 7 ELSE 1 - m.frame.arg) \in Nat
        BY <2>3, <3>4
      <4> QED
        BY <3>4, <4>1, <4>2 DEF Kinds
    <3>5. CASE m.frame.kind = "33_01" /\ dev_authed
      <4>1. /\ executed' = Append(executed, m.frame.arg)
            /\ Replies("33_01", m.frame.arg)
            /\ UNCHANGED <<dev_key, dev_authed, window>>
        BY <2>1, <3>5 DEF Executes
      <4> QED
        BY <2>2, <3>5, <4>1 DEF Kinds
    <3>6. CASE m.frame.kind = "33_00" /\ dev_authed /\ ~legacy
      <4>1. Replies("33_01", 0) /\ UNCHANGED deviceVars
        BY <2>1, <3>6 DEF Executes
      <4> QED
        BY <3>6, <4>1 DEF Kinds
    <3>7. CASE /\ ~(m.frame.kind = "e7_01" /\ ~legacy)
               /\ ~(m.frame.kind = "e7_02" /\ ~legacy)
               /\ m.frame.kind # "aa_b1" /\ m.frame.kind # "33_b2"
               /\ ~(m.frame.kind = "33_01" /\ dev_authed)
               /\ ~(m.frame.kind = "33_00" /\ dev_authed /\ ~legacy)
      <4>1. UNCHANGED <<from_device, deviceVars>>
        BY <2>1, <3>7 DEF Executes
      <4> QED
        BY <4>1
    <3> QED
      BY <3>1, <3>2, <3>3, <3>4, <3>5, <3>6, <3>7
  <2> QED
    BY <1>1, <1>2, <1>4, <2>4
<1> QED
  BY <1>3, <1>4

\* If it answers, the answer r is that to the frame m.
LEMMA Answering ==
  ASSUME TypeOK, Written, DeviceHandles, ~UNCHANGED <<from_device, deviceVars>>
  PROVE  \E m \in Range(to_device), r \in Messages :
           /\ m \in Messages /\ m.key = dev_key /\ r.key = dev_key
           /\ \A R : Ordered(to_device, R)
                 => \A x \in Range(to_device') : <<m, x>> \in R
           /\ Answers(m, r.frame.kind, r.frame.arg)
           /\ Range(from_device') = Range(from_device) \cup {r}
           /\ \A R : Ordered(from_device, R)
                       /\ (\A x \in Range(from_device) : <<x, r>> \in R)
                    => Ordered(from_device', R)
<1>1. PICK m \in Range(to_device), k \in Kinds, a \in Nat :
        /\ m \in Messages /\ m.key = dev_key
        /\ \A R : Ordered(to_device, R)
              => \A x \in Range(to_device') : <<m, x>> \in R
        /\ Replies(k, a)
        /\ Answers(m, k, a)
  BY Handled, Zenon
<1>2. Replies(k, a)
  BY <1>1
<1>3. PICK r \in Messages :
        /\ r.key = dev_key /\ r.frame.kind = k /\ r.frame.arg = a
        /\ Range(from_device') = Range(from_device) \cup {r}
        /\ \A R : Ordered(from_device, R)
                    /\ (\A x \in Range(from_device) : <<x, r>> \in R)
                 => Ordered(from_device', R)
  BY <1>2, Replied
<1> QED
  BY <1>1, <1>3

\* A frame is lost on its way.
LEMMA Lost ==
  ASSUME TypeOK, FrameLost
  PROVE  /\ UNCHANGED <<envVars, clientVars, deviceVars, historyVars>>
         /\ to_device' \in Seq(Messages) /\ from_device' \in Seq(Messages)
         /\ \A x \in Range(to_device') : x \in Range(to_device)
         /\ \A x \in Range(from_device') : x \in Range(from_device)
         /\ \A R : Ordered(to_device, R) => Ordered(to_device', R)
         /\ \A R : Ordered(from_device, R) => Ordered(from_device', R)
<1>1. CASE to_device # <<>> /\ to_device' = Tail(to_device) /\ UNCHANGED from_device
  BY <1>1, Types, Taken DEF FrameLost
<1>2. CASE from_device # <<>> /\ from_device' = Tail(from_device)
           /\ UNCHANGED to_device
  BY <1>2, Types, Taken DEF FrameLost
<1> QED
  BY <1>1, <1>2 DEF FrameLost
----------------------------------------------------------------------------
(* Types.                                                                  *)

Writes ==
  \/ OpenSession \/ GotMaterial \/ Authenticate \/ SendCommand \/ SendQuery
  \/ AskToken /\ asked < RETRIES

\* fetch_token has asked often enough.
GivesUp ==
  /\ pc = "opened" /\ role = "pair" /\ pc' = "done"
  /\ UNCHANGED <<envVars, crypto, q, asked, result, collected, token,
                 to_device, from_device, deviceVars, historyVars>>

\* Every step is of one of these kinds.
LEMMA Steps ==
  ASSUME [Next]_vars
  PROVE  \/ Writes \/ GivesUp \/ Notify \/ Looks
         \/ DeviceHandles \/ Button \/ FrameLost \/ UNCHANGED vars
BY DEF Next, ClientStep, Writes, GivesUp, Looks, AskToken

LEMMA TypeStep ==
  ASSUME TypeOK, Protocol, Written, IF role = "control" THEN Acks ELSE NoResults,
         [Next]_vars
  PROVE  TypeOK'
<1> USE BoundsAssumption
<1>1. CASE Writes
  <2>1. PICK k \in Kinds, a \in Nat :
          /\ Exchange(k, a)
          /\ pc' \in {"e7_01", "e7_02", "33_b2", "33_01", "33_00", "aa_b1"}
          /\ IF k = "33_01" THEN role = "control" /\ asked' = asked + 1
                                 /\ asked < MaxCmds
                                 /\ arrived' = [arrived EXCEPT ![a] = heard]
             ELSE /\ asked' = IF k = "aa_b1" THEN asked + 1 ELSE asked
                  /\ arrived' = arrived
                  /\ k = "aa_b1" => role = "pair" /\ asked < RETRIES
          /\ UNCHANGED <<envVars, crypto, result, collected, token,
                         from_device, deviceVars, heard>>
    BY <1>1, Writing DEF Writes, KeyExchange, Kinds
  <2>2. q' \in Seq(Inbox) /\ to_device' \in Seq(Messages)
    BY <2>1, Exchanged, Zenon DEF Wrote
  <2>3. asked' \in 0..(IF role' = "pair" THEN RETRIES ELSE MaxCmds)
    BY <2>1 DEF TypeOK, envVars
  <2>4. arrived' \in [Cmds -> SUBSET Cmds]
    BY <2>1 DEF TypeOK
  <2> QED
    BY <2>1, <2>2, <2>3, <2>4 DEF TypeOK, envVars, deviceVars, Messages, Inbox
<1>2. CASE GivesUp
  BY <1>2 DEF GivesUp, TypeOK, envVars, deviceVars, historyVars
<1>3. CASE Notify
  <2>1. PICK m \in Range(from_device), f \in Inbox :
          /\ m \in Messages
          /\ f = IF m.key = crypto THEN m.frame ELSE Garbage
          /\ q' \in Seq(Inbox) /\ from_device' \in Seq(Messages)
          /\ heard' = IF f.kind = "33_01" /\ role = "control"
                      THEN heard \cup {f.arg} ELSE heard
    BY <1>3, Notified, Zenon
  <2>2. heard' \subseteq Cmds
    <3>1. CASE f.kind = "33_01" /\ role = "control"
      <4>1. m.frame.kind = "33_01" /\ f.arg = m.frame.arg
        BY <2>1, <3>1 DEF Garbage
      <4>2. f.arg \in 1..asked
        BY <3>1, <4>1 DEF Acks
      <4>3. asked <= MaxCmds /\ asked \in Nat
        BY <3>1 DEF TypeOK
      <4>4. f.arg \in Cmds
        BY <4>2, <4>3 DEF Cmds
      <4> QED
        BY <2>1, <3>1, <4>4, Types
    <3>2. CASE ~(f.kind = "33_01" /\ role = "control")
      BY <2>1, <3>2 DEF TypeOK
    <3> QED
      BY <3>1, <3>2
  <2> QED
    BY <1>3, <2>1, <2>2 DEF Notify, TypeOK, envVars, deviceVars, Messages, Inbox
<1>4. CASE Looks
  <2>1. /\ UNCHANGED <<envVars, asked, to_device, from_device, deviceVars,
                       historyVars>>
        /\ q' \in Seq(Inbox)
    BY <1>4, Looking, Zenon
  <2>2. /\ pc' \in {"opened", "ready", "failed", "done"} \cup {pc}
        /\ crypto' \in {"material", "plain"} \cup {crypto}
        /\ token' \in {"right"} \cup {token}
    BY <1>4 DEF Looks, Drop, Rekey, SetPlaintext, Authenticated,
                AuthenticationTimeout, Acked, AckTimeout, Collect, QueryQuiet,
                GotToken, TokenTimeout
  <2>3. q # <<>> => Head(q) \in Inbox /\ Head(q) \in Range(q)
    BY Types, Taken, Zenon
  <2>4. result' \in [Cmds -> 0..MaxCmds]
    <3>1. CASE Acked
      <4>1. /\ pc = "33_01" /\ q # <<>> /\ Head(q).kind = "33_01"
            /\ result' = [result EXCEPT ![asked] = Head(q).arg]
        BY <3>1 DEF Acked, Received, Matches
      <4>2. Head(q).arg \in heard
        BY <2>3, <4>1 DEF Acks, Protocol
      <4>3. Head(q).arg \in 0..MaxCmds
        BY <4>2, Types DEF Cmds
      <4> QED
        BY <4>1, <4>3 DEF TypeOK
    <3>2. CASE ~Acked
      <4>1. result' = result
        BY <1>4, <3>2 DEF Looks, Drop, Rekey, SetPlaintext, Authenticated,
                AuthenticationTimeout, AckTimeout, Collect, QueryQuiet,
                GotToken, TokenTimeout
      <4> QED
        BY <4>1 DEF TypeOK
    <3> QED
      BY <3>1, <3>2
  <2>5. collected' \in Seq(Frames)
    <3>1. CASE Collect
      <4>1. q # <<>>
            /\ collected' = IF Head(q).kind = "33_01" THEN Append(collected, Head(q))
                                                      ELSE collected
        BY <3>1 DEF Collect
      <4>2. Head(q).kind = "33_01" => Head(q) \in Frames
        BY <2>3, <4>1 DEF Inbox, Garbage
      <4>3. Head(q) \in Frames => Append(collected, Head(q)) \in Seq(Frames)
        BY Types, AppendProperties
      <4> QED
        BY <4>1, <4>2, <4>3, Types
    <3>2. CASE ~Collect
      <4>1. collected' = collected
        BY <1>4, <3>2 DEF Looks, Drop, Rekey, SetPlaintext, Authenticated,
                AuthenticationTimeout, Acked, AckTimeout, QueryQuiet,
                GotToken, TokenTimeout
      <4> QED
        BY <4>1 DEF TypeOK
    <3> QED
      BY <3>1, <3>2
  <2> QED
    BY <2>1, <2>2, <2>4, <2>5
    DEF TypeOK, envVars, deviceVars, historyVars, Messages, Inbox, Keys
<1>5. CASE DeviceHandles
  <2>1. /\ UNCHANGED <<envVars, clientVars, historyVars>>
        /\ to_device' \in Seq(Messages)
    BY <1>5, Handled, Zenon
  <2>2. CASE UNCHANGED <<from_device, deviceVars>>
    BY <2>1, <2>2 DEF TypeOK, envVars, clientVars, deviceVars, historyVars, Messages
  <2>3. CASE ~UNCHANGED <<from_device, deviceVars>>
    <3>1. PICK m \in Range(to_device), k \in Kinds, a \in Nat :
            Replies(k, a) /\ Answers(m, k, a)
      BY <1>5, <2>3, Handled, Zenon
    <3>2. from_device' \in Seq(Messages)
      BY <3>1, Replied, Zenon
    <3>3. executed' \in Seq(Cmds)
      <4>1. CASE UNCHANGED executed
        BY <4>1, Types
      <4>2. CASE ~UNCHANGED executed
        <5>1. /\ m.frame.kind = "33_01" /\ executed' = Append(executed, m.frame.arg)
          BY <3>1, <4>2 DEF Answers, deviceVars
        <5>2. m.frame.arg \in Cmds
          BY <5>1 DEF Written, TypeOK, Cmds
        <5> QED
          BY <5>1, <5>2, Types, AppendProperties
      <4> QED
        BY <4>1, <4>2
    <3>4. /\ dev_key' \in Keys /\ dev_authed' \in BOOLEAN /\ window' = window
      BY <3>1 DEF Answers, deviceVars, TypeOK, Keys
    <3> QED
      BY <2>1, <3>2, <3>3, <3>4
      DEF TypeOK, envVars, clientVars, historyVars, Messages
  <2> QED
    BY <2>2, <2>3
<1>6. CASE Button
  BY <1>6 DEF Button, TypeOK, envVars, clientVars, historyVars
<1>7. CASE FrameLost
  <2>1. /\ UNCHANGED <<envVars, clientVars, deviceVars, historyVars>>
        /\ to_device' \in Seq(Messages) /\ from_device' \in Seq(Messages)
    BY <1>7, Lost, Zenon
  <2> QED
    BY <2>1 DEF TypeOK, envVars, clientVars, deviceVars, historyVars, Messages
<1>8. CASE UNCHANGED vars
  BY <1>8 DEF vars, TypeOK, envVars, clientVars, deviceVars, historyVars
<1> QED
  BY <1>1, <1>2, <1>3, <1>4, <1>5, <1>6, <1>7, <1>8, Steps
----------------------------------------------------------------------------
(* The order of what is on the air and in the queue.                       *)

LEMMA OrderStep == IndInv /\ [Next]_vars => InOrder'
<1> SUFFICES ASSUME IndInv, [Next]_vars PROVE InOrder'
  OBVIOUS
<1>0. TypeOK /\ InOrder /\ Written /\ (role = "control" => Acks)
  BY DEF IndInv
<1>1. role' = role
  BY DEF Next, ClientStep, vars, envVars, Notify, Drop, OpenSession, GotMaterial, Rekey,
         SetPlaintext, Authenticate, Authenticated, AuthenticationTimeout, Acked,
         AckTimeout, SendQuery, Collect, QueryQuiet, AskToken, GotToken, TokenTimeout,
         SendCommand, DeviceHandles, Button, FrameLost
<1>2. SUFFICES /\ Ordered(to_device', AsWritten)
               /\ Ordered(from_device', AsAnswered)
               /\ Ordered(q', AsReceived)
  BY <1>1 DEF InOrder, Ordered, AsAnswered, AsReceived
<1>3. /\ Ordered(to_device, AsWritten) /\ Ordered(from_device, AsAnswered)
      /\ Ordered(q, AsReceived)
  BY <1>0 DEF InOrder
<1>4. CASE Writes
  <2>1. PICK k \in Kinds, a \in Nat :
          /\ Exchange(k, a)
          /\ k \in KeyExchange => Early
          /\ k = "33_01" => a = asked + 1
          /\ UNCHANGED from_device
    BY <1>0, <1>4, Writing DEF Writes
  <2>2. PICK m \in Messages :
          /\ m.frame.kind = k /\ m.frame.arg = a
          /\ \A R : Ordered(to_device, R)
                      /\ (\A x \in Range(to_device) : <<x, m>> \in R)
                   => Ordered(to_device', R)
    <3>1. Wrote(k, a)
      BY <1>0, <2>1, Exchanged, Zenon
    <3> QED
      BY <3>1 DEF Wrote
  <2>3. Ordered(q', AsReceived)
    <3>1. Wrote(k, a)
      BY <1>0, <2>1, Exchanged, Zenon
    <3> QED
      BY <3>1 DEF Wrote
  <2>4. ASSUME NEW x \in Range(to_device) PROVE <<x, m>> \in AsWritten
    <3>1. x \in Messages
      BY <1>0, Types, RangeOfSeq
    <3>2. k \in KeyExchange => x.frame.kind \in KeyExchange
      BY <1>0, <2>1, <2>4 DEF Written
    <3>3. x.frame.kind = "33_01" /\ k = "33_01" => x.frame.arg < a
      BY <1>0, <2>1, <2>4, <3>1, Types DEF Written, Messages, Frames
    <3> QED
      BY <2>2, <3>1, <3>2, <3>3 DEF AsWritten
  <2> QED
    BY <1>3, <2>1, <2>2, <2>3, <2>4
<1>5. CASE Notify
  <2>1. PICK m \in Range(from_device), f \in Inbox :
          /\ m \in Messages
          /\ f = IF m.key = crypto THEN m.frame ELSE Garbage
          /\ (\A x \in Range(q) : <<x, f>> \in AsReceived) => Ordered(q', AsReceived)
          /\ Ordered(from_device', AsAnswered)
    BY <1>0, <1>3, <1>5, Notified, Zenon
  <2>2. ASSUME NEW x \in Range(q) PROVE <<x, f>> \in AsReceived
    <3>1. x \in Inbox
      BY <1>0, Types, RangeOfSeq
    <3>2. CASE role = "control" /\ x.kind = "33_01" /\ f.kind = "33_01"
      <4>1. f.arg = m.frame.arg /\ m.frame.kind = "33_01"
        BY <2>1, <3>2 DEF Garbage
      <4>2. x.arg < f.arg
        BY <1>0, <2>1, <2>2, <3>2, <4>1 DEF Acks, OlderThanAir
      <4> QED
        BY <3>1, <4>2 DEF AsReceived, Inbox
    <3> QED
      BY <3>1, <3>2 DEF AsReceived, Inbox
  <2> QED
    BY <1>3, <1>5, <2>1, <2>2 DEF Notify
<1>6. CASE Looks
  <2>1. to_device' = to_device /\ from_device' = from_device /\ Ordered(q', AsReceived)
    <3>1. UNCHANGED <<envVars, asked, to_device, from_device, deviceVars, historyVars>>
      BY <1>0, <1>6, Looking, Zenon
    <3>2. Ordered(q', AsReceived)
      BY <1>0, <1>3, <1>6, Looking, Zenon
    <3> QED
      BY <3>1, <3>2
  <2> QED
    BY <1>3, <2>1
<1>7. CASE DeviceHandles
  <2>1. q' = q /\ Ordered(to_device', AsWritten)
    <3>1. UNCHANGED <<envVars, clientVars, historyVars>>
          /\ Ordered(to_device', AsWritten)
      BY <1>0, <1>3, <1>7, Handled, Zenon
    <3> QED
      BY <3>1 DEF clientVars
  <2>2. CASE UNCHANGED from_device
    BY <1>3, <2>1, <2>2
  <2>3. CASE ~UNCHANGED from_device
    <3>1. ~UNCHANGED <<from_device, deviceVars>>
      BY <2>3
    <3>2. PICK m \in Range(to_device), r \in Messages :
            /\ m \in Messages /\ r.key = dev_key
            /\ Answers(m, r.frame.kind, r.frame.arg)
            /\ \A R : Ordered(from_device, R)
                        /\ (\A x \in Range(from_device) : <<x, r>> \in R)
                     => Ordered(from_device', R)
      BY <1>0, <1>7, <3>1, Answering, Zenon
    <3>3. ASSUME NEW x \in Range(from_device) PROVE <<x, r>> \in AsAnswered
      <4>1. x \in Messages
        BY <1>0, Types, RangeOfSeq
      <4>2. x.frame.kind = "33_b2" => r.key = x.key
        BY <3>2, <3>3 DEF IndInv, Authentication, Confirms, Paired
      <4>3. role = "control" /\ x.frame.kind = "33_01" /\ r.frame.kind = "33_01"
              => x.frame.arg < r.frame.arg
        <5> SUFFICES ASSUME role = "control", x.frame.kind = "33_01",
                            r.frame.kind = "33_01"
                     PROVE  x.frame.arg < r.frame.arg
          OBVIOUS
        <5>1. m.frame.kind = "33_01" /\ r.frame.arg = m.frame.arg
          BY <1>0, <3>2 DEF Answers, Written
        <5> QED
          BY <1>0, <3>3, <5>1 DEF Acks
      <4> QED
        BY <3>2, <4>1, <4>2, <4>3 DEF AsAnswered
    <3> QED
      BY <2>1, <1>3, <3>2, <3>3
  <2> QED
    BY <2>2, <2>3
<1>8. CASE FrameLost
  <2>1. /\ UNCHANGED <<envVars, clientVars, deviceVars, historyVars>>
        /\ Ordered(to_device', AsWritten) /\ Ordered(from_device', AsAnswered)
    BY <1>0, <1>3, <1>8, Lost, Zenon
  <2> QED
    BY <1>3, <2>1 DEF clientVars
<1>9. CASE GivesUp \/ Button \/ UNCHANGED vars
  BY <1>3, <1>9 DEF GivesUp, Button, vars, clientVars
<1> QED
  BY <1>4, <1>5, <1>6, <1>7, <1>8, <1>9, Steps
----------------------------------------------------------------------------
(* The protocol, what was written, and the keys.                           *)

LEMMA ProtocolStep == IndInv /\ [Next]_vars => Protocol' /\ Written'
<1> SUFFICES ASSUME IndInv, [Next]_vars PROVE Protocol' /\ Written'
  OBVIOUS
<1>0. TypeOK /\ Protocol /\ Written /\ asked \in Nat
  BY Types DEF IndInv
<1>1. CASE Writes
  <2>1. PICK k \in Kinds, a \in Nat :
          /\ Exchange(k, a)
          /\ k \in KeyExchange => Early /\ pc' \in KeyExchange
          /\ k \notin KeyExchange => ~Early /\ pc' = k
          /\ k = "33_b2" => a \in {0, 1}
          /\ IF k = "33_01" THEN role = "control" /\ a = asked + 1 /\ asked' = a
                                 /\ asked < MaxCmds
             ELSE asked' = (IF k = "aa_b1" THEN asked + 1 ELSE asked)
                  /\ (k = "aa_b1" => role = "pair")
          /\ k = "33_00" => role = "poll"
          /\ UNCHANGED <<role, legacy, crypto, dev_key>>
    BY <1>0, <1>1, Writing DEF Writes, envVars, deviceVars
  <2>2. PICK m \in Messages :
          /\ m.key = crypto /\ m.frame.kind = k /\ m.frame.arg = a
          /\ Range(to_device') = Range(to_device) \cup {m}
    <3>1. Wrote(k, a)
      BY <1>0, <2>1, Exchanged, Zenon
    <3> QED
      BY <3>1 DEF Wrote
  <2>3. Protocol'
    <3>1. Early' => Early
      BY <2>1 DEF Early, KeyExchange, Kinds
    <3>2. pc' = "33_01" => k = "33_01"
      BY <2>1 DEF KeyExchange
    <3>3. (pc' = "33_00" => k = "33_00") /\ (pc' = "aa_b1" => k = "aa_b1")
      BY <2>1 DEF KeyExchange
    <3>4. k = "33_01" => asked' \in Cmds
      BY <1>0, <2>1, BoundsAssumption DEF Cmds
    <3> QED
      BY <1>0, <2>1, <3>1, <3>2, <3>3, <3>4 DEF Protocol
  <2>4. Written'
    <3> SUFFICES ASSUME NEW x \in Range(to_device')
                 PROVE  /\ x.frame.kind \in KeyExchange => x.key = "initial"
                        /\ x.frame.kind \notin KeyExchange
                             => ~Early' /\ x.key = crypto'
                        /\ x.frame.kind = "33_b2" => x.frame.arg \in {0, 1}
                        /\ x.frame.kind = "33_01"
                             => role' = "control" /\ x.frame.arg \in 1..asked'
                        /\ x.frame.kind = "33_00" => role' = "poll"
      BY DEF Written
    <3>1. Early' <=> k \in KeyExchange
      BY <2>1 DEF Early, KeyExchange, Kinds
    <3>2. CASE x = m
      BY <1>0, <2>1, <2>2, <3>1, <3>2 DEF Protocol, KeyExchange
    <3>3. CASE x \in Range(to_device)
      <4>1. asked' \in Nat /\ asked <= asked'
        BY <1>0, <2>1
      <4>2. x.frame.kind = "33_01" => x.frame.arg \in 1..asked'
        BY <1>0, <3>3, <4>1 DEF Written
      <4>3. x.frame.kind \notin KeyExchange => ~Early'
        BY <1>0, <2>1, <3>1, <3>3 DEF Written
      <4> QED
        BY <1>0, <2>1, <3>3, <4>2, <4>3 DEF Written
    <3> QED
      BY <2>2, <3>2, <3>3
  <2> QED
    BY <2>3, <2>4
<1>2. CASE Looks
  <2>1. /\ UNCHANGED <<envVars, asked, to_device, from_device, deviceVars,
                       historyVars>>
        /\ Early' => Early
    BY <1>0, <1>2, Looking, Zenon
  <2>2. /\ crypto' # crypto => Early /\ ~Early'
        /\ pc' = pc \/ pc' \in {"opened", "ready", "failed", "done"}
    BY <1>2 DEF Looks, Drop, Rekey, SetPlaintext, Authenticated,
                AuthenticationTimeout, Acked, AckTimeout, Collect, QueryQuiet,
                GotToken, TokenTimeout, Early
  <2> QED
    BY <1>0, <2>1, <2>2 DEF Protocol, Written, envVars, deviceVars
<1>3. CASE DeviceHandles
  <2>1. /\ UNCHANGED <<envVars, clientVars, historyVars>>
        /\ \A x \in Range(to_device') : x \in Range(to_device)
    BY <1>0, <1>3, Handled, Zenon
  <2>2. dev_key' \in IF legacy THEN {"plain"} ELSE {"initial", "material"}
    <3>1. CASE UNCHANGED <<from_device, deviceVars>>
      BY <1>0, <3>1 DEF Protocol, deviceVars
    <3>2. CASE ~UNCHANGED <<from_device, deviceVars>>
      <4>1. PICK m \in Range(to_device), r \in Messages :
              Answers(m, r.frame.kind, r.frame.arg)
        BY <1>0, <1>3, <3>2, Answering, Zenon
      <4> QED
        BY <1>0, <4>1 DEF Answers, Protocol, deviceVars
    <3> QED
      BY <3>1, <3>2
  <2> QED
    BY <1>0, <2>1, <2>2 DEF Protocol, Written, Early, envVars, clientVars
<1>4. CASE FrameLost
  <2>1. /\ UNCHANGED <<envVars, clientVars, deviceVars, historyVars>>
        /\ \A x \in Range(to_device') : x \in Range(to_device)
    BY <1>0, <1>4, Lost, Zenon
  <2> QED
    BY <1>0, <2>1 DEF Protocol, Written, Early, envVars, clientVars, deviceVars
<1>5. CASE GivesUp \/ Notify \/ Button \/ UNCHANGED vars
  BY <1>0, <1>5 DEF GivesUp, Notify, Button, vars, Protocol, Written, Early,
                    envVars, clientVars, deviceVars
<1> QED
  BY <1>1, <1>2, <1>3, <1>4, <1>5, Steps
\* A step that leaves the keys alone, and on the air and in the queue at most
\* takes something away, leaves the answers to the authentication true.
LEMMA AuthenticationKept ==
  ASSUME Authentication,
         UNCHANGED <<crypto, dev_key, dev_authed, legacy>>, Early' => Early,
         \A x \in Range(to_device') :
           x \in Range(to_device) \/ x.frame.kind \notin KeyExchange,
         \A x \in Range(from_device') : x \in Range(from_device),
         \A f \in Range(q') : f \in Range(q),
         Authed' => Authed
  PROVE  Authentication'
<1>1. Paired => Paired'
  BY DEF Paired
<1>2. AnsweredAlike => AnsweredAlike'
  BY DEF AnsweredAlike
<1>3. ASSUME NEW m \in Range(from_device'), m.frame.kind = "33_b2"
      PROVE  m.key = crypto' /\ Confirms(m.frame)'
  BY <1>1, <1>3 DEF Authentication, Confirms
<1>4. ASSUME NEW f \in Range(q'), f.kind = "33_b2"
      PROVE  Confirms(f)' /\ AnsweredAlike'
  BY <1>1, <1>2, <1>4 DEF Authentication, Confirms
<1>5. Authed' => Paired' /\ AnsweredAlike' /\ dev_authed'
  BY <1>1, <1>2 DEF Authentication
<1> QED
  BY <1>3, <1>4, <1>5 DEF Authentication

LEMMA AuthenticationStep == IndInv /\ [Next]_vars => Authentication'
<1> SUFFICES ASSUME IndInv, [Next]_vars PROVE Authentication'
  OBVIOUS
<1>0. TypeOK /\ Protocol /\ InOrder /\ Written /\ Authentication
  BY DEF IndInv
<1>1. CASE Writes
  <2>1. PICK k \in Kinds, a \in Nat :
          /\ Exchange(k, a)
          /\ k \in KeyExchange => Early /\ pc' \in KeyExchange
          /\ k \notin KeyExchange => ~Early /\ pc' = k
          /\ k \in {"33_01", "33_00"} => Authed
          /\ UNCHANGED <<role, legacy, crypto, from_device, dev_key, dev_authed>>
    BY <1>0, <1>1, Writing DEF Writes, envVars, deviceVars
  <2>2. PICK m \in Messages :
          /\ m.frame.kind = k
          /\ Range(to_device') = Range(to_device) \cup {m}
          /\ Range(q') = {}
    <3>1. Wrote(k, a)
      BY <1>0, <2>1, Exchanged, Zenon
    <3> QED
      BY <3>1 DEF Wrote
  <2>3. Authed' => Authed
    BY <2>1 DEF Authed, KeyExchange, Kinds
  <2>4. CASE k \notin KeyExchange
    <3>1. ~Early'
      BY <2>1, <2>4 DEF Early, KeyExchange, Kinds
    <3> QED
      BY <1>0, <2>1, <2>2, <2>3, <2>4, <3>1, AuthenticationKept
  <2>5. CASE k \in KeyExchange
    <3>1. Early /\ ~Authed'
      BY <2>1, <2>5 DEF Authed, KeyExchange
    <3>2. \A x \in Range(from_device) : x.frame.kind # "33_b2"
      BY <1>0, <3>1 DEF Authentication, Confirms, Paired
    <3> QED
      BY <2>1, <2>2, <3>1, <3>2 DEF Authentication
  <2> QED
    BY <2>4, <2>5
<1>2. CASE Notify
  <2>1. PICK m \in Range(from_device), f \in Inbox :
          /\ m \in Messages
          /\ f = IF m.key = crypto THEN m.frame ELSE Garbage
          /\ Range(q') = Range(q) \cup {f}
          /\ \A x \in Range(from_device') : x \in Range(from_device)
          /\ \A R : Ordered(from_device, R) =>
               \A x \in Range(from_device') : <<m, x>> \in R
    BY <1>0, <1>2, Notified, Zenon
  <2>2. UNCHANGED <<role, legacy, pc, crypto, to_device, dev_key, dev_authed>>
    BY <1>2 DEF Notify, envVars, deviceVars
  <2>3. /\ Paired => Paired'
        /\ AnsweredAlike => AnsweredAlike'
        /\ Authed' => Authed
    BY <2>1, <2>2 DEF Paired, Early, AnsweredAlike, Authed
  <2>4. ASSUME f.kind = "33_b2" PROVE Confirms(f)' /\ AnsweredAlike'
    <3>1. f = m.frame /\ m.key = crypto /\ m.frame.kind = "33_b2"
      BY <2>1, <2>4 DEF Garbage
    <3>2. Confirms(f)'
      BY <1>0, <2>1, <2>2, <2>3, <3>1 DEF Authentication, Confirms
    <3>3. ASSUME NEW x \in Range(from_device') PROVE x.key = crypto
      <4>1. <<m, x>> \in AsAnswered
        BY <1>0, <2>1, <3>3 DEF InOrder
      <4> QED
        BY <3>1, <4>1 DEF AsAnswered
    <3> QED
      BY <2>2, <3>2, <3>3 DEF AnsweredAlike
  <2>5. ASSUME NEW x \in Range(q'), x.kind = "33_b2"
        PROVE  Confirms(x)' /\ AnsweredAlike'
    <3>1. CASE x \in Range(q)
      BY <1>0, <2>2, <2>3, <2>5, <3>1 DEF Authentication, Confirms
    <3>2. CASE x = f
      BY <2>4, <2>5, <3>2
    <3> QED
      BY <2>1, <3>1, <3>2
  <2>6. ASSUME NEW x \in Range(from_device'), x.frame.kind = "33_b2"
        PROVE  x.key = crypto' /\ Confirms(x.frame)'
    BY <1>0, <2>1, <2>2, <2>3, <2>6 DEF Authentication, Confirms
  <2>7. Authed' => Paired' /\ AnsweredAlike' /\ dev_authed'
    BY <1>0, <2>2, <2>3 DEF Authentication
  <2> QED
    BY <2>5, <2>6, <2>7 DEF Authentication
<1>3. CASE Looks
  <2>1. /\ UNCHANGED <<envVars, asked, to_device, from_device, deviceVars,
                       historyVars>>
        /\ \A f \in Range(q') : f \in Range(q)
        /\ Early' => Early
    BY <1>0, <1>3, Looking, Zenon
  <2>2. CASE Rekey \/ SetPlaintext
    <3>1. Early /\ pc' = "opened"
      BY <2>2 DEF Rekey, SetPlaintext, Early
    <3>2. /\ \A x \in Range(from_device) : x.frame.kind # "33_b2"
          /\ \A f \in Range(q) : f.kind # "33_b2"
      BY <1>0, <3>1 DEF Authentication, Confirms, Paired
    <3>3. ~Authed'
      BY <3>1 DEF Authed
    <3> QED
      BY <2>1, <3>2, <3>3 DEF Authentication
  <2>3. CASE ~(Rekey \/ SetPlaintext)
    <3>1. crypto' = crypto
      BY <1>3, <2>3 DEF Looks, Drop, Authenticated, AuthenticationTimeout,
                Acked, AckTimeout, Collect, QueryQuiet, GotToken, TokenTimeout
    <3>2. CASE Authed' => Authed
      BY <1>0, <2>1, <3>1, <3>2, AuthenticationKept DEF envVars, deviceVars
    <3>3. CASE Authed' /\ ~Authed
      <4>1. Authenticated /\ pc' = "ready"
        BY <1>0, <1>3, <2>1, <2>3, <3>3
        DEF Looks, Drop, Authenticated, AuthenticationTimeout, Acked, AckTimeout,
            Collect, QueryQuiet, GotToken, TokenTimeout, Authed, Protocol, envVars
      <4>2. /\ q # <<>> /\ Head(q).kind = "33_b2"
            /\ crypto = "plain" \/ Head(q).arg = 0
        BY <4>1 DEF Authenticated, Received, Matches
      <4>3. Head(q) \in Range(q)
        BY <1>0, <4>2, Types, Taken, Zenon
      <4>4. Confirms(Head(q)) /\ AnsweredAlike
        BY <1>0, <4>2, <4>3 DEF Authentication
      <4>5. crypto = "plain" => legacy
        BY <1>0, <4>4 DEF Confirms, Paired, Protocol
      <4>6. Paired /\ dev_authed
        BY <4>2, <4>4, <4>5 DEF Confirms
      <4>7. Paired' /\ AnsweredAlike' /\ dev_authed'
        BY <2>1, <3>1, <4>4, <4>6 DEF Paired, AnsweredAlike, envVars, deviceVars
      <4> QED
        BY <1>0, <2>1, <3>1, <4>7
        DEF Authentication, Confirms, envVars, deviceVars
    <3> QED
      BY <3>2, <3>3
  <2> QED
    BY <2>2, <2>3
<1>4. CASE DeviceHandles
  <2>1. /\ UNCHANGED <<envVars, clientVars, historyVars>>
        /\ \A x \in Range(to_device') : x \in Range(to_device)
    BY <1>0, <1>4, Handled, Zenon
  <2>2. UNCHANGED <<role, legacy, pc, crypto, q>>
    BY <2>1 DEF envVars, clientVars
  <2>3. (Early' <=> Early) /\ (Authed' <=> Authed)
    BY <2>2 DEF Early, Authed
  <2>4. CASE UNCHANGED <<from_device, deviceVars>>
    BY <1>0, <2>1, <2>2, <2>3, <2>4, AuthenticationKept DEF deviceVars
  <2>5. CASE ~UNCHANGED <<from_device, deviceVars>>
    <3>1. PICK m \in Range(to_device), r \in Messages :
            /\ m \in Messages /\ m.key = dev_key /\ r.key = dev_key
            /\ \A R : Ordered(to_device, R)
                  => \A x \in Range(to_device') : <<m, x>> \in R
            /\ Answers(m, r.frame.kind, r.frame.arg)
            /\ Range(from_device') = Range(from_device) \cup {r}
      BY <1>0, <1>4, <2>5, Answering, Zenon
    <3>2. dev_authed => dev_authed'
      BY <3>1 DEF Answers, deviceVars
    <3>3. Paired => Paired' /\ r.key = crypto
      <4>1. Paired => m.frame.kind \notin KeyExchange
        BY DEF Paired
      <4>2. m.frame.kind \notin KeyExchange => dev_key' = dev_key
        BY <3>1 DEF Answers, KeyExchange, deviceVars
      <4> QED
        BY <2>1, <2>2, <2>3, <3>1, <4>1, <4>2 DEF Paired
    <3>4. Paired /\ AnsweredAlike => AnsweredAlike'
      BY <2>2, <3>1, <3>3 DEF AnsweredAlike
    <3>5. ASSUME r.frame.kind = "33_b2" PROVE r.key = crypto /\ Confirms(r.frame)'
      <4>1. /\ m.frame.kind = "33_b2" /\ dev_key' = dev_key
            /\ dev_authed' = (dev_authed \/ legacy \/ m.frame.arg = 1)
            /\ ~legacy => r.frame.arg = 1 - m.frame.arg
        BY <3>1, <3>5 DEF Answers
      <4>2. ~Early /\ m.key = crypto /\ m.frame.arg \in {0, 1}
        BY <1>0, <4>1 DEF Written, KeyExchange
      <4>3. ASSUME NEW x \in Range(to_device') PROVE x.frame.kind \notin KeyExchange
        <5>1. <<m, x>> \in AsWritten
          BY <1>0, <3>1, <4>3 DEF InOrder
        <5> QED
          BY <4>1, <5>1 DEF AsWritten, KeyExchange
      <4>4. Paired'
        BY <2>2, <2>3, <3>1, <4>1, <4>2, <4>3 DEF Paired
      <4>5. legacy \/ r.frame.arg = 0 => dev_authed'
        <5>1. ~legacy /\ r.frame.arg = 0 => m.frame.arg = 1
          BY <4>1, <4>2
        <5> QED
          BY <4>1, <5>1, Zenon
      <4> QED
        BY <2>2, <3>1, <4>2, <4>4, <4>5 DEF Confirms
    <3>6. ASSUME NEW x \in Range(from_device'), x.frame.kind = "33_b2"
          PROVE  x.key = crypto' /\ Confirms(x.frame)'
      <4>1. CASE x = r
        BY <2>2, <3>5, <3>6, <4>1
      <4>2. CASE x \in Range(from_device)
        BY <1>0, <2>2, <3>2, <3>3, <3>6, <4>2 DEF Authentication, Confirms
      <4> QED
        BY <3>1, <4>1, <4>2
    <3>7. ASSUME NEW f \in Range(q'), f.kind = "33_b2"
          PROVE  Confirms(f)' /\ AnsweredAlike'
      BY <1>0, <2>2, <3>2, <3>3, <3>4, <3>7 DEF Authentication, Confirms
    <3>8. Authed' => Paired' /\ AnsweredAlike' /\ dev_authed'
      BY <1>0, <2>3, <3>2, <3>3, <3>4 DEF Authentication
    <3> QED
      BY <3>6, <3>7, <3>8 DEF Authentication
  <2> QED
    BY <2>4, <2>5
<1>5. CASE FrameLost
  <2>1. /\ UNCHANGED <<envVars, clientVars, deviceVars, historyVars>>
        /\ \A x \in Range(to_device') : x \in Range(to_device)
        /\ \A x \in Range(from_device') : x \in Range(from_device)
    BY <1>0, <1>5, Lost, Zenon
  <2>2. (Early' => Early) /\ (Authed' => Authed)
    BY <2>1 DEF Early, Authed, envVars, clientVars
  <2> QED
    BY <1>0, <2>1, <2>2, AuthenticationKept DEF envVars, clientVars, deviceVars
<1>6. CASE GivesUp \/ Button \/ UNCHANGED vars
  <2>1. /\ UNCHANGED <<legacy, crypto, q, to_device, from_device, dev_key, dev_authed>>
        /\ (Early' => Early) /\ (Authed' => Authed)
    BY <1>6 DEF GivesUp, Button, vars, envVars, clientVars, deviceVars, Early, Authed
  <2> QED
    BY <1>0, <2>1, AuthenticationKept
<1> QED
  BY <1>1, <1>2, <1>3, <1>4, <1>5, <1>6, Steps
----------------------------------------------------------------------------
(* Acks.                                                                   *)

\* A step that adds nothing to the air or the queue and no result.
LEMMA AcksKept ==
  ASSUME Acks, UNCHANGED <<result, heard, arrived, executed, asked>>,
         pc' = "33_01" => pc = "33_01",
         \A x \in Range(to_device') : x \in Range(to_device),
         \A x \in Range(from_device') : x \in Range(from_device),
         \A f \in Range(q') : f \in Range(q)
  PROVE  Acks'
<1>1. \A a : OlderThanAir(a) => OlderThanAir(a)'
  BY DEF OlderThanAir
<1>2. \A a : OlderThanQueue(a) => OlderThanQueue(a)'
  BY DEF OlderThanQueue
<1> QED
  BY <1>1, <1>2 DEF Acks

LEMMA AcksStep ==
  ASSUME IndInv, role = "control", [Next]_vars
  PROVE  Acks' /\ AnswersAreGenuine'
<1>0. /\ TypeOK /\ Protocol /\ InOrder /\ Written /\ Acks /\ AnswersAreGenuine
      /\ asked \in Nat
  BY Types DEF IndInv
<1>1. CASE Writes
  <2>1. PICK k \in Kinds, a \in Nat :
          /\ Exchange(k, a)
          /\ k # "33_01" => pc' # "33_01"
          /\ IF k = "33_01" THEN /\ a = asked + 1 /\ asked' = a /\ asked < MaxCmds
                                 /\ arrived' = [arrived EXCEPT ![a] = heard]
             ELSE arrived' = arrived /\ asked' = asked
          /\ UNCHANGED <<result, token, from_device, executed, heard>>
    BY <1>0, <1>1, Writing DEF Writes, deviceVars, KeyExchange
  <2>2. PICK m \in Messages :
          /\ m.frame.kind = k /\ m.frame.arg = a
          /\ Range(to_device') = Range(to_device) \cup {m}
          /\ Range(q') = {}
    <3>1. Wrote(k, a)
      BY <1>0, <2>1, Exchanged, Zenon
    <3> QED
      BY <3>1 DEF Wrote
  <2>3. \A b : OlderThanQueue(b)'
    BY <2>2 DEF OlderThanQueue
  <2>4. CASE k = "33_01"
    <3>1. /\ a = asked + 1 /\ asked' = a
          /\ arrived' = [arrived EXCEPT ![a] = heard] /\ a \in Cmds
      BY <1>0, <2>1, <2>4, BoundsAssumption DEF Cmds
    <3>2. ASSUME NEW b \in 1..asked, OlderThanAir(b) PROVE OlderThanAir(b)'
      BY <1>0, <2>1, <2>2, <3>1, <3>2 DEF OlderThanAir
    <3>3. \A b \in heard : b \in 1..asked /\ OlderThanAir(b)'
      BY <1>0, <3>2 DEF Acks
    <3>4. arrived'[a] = heard
      BY <1>0, <3>1 DEF TypeOK
    <3>5. ASSUME NEW x \in Range(from_device'), NEW n \in Range(to_device'),
                 x.frame.kind = "33_01", n.frame.kind = "33_01"
          PROVE  x.frame.arg < n.frame.arg
      <4>1. x.frame.arg \in 1..asked
        BY <1>0, <2>1, <3>5 DEF Acks
      <4>2. CASE n = m
        BY <1>0, <2>2, <3>1, <4>1, <4>2
      <4>3. CASE n \in Range(to_device)
        BY <1>0, <2>1, <3>5, <4>3 DEF Acks
      <4> QED
        BY <2>2, <4>2, <4>3
    <3>6. \A b \in 1..asked : b \in 1..asked'
      BY <1>0, <3>1
    <3>7. Acks'
      BY <1>0, <2>1, <2>2, <2>3, <3>1, <3>3, <3>4, <3>5, <3>6 DEF Acks
    <3>8. ASSUME NEW c \in Cmds, result'[c] # 0
          PROVE  AckIsFresh(c)' /\ AckIsUnshared(c)'
      <4>1. c \in 1..asked /\ c # a
        BY <1>0, <2>1, <3>1, <3>8 DEF Acks
      <4>2. arrived'[c] = arrived[c]
        BY <1>0, <3>1, <4>1 DEF TypeOK
      <4> QED
        BY <1>0, <2>1, <3>8, <4>2
        DEF AnswersAreGenuine, AckIsFresh, AckIsUnshared
    <3> QED
      BY <1>0, <2>1, <3>7, <3>8 DEF AnswersAreGenuine
  <2>5. CASE k # "33_01"
    <3>1. \A b : OlderThanAir(b) => OlderThanAir(b)'
      BY <2>1, <2>2, <2>5 DEF OlderThanAir
    <3>2. Acks'
      BY <1>0, <2>1, <2>2, <2>3, <2>5, <3>1 DEF Acks
    <3>3. AnswersAreGenuine'
      BY <1>0, <2>1, <2>5 DEF AnswersAreGenuine, AckIsFresh, AckIsUnshared
    <3> QED
      BY <3>2, <3>3
  <2> QED
    BY <2>4, <2>5
<1>2. CASE Notify
  <2>1. PICK m \in Range(from_device), f \in Inbox :
          /\ m \in Messages
          /\ f = IF m.key = crypto THEN m.frame ELSE Garbage
          /\ Range(q') = Range(q) \cup {f}
          /\ \A x \in Range(from_device') : x \in Range(from_device)
          /\ \A R : Ordered(from_device, R) =>
               \A x \in Range(from_device') : <<m, x>> \in R
          /\ heard' = IF f.kind = "33_01" /\ role = "control"
                      THEN heard \cup {f.arg} ELSE heard
    BY <1>0, <1>2, Notified, Zenon
  <2>2. UNCHANGED <<pc, asked, result, token, to_device, executed, arrived>>
    BY <1>2 DEF Notify, deviceVars
  <2>3. AnswersAreGenuine'
    BY <1>0, <2>2 DEF AnswersAreGenuine, AckIsFresh, AckIsUnshared
  <2>4. \A b : OlderThanAir(b) => OlderThanAir(b)'
    BY <2>1, <2>2 DEF OlderThanAir
  <2>5. CASE f.kind # "33_01"
    <3>1. \A b : OlderThanQueue(b) => OlderThanQueue(b)'
      BY <2>1, <2>5 DEF OlderThanQueue
    <3>2. Acks'
      BY <1>0, <2>1, <2>2, <2>4, <2>5, <3>1 DEF Acks
    <3> QED
      BY <2>3, <3>2
  <2>6. CASE f.kind = "33_01"
    <3>1. /\ f = m.frame /\ m.frame.kind = "33_01" /\ heard' = heard \cup {f.arg}
      BY <2>1, <2>6 DEF Garbage
    <3>2. f.arg \in 1..asked \cap Range(executed)
      BY <1>0, <2>1, <3>1 DEF Acks
    <3>3. OlderThanAir(f.arg)'
      <4>1. ASSUME NEW x \in Range(from_device'), x.frame.kind = "33_01"
            PROVE  f.arg < x.frame.arg
        <5>1. <<m, x>> \in AsAnswered
          BY <1>0, <2>1, <4>1 DEF InOrder
        <5> QED
          BY <3>1, <4>1, <5>1 DEF AsAnswered
      <4>2. ASSUME NEW x \in Range(to_device), x.frame.kind = "33_01"
            PROVE  f.arg < x.frame.arg
        BY <1>0, <2>1, <3>1, <4>2 DEF Acks
      <4> QED
        BY <2>2, <4>1, <4>2 DEF OlderThanAir
    <3>4. ASSUME NEW b, OlderThanAir(b), OlderThanQueue(b) PROVE OlderThanQueue(b)'
      <4>1. b < f.arg
        BY <2>1, <3>1, <3>4 DEF OlderThanAir
      <4> QED
        BY <2>1, <3>4, <4>1 DEF OlderThanQueue
    <3>5. \A b \in heard' : b \in 1..asked \cap Range(executed) /\ OlderThanAir(b)'
      BY <1>0, <2>4, <3>1, <3>2, <3>3 DEF Acks
    <3>6. ASSUME NEW c \in Cmds, result[c] # 0
          PROVE  /\ c \in 1..asked /\ result[c] \in heard'
                 /\ OlderThanQueue(result[c])'
      BY <1>0, <2>2, <3>1, <3>4, <3>6 DEF Acks
    <3>7. ASSUME pc = "33_01", NEW b \in arrived[asked]
          PROVE  OlderThanAir(b)' /\ OlderThanQueue(b)'
      BY <1>0, <2>4, <3>4, <3>7 DEF Acks
    <3>8. Acks'
      BY <1>0, <2>1, <2>2, <3>1, <3>5, <3>6, <3>7 DEF Acks
    <3> QED
      BY <2>3, <3>8
  <2> QED
    BY <2>5, <2>6
<1>3. CASE Looks
  <2>1. /\ UNCHANGED <<envVars, asked, to_device, from_device, deviceVars,
                       historyVars>>
        /\ \A f \in Range(q') : f \in Range(q)
    BY <1>0, <1>3, Looking, Zenon
  <2>2. token' \in {"right", token}
        /\ (pc' = "33_01" => pc = "33_01")
    BY <1>3 DEF Looks, Drop, Rekey, SetPlaintext, Authenticated,
                AuthenticationTimeout, Acked, AckTimeout, Collect, QueryQuiet,
                GotToken, TokenTimeout
  <2>3. CASE ~Acked
    <3>1. result' = result
      BY <1>3, <2>3 DEF Looks, Drop, Rekey, SetPlaintext, Authenticated,
                AuthenticationTimeout, AckTimeout, Collect, QueryQuiet,
                GotToken, TokenTimeout
    <3>2. Acks'
      BY <1>0, <2>1, <2>2, <3>1, AcksKept DEF deviceVars, historyVars
    <3>3. AnswersAreGenuine'
      BY <1>0, <2>1, <2>2, <3>1
      DEF AnswersAreGenuine, AckIsFresh, AckIsUnshared, deviceVars, historyVars
    <3> QED
      BY <3>2, <3>3
  <2>4. CASE Acked
    <3>0. PICK a : a = Head(q).arg
      OBVIOUS
    <3>1. /\ pc = "33_01" /\ pc' = "ready" /\ q # <<>> /\ q' = Tail(q)
          /\ Head(q).kind = "33_01"
          /\ result' = [result EXCEPT ![asked] = a]
      BY <2>4, <3>0 DEF Acked, Received, Matches
    <3>2. /\ Head(q) \in Range(q)
          /\ \A f \in Range(q') : <<Head(q), f>> \in AsReceived
      <4>1. /\ Head(q) \in Range(q)
            /\ \A R : Ordered(q, R) => \A f \in Range(q') : <<Head(q), f>> \in R
        BY <1>0, <3>1, Types, Taken, Zenon
      <4> QED
        BY <1>0, <4>1 DEF InOrder
    <3>3. /\ a \in heard /\ a \in Range(executed) /\ a \in Nat
          /\ asked \in Cmds /\ asked \in 1..asked
      BY <1>0, <3>0, <3>1, <3>2 DEF Acks, Protocol, Cmds
    <3>4. OlderThanQueue(a)'
      BY <3>0, <3>1, <3>2 DEF OlderThanQueue, AsReceived
    <3>5. \A b : OlderThanQueue(b) => OlderThanQueue(b)' /\ b < a
      BY <2>1, <3>0, <3>1, <3>2 DEF OlderThanQueue
    <3>6. \A c \in Cmds : result'[c] = IF c = asked THEN a ELSE result[c]
      BY <1>0, <3>1 DEF TypeOK
    <3>7. UNCHANGED <<asked, to_device, from_device, executed, arrived, heard>>
      BY <2>1 DEF deviceVars, historyVars
    <3>8. \A b : OlderThanAir(b) <=> OlderThanAir(b)'
      BY <3>7 DEF OlderThanAir
    <3>9. Acks'
      <4>1. ASSUME NEW c \in Cmds, result'[c] # 0
            PROVE  /\ c \in 1..asked /\ result'[c] \in heard
                   /\ OlderThanQueue(result[c])'
        BY <1>0, <3>3, <3>4, <3>5, <3>6, <4>1 DEF Acks
      <4>2. \A f \in Range(q') : f.kind = "33_01" => f.arg \in heard
        BY <1>0, <2>1 DEF Acks
      <4> QED
        BY <1>0, <3>1, <3>7, <3>8, <4>1, <4>2 DEF Acks
    <3>10. ASSUME NEW c \in Cmds, result'[c] # 0
           PROVE  AckIsFresh(c)' /\ AckIsUnshared(c)'
      <4>1. \E i \in 1..Len(executed) : executed[i] = result'[c]
        <5>1. result'[c] \in Range(executed)
          BY <1>0, <3>3, <3>6, <3>10 DEF Acks
        <5>2. executed \in Seq(Cmds)
          BY <1>0, <3>7, Types
        <5> QED
          BY <5>1, <5>2, IsEntry
      <4>2. \A d \in Cmds : d # c => result'[d] # result'[c]
        BY <1>0, <3>3, <3>5, <3>6, <3>10
        DEF Acks, AnswersAreGenuine, AckIsUnshared
      <4>3. result'[c] \notin arrived[c]
        <5>1. CASE c = asked
          BY <1>0, <3>1, <3>3, <3>5, <3>6, <5>1 DEF Acks
        <5>2. CASE c # asked
          BY <1>0, <3>6, <3>10, <5>2 DEF AnswersAreGenuine, AckIsFresh
        <5> QED
          BY <5>1, <5>2
      <4> QED
        BY <3>7, <4>1, <4>2, <4>3 DEF AckIsFresh, AckIsUnshared
    <3> QED
      BY <1>0, <2>2, <3>9, <3>10 DEF AnswersAreGenuine
  <2> QED
    BY <2>3, <2>4
<1>4. CASE DeviceHandles
  <2>1. /\ UNCHANGED <<envVars, clientVars, historyVars>>
        /\ \A x \in Range(to_device') : x \in Range(to_device)
    BY <1>0, <1>4, Handled, Zenon
  <2>2. UNCHANGED <<pc, q, asked, result, token, arrived, heard>>
    BY <2>1 DEF clientVars, historyVars
  <2>3. CASE UNCHANGED <<from_device, deviceVars>>
    <3>1. Acks'
      BY <1>0, <2>1, <2>2, <2>3, AcksKept DEF deviceVars
    <3>2. AnswersAreGenuine'
      BY <1>0, <2>2, <2>3
      DEF AnswersAreGenuine, AckIsFresh, AckIsUnshared, deviceVars
    <3> QED
      BY <3>1, <3>2
  <2>4. CASE ~UNCHANGED <<from_device, deviceVars>>
    <3>1. PICK m \in Range(to_device), r \in Messages :
            /\ m \in Messages
            /\ \A R : Ordered(to_device, R)
                  => \A x \in Range(to_device') : <<m, x>> \in R
            /\ Answers(m, r.frame.kind, r.frame.arg)
            /\ Range(from_device') = Range(from_device) \cup {r}
      BY <1>0, <1>4, <2>4, Answering, Zenon
    <3>2. \A b : OlderThanQueue(b) <=> OlderThanQueue(b)'
      BY <2>2 DEF OlderThanQueue
    <3>3. m.frame.kind # "33_00"
      BY <1>0, <3>1 DEF Written
    <3>4. CASE r.frame.kind # "33_01"
      <4>1. executed' = executed
        BY <3>1, <3>4 DEF Answers, deviceVars
      <4>2. \A b : OlderThanAir(b) => OlderThanAir(b)'
        BY <2>1, <3>1, <3>4 DEF OlderThanAir
      <4>3. Acks'
        BY <1>0, <2>1, <2>2, <3>1, <3>2, <3>4, <4>1, <4>2 DEF Acks
      <4>4. AnswersAreGenuine'
        BY <1>0, <2>2, <4>1 DEF AnswersAreGenuine, AckIsFresh, AckIsUnshared
      <4> QED
        BY <4>3, <4>4
    <3>5. CASE r.frame.kind = "33_01"
      <4> DEFINE a == r.frame.arg
      <4>1. /\ m.frame.kind = "33_01" /\ a = m.frame.arg
            /\ executed' = Append(executed, a)
        BY <3>1, <3>3, <3>5 DEF Answers
      <4>2. a \in 1..asked /\ a \in Cmds
        <5>1. a \in 1..asked
          BY <1>0, <3>1, <4>1 DEF Written
        <5>2. asked \in 0..MaxCmds
          BY <1>0 DEF TypeOK
        <5> QED
          BY <5>1, <5>2, BoundsAssumption DEF Cmds
      <4> HIDE DEF a
      <4>3. /\ Range(executed') = Range(executed) \cup {a}
            /\ executed' \in Seq(Cmds)
        <5>1. executed \in Seq(Cmds)
          BY <1>0, Types
        <5> QED
          <6>1. IsLonger(executed', Cmds, executed, a)
            BY <4>1, <4>2, <5>1, Appended, Zenon
          <6> QED
            BY <6>1 DEF IsLonger
      <4>4. \A n \in Range(to_device') : n.frame.kind = "33_01" => a < n.frame.arg
        <5> SUFFICES ASSUME NEW n \in Range(to_device'), n.frame.kind = "33_01"
                     PROVE  a < n.frame.arg
          OBVIOUS
        <5>1. <<m, n>> \in AsWritten
          BY <1>0, <3>1 DEF InOrder
        <5> QED
          BY <4>1, <5>1 DEF AsWritten
      <4>5. ASSUME NEW b, OlderThanAir(b) PROVE OlderThanAir(b)'
        <5>1. b < a
          BY <3>1, <4>1, <4>5 DEF OlderThanAir
        <5> QED
          BY <2>1, <3>1, <4>5, <5>1 DEF OlderThanAir, a
      <4>6. Acks'
        <5>1. \A x \in Range(from_device'), n \in Range(to_device') :
                x.frame.kind = "33_01" /\ n.frame.kind = "33_01"
                  => x.frame.arg < n.frame.arg
          BY <1>0, <2>1, <3>1, <4>4 DEF Acks, a
        <5>2. \A x \in Range(from_device') :
                x.frame.kind = "33_01" => x.frame.arg \in 1..asked \cap Range(executed')
          BY <1>0, <3>1, <4>2, <4>3 DEF Acks, a
        <5> QED
          BY <1>0, <2>2, <3>2, <4>3, <4>5, <5>1, <5>2 DEF Acks
      <4>7. ASSUME NEW c \in Cmds, result[c] # 0
            PROVE  AckIsFresh(c)' /\ AckIsUnshared(c)'
        <5>1. result[c] \in Range(executed')
          BY <1>0, <4>3, <4>7 DEF Acks
        <5>2. \E i \in 1..Len(executed') : executed'[i] = result[c]
          BY <4>3, <5>1, IsEntry
        <5> QED
          BY <1>0, <2>2, <4>7, <5>2 DEF AnswersAreGenuine, AckIsFresh, AckIsUnshared
      <4> QED
        BY <1>0, <2>2, <4>6, <4>7 DEF AnswersAreGenuine
    <3> QED
      BY <3>4, <3>5
  <2> QED
    BY <2>3, <2>4
<1>5. CASE FrameLost
  <2>1. /\ UNCHANGED <<envVars, clientVars, deviceVars, historyVars>>
        /\ \A x \in Range(to_device') : x \in Range(to_device)
        /\ \A x \in Range(from_device') : x \in Range(from_device)
    BY <1>0, <1>5, Lost, Zenon
  <2>2. UNCHANGED <<pc, q, asked, result, token, executed, arrived, heard>>
    BY <2>1 DEF clientVars, deviceVars, historyVars
  <2>3. Acks'
    BY <1>0, <2>1, <2>2, AcksKept
  <2>4. AnswersAreGenuine'
    BY <1>0, <2>2 DEF AnswersAreGenuine, AckIsFresh, AckIsUnshared
  <2> QED
    BY <2>3, <2>4
<1>6. CASE GivesUp \/ Button \/ UNCHANGED vars
  <2>1. /\ UNCHANGED <<q, asked, result, token, to_device, from_device, executed,
                       arrived, heard>>
        /\ pc' = "33_01" => pc = "33_01"
    BY <1>6 DEF GivesUp, Button, vars, clientVars, deviceVars, historyVars
  <2>2. Acks'
    BY <1>0, <2>1, AcksKept
  <2>3. AnswersAreGenuine'
    BY <1>0, <2>1 DEF AnswersAreGenuine, AckIsFresh, AckIsUnshared
  <2> QED
    BY <2>2, <2>3
<1> QED
  BY <1>1, <1>2, <1>3, <1>4, <1>5, <1>6, Steps

\* A session that sends no commands gives no acks to any.
LEMMA TokensStep ==
  ASSUME IndInv, role # "control", [Next]_vars
  PROVE  NoResults' /\ AnswersAreGenuine'
<1>0. TypeOK /\ Protocol /\ NoResults /\ AnswersAreGenuine
  BY DEF IndInv
<1>1. ~Acked /\ ~SendCommand
  BY <1>0 DEF Acked, SendCommand, Protocol
<1>2. result' = result /\ token' \in {"right", token}
  BY <1>1 DEF Next, ClientStep, vars, clientVars, Notify, Drop, OpenSession,
              GotMaterial, Rekey, SetPlaintext, Authenticate, Authenticated,
              AuthenticationTimeout, AckTimeout, SendQuery, Collect, QueryQuiet,
              AskToken, GotToken, TokenTimeout, DeviceHandles, Button, FrameLost
<1> QED
  BY <1>0, <1>2 DEF NoResults, AnswersAreGenuine

LEMMA RoleKept == ASSUME [Next]_vars PROVE role' = role
BY DEF Next, ClientStep, vars, envVars, Notify, Drop, OpenSession,
       GotMaterial, Rekey, SetPlaintext, Authenticate, Authenticated,
       AuthenticationTimeout, Acked, AckTimeout, SendCommand, SendQuery, Collect,
       QueryQuiet, AskToken, GotToken, TokenTimeout, DeviceHandles, Button,
       FrameLost
----------------------------------------------------------------------------
(* The theorems.                                                           *)

LEMMA Initially == ASSUME Init PROVE IndInv
<1> USE RolesAssumption, LinkAssumption, BoundsAssumption DEF Init
<1>1. /\ Range(q) = {} /\ Range(to_device) = {} /\ Range(from_device) = {}
      /\ \A R : Ordered(q, R) /\ Ordered(to_device, R) /\ Ordered(from_device, R)
  BY Empty, Zenon
<1>2. TypeOK
  <2>1. /\ q \in Seq(Frames \cup {Garbage}) /\ collected \in Seq(Frames)
        /\ to_device \in Seq([key : Keys, frame : Frames])
        /\ from_device \in Seq([key : Keys, frame : Frames])
        /\ executed \in Seq(Cmds)
    BY EmptySeq
  <2>2. asked \in 0..(IF role = "pair" THEN RETRIES ELSE MaxCmds)
    OBVIOUS
  <2>3. result \in [Cmds -> 0..MaxCmds] /\ arrived \in [Cmds -> SUBSET Cmds]
    OBVIOUS
  <2>4. dev_key \in Keys /\ crypto \in Keys
    BY DEF Keys
  <2> QED
    BY <2>1, <2>2, <2>3, <2>4 DEF TypeOK
<1>3. Protocol /\ InOrder /\ Written /\ Authentication
  BY <1>1 DEF Protocol, InOrder, Written, Authentication, Early, Authed
<1>4. NoResults /\ Acks /\ AnswersAreGenuine
  BY <1>1 DEF NoResults, Acks, AnswersAreGenuine
<1> QED
  BY <1>2, <1>3, <1>4 DEF IndInv

\* The inductive invariant holds in every state.
THEOREM Invariance == Spec => []IndInv
<1>1. ASSUME IndInv, [Next]_vars PROVE IndInv'
  <2>1. TypeOK' /\ Protocol' /\ InOrder' /\ Written' /\ Authentication'
    BY <1>1, TypeStep, OrderStep, ProtocolStep, AuthenticationStep DEF IndInv
  <2>2. (IF role = "control" THEN Acks ELSE NoResults)' /\ AnswersAreGenuine'
    BY <1>1, AcksStep, TokensStep, RoleKept
  <2> QED
    BY <2>1, <2>2 DEF IndInv
<1> QED
  BY <1>1, Initially, PTL DEF Spec

\* The session of session.py and crypto.py keeps within its types: whatever is
\* lost or late, an ack names a command that was sent.
THEOREM TypeCorrect == Spec => []TypeOK
<1>1. IndInv => TypeOK
  BY DEF IndInv
<1> QED
  BY <1>1, Invariance, PTL

\* Once open_session and authenticate have succeeded, the client and its device
\* use the same keys, the device accepts commands, and every frame on the air
\* was written with those keys, for any number of commands and token requests.
THEOREM KeysAgreeAlways == Spec => []KeysAgree
<1>1. ASSUME IndInv PROVE KeysAgree
  <2> SUFFICES ASSUME Authed PROVE KeysAgree
    BY DEF KeysAgree
  <2>1. /\ TypeOK /\ Written /\ ~Early /\ dev_key = crypto /\ dev_authed
        /\ \A m \in Range(to_device) : m.frame.kind \notin KeyExchange
        /\ \A m \in Range(from_device) : m.key = crypto
    BY <1>1 DEF IndInv, Authentication, Paired, AnsweredAlike
  <2>2. \A m \in Range(to_device) : m.key = dev_key
    BY <2>1 DEF Written
  <2>3. /\ \A i \in 1..Len(to_device) : to_device[i] \in Range(to_device)
        /\ \A i \in 1..Len(from_device) : from_device[i] \in Range(from_device)
    BY <2>1, Types, RangeEquality
  <2> QED
    BY <2>1, <2>2, <2>3 DEF KeysAgree
<1> QED
  BY <1>1, Invariance, PTL

\* The acks that exchange gives to commands had not arrived before the command
\* was sent, were caused by a command executed and are given once; and
\* fetch_token returns no junk.
THEOREM AnswersGenuine == Spec => []AnswersAreGenuine
<1>1. IndInv => AnswersAreGenuine
  BY DEF IndInv
<1> QED
  BY <1>1, Invariance, PTL
================================================================================
