---------------------------- MODULE PlugStateProofs -----------------------------
(***************************************************************************)
(* Proofs about PlugState for every model and any number of commands and   *)
(* button presses: a confirmed command is shown although advertisements of *)
(* earlier states are on their way, and what was reported is shown.        *)
(***************************************************************************)
EXTENDS PlugState, SequenceTheorems, TLAPS

----------------------------------------------------------------------------
(* The inductive invariant.                                                *)

\* Commands have their verdicts, and callers return, in the order of issue.
Backlog == Len(pending)
HasVerdict(c) == c + Backlog <= issued

Service ==
  /\ Backlog <= issued
  /\ \A i \in 1..Backlog : pending[i] + Backlog = issued + i
  /\ \A c \in Cmds : verdict[c] = "pending" <=> ~HasVerdict(c)
  /\ \A c \in Cmds : reply[c] = "none" <=> c > issued
  /\ \A c \in Cmds : reply[c] = "true" =>
       /\ verdict[c] = "true"
       /\ \A d \in Cmds : d < c => reply[d] # "waiting"

\* The commands the plug has executed for sure.
Executed(c) == verdict[c] = "true" \/ (executed /\ c + Backlog = issued + 1)

\* What last switched a relay: the youngest of the executed commands for it, or
\* one that was given up since, or a button.
Switched ==
  /\ executed => pending # <<>>
  /\ \A p \in Ports : writer[p] # 0 =>
       /\ writer[p] \in Cmds /\ writer[p] <= issued
       /\ target[writer[p]] = [port |-> p, state |-> relay[p]]
  /\ \A c \in Cmds : Executed(c) =>
       writer[target[c].port] = 0 \/ c <= writer[target[c].port]

\* The relay's state is that of a command whose caller was told True.
Confirmed(p) == writer[p] # 0 /\ reply[writer[p]] = "true"

\* What may still be heard: after the cooldown nothing is on the air from before
\* the last command that returned True, and younger advertisements agree with it.
Fresh ==
  /\ last_command = "old" => \A a \in adverts : a.age = "new"
  /\ \A p \in Ports, a \in adverts :
       Confirmed(p) /\ a.age = "new" => AdvertState(a.frame)[p] = relay[p]

\* A reply tells the state of the relays that have not moved since.
Polled == \A byte \in frames : \A p \in Ports \ moved : StatusState(byte)[p] = relay[p]

IndInv ==
  /\ TypeOK /\ Service /\ Switched /\ Fresh /\ Polled
  /\ ConfirmedIsShown /\ ReportedIsShown

----------------------------------------------------------------------------
(* What is sent and decoded.                                               *)

\* An advertisement tells every relay's state, and so does a status reply of the
\* models that send one.
LEMMA Decoded ==
  ASSUME model \in AllModels, NEW r \in [Ports -> States]
  PROVE  /\ RelayByte(r) \in 0..3
         /\ Advertised(r) \in Frames
         /\ AdvertState(Advertised(r)) = r
         /\ model # "H5086" => StatusState(RelayByte(r)) = r
<1>1. CASE model = "H5082"
  <2>1. Ports = {0, 1} /\ r[0] \in {"off", "on"} /\ r[1] \in {"off", "on"}
    BY <1>1 DEF Ports, States
  <2> DEFINE byte == RelayByte(r)
  <2>2. byte = 2 * (IF r[0] = "on" THEN 1 ELSE 0) + (IF r[1] = "on" THEN 1 ELSE 0)
    BY <1>1 DEF RelayByte
  <2>3. byte \in 0..3
    BY <2>1, <2>2
  <2>4. OnOff((byte \div 2) % 2 = 1) = r[0] /\ OnOff((byte \div 1) % 2 = 1) = r[1]
    BY <2>1, <2>2 DEF OnOff
  <2> HIDE DEF byte
  <2>5. PortBits(byte) = r
    BY <2>1, <2>4 DEF PortBits
  <2>6. Advertised(r) = [secondLast |-> 1, last |-> byte]
    BY <1>1 DEF Advertised, byte
  <2> QED
    BY <1>1, <2>3, <2>5, <2>6
    DEF Frames, AdvertState, AdvertH5082, StatusState, StatusH5082, byte
<1>2. CASE model # "H5082"
  <2>1. Ports = {0} /\ r[0] \in {"off", "on"}
    BY <1>2 DEF Ports, States
  <2>2. RelayByte(r) = IF r[0] = "on" THEN 1 ELSE 0
    BY <1>2 DEF RelayByte
  <2>3. r = [p \in Ports |-> r[0]]
    BY <2>1
  <2>4. StatusOnePort(RelayByte(r)) = r
    BY <2>1, <2>2, <2>3 DEF StatusOnePort, OnOff
  <2>5. [p \in Ports |-> OnOff(RelayByte(r) = 1)] = r
    BY <2>1, <2>2, <2>3 DEF OnOff
  <2>6. Advertised(r) = IF model = "H5086"
                        THEN [secondLast |-> RelayByte(r), last |-> 0]
                        ELSE [secondLast |-> 1, last |-> RelayByte(r)]
    BY DEF Advertised
  <2>7. RelayByte(r) \in {0, 1}
    BY <2>2
  <2>8. Advertised(r) \in Frames
    BY <2>6, <2>7 DEF Frames
  <2>9. AdvertState(Advertised(r)) = r
    BY <1>2, <2>5, <2>6
    DEF AdvertState, AdvertH5080, AdvertH5083, AdvertH5086, AllModels
  <2> QED
    BY <1>2, <2>4, <2>7, <2>8, <2>9 DEF StatusState
<1> QED
  BY <1>1, <1>2

\* Whatever is received is decoded to states of the ports.
LEMMA DecodedTyped ==
  ASSUME model \in AllModels, NEW f, NEW byte
  PROVE  /\ AdvertState(f) \in [Ports -> States]
         /\ StatusState(byte) \in [Ports -> States]
<1>1. \A b : OnOff(b) \in States
  BY DEF OnOff, States
<1> QED
  BY <1>1 DEF AdvertState, AdvertH5080, AdvertH5082, AdvertH5083, AdvertH5086,
              StatusState, StatusH5082, StatusOnePort, PortBits, AllModels
----------------------------------------------------------------------------
(* The steps of the command service.                                       *)

ServiceTyped ==
  /\ issued \in 0..MaxCmds
  /\ pending \in Seq(Cmds)
  /\ verdict \in [Cmds -> {"pending", "true", "false"}]
  /\ reply \in [Cmds -> {"none", "waiting", "true", "false", "cancelled"}]

LEMMA Numbers ==
  ASSUME ServiceTyped
  PROVE  /\ issued \in Nat /\ Backlog \in Nat /\ issued <= MaxCmds
         /\ \A c \in Cmds : c \in Nat /\ 1 <= c
         /\ pending # <<>> => Backlog >= 1 /\ Head(pending) = pending[1]
                              /\ Head(pending) \in Cmds
BY EmptySeq, LenProperties, HeadTailProperties, BoundsAssumption
   DEF ServiceTyped, Backlog, Cmds

\* The oldest pending command is the first that has no verdict.
LEMMA Oldest ==
  ASSUME ServiceTyped, Service, pending # <<>>
  PROVE  Head(pending) \in Cmds /\ Head(pending) + Backlog = issued + 1
<1>1. /\ Backlog >= 1 /\ Head(pending) = pending[1] /\ Head(pending) \in Cmds
      /\ Backlog \in Nat
  BY Numbers
<1>2. pending[1] + Backlog = issued + 1
  BY <1>1 DEF Service
<1> QED
  BY <1>1, <1>2

\* The next command is issued.
LEMMA Issues ==
  ASSUME ServiceTyped, Service, Commands!Issue
  PROVE  /\ ServiceTyped' /\ Service'
         /\ issued' = issued + 1 /\ issued + 1 \in Cmds /\ Backlog' = Backlog + 1
         /\ verdict' = verdict /\ pending' # <<>>
         /\ \A c \in Cmds : reply'[c] = "true" => reply[c] = "true" /\ c <= issued
<1>0. /\ issued \in Nat /\ Backlog \in Nat /\ issued <= MaxCmds
      /\ \A c \in Cmds : c \in Nat /\ 1 <= c
  BY Numbers
<1>1. /\ issued' = issued + 1 /\ pending' = Append(pending, issued + 1)
      /\ reply' = [reply EXCEPT ![issued + 1] = "waiting"] /\ verdict' = verdict
      /\ issued + 1 \in Cmds /\ issued' \in 0..MaxCmds
  BY <1>0, BoundsAssumption DEF Commands!Issue, Cmds
<1>2. /\ pending' \in Seq(Cmds) /\ pending' # <<>> /\ Backlog' = Backlog + 1
      /\ \A i \in 1..Backlog : pending'[i] = pending[i]
      /\ pending'[Backlog + 1] = issued + 1
  BY <1>1, AppendProperties DEF ServiceTyped, Backlog
<1>3. \A i \in 1..Backlog' : pending'[i] + Backlog' = issued' + i
  <2> SUFFICES ASSUME NEW i \in 1..Backlog' PROVE pending'[i] + Backlog' = issued' + i
    OBVIOUS
  <2>1. CASE i \in 1..Backlog
    <3>1. pending[i] + Backlog = issued + i /\ pending'[i] = pending[i]
      BY <1>2, <2>1 DEF Service
    <3>2. pending[i] \in Nat
      BY <1>0, <2>1, ElementOfSeq DEF ServiceTyped, Backlog
    <3> DEFINE x == pending[i]
               y == pending'[i]
               k == Backlog
               l == Backlog'
    <3>3. /\ x + k = issued + i /\ x \in Nat /\ y = x /\ l = k + 1 /\ k \in Nat
          /\ i \in Nat
      BY <1>0, <1>2, <3>1, <3>2
    <3> HIDE DEF x, y, k, l
    <3>4. y + l = (issued + 1) + i
      BY <1>0, <3>3
    <3> QED
      BY <1>1, <3>4 DEF y, l
  <2>2. CASE i = Backlog + 1
    BY <1>0, <1>1, <1>2, <2>2
  <2> QED
    BY <1>0, <1>2, <2>1, <2>2
<1>4. ServiceTyped'
  BY <1>1, <1>2 DEF ServiceTyped
<1>5. \A c \in Cmds : HasVerdict(c)' <=> HasVerdict(c)
  BY <1>0, <1>1, <1>2 DEF HasVerdict
<1>6. \A c \in Cmds : reply'[c] = IF c = issued + 1 THEN "waiting" ELSE reply[c]
  BY <1>1 DEF ServiceTyped
<1>7. ASSUME NEW c \in Cmds, reply'[c] = "true"
      PROVE  reply[c] = "true" /\ c <= issued
  BY <1>0, <1>6, <1>7 DEF Service
<1>8. \A c \in Cmds : reply'[c] = "none" <=> c > issued'
  BY <1>0, <1>1, <1>6 DEF Service
<1>9. ASSUME NEW c \in Cmds, reply'[c] = "true", NEW d \in Cmds, d < c
      PROVE  reply'[d] # "waiting"
  BY <1>0, <1>6, <1>7, <1>9 DEF Service
<1>10. Service'
  BY <1>0, <1>1, <1>2, <1>3, <1>5, <1>7, <1>8, <1>9 DEF Service
<1> QED
  BY <1>1, <1>2, <1>4, <1>7, <1>10

\* The n oldest commands have verdicts, the others are pending still.
LEMMA Shorter ==
  ASSUME ServiceTyped, Service, NEW n \in 1..Len(pending),
         pending' = SubSeq(pending, n + 1, Len(pending)), issued' = issued
  PROVE  /\ pending' \in Seq(Cmds) /\ Backlog' = Backlog - n
         /\ \A i \in 1..Backlog' : pending'[i] + Backlog' = issued + i
         /\ \A c \in Cmds : HasVerdict(c)' <=>
              HasVerdict(c) \/ (\E i \in 1..n : pending[i] = c)
<1>0. /\ issued \in Nat /\ Backlog \in Nat /\ n \in 1..Backlog /\ n \in Nat
      /\ \A c \in Cmds : c \in Nat /\ 1 <= c
      /\ \A i \in 1..Backlog : pending[i] \in Cmds /\ pending[i] + Backlog = issued + i
  BY Numbers, ElementOfSeq DEF ServiceTyped, Service, Backlog
<1> DEFINE b == Backlog
           t == SubSeq(pending, n + 1, b)
<1>1. /\ t \in Seq(Cmds)
      /\ Len(t) = IF n + 1 <= b THEN b - (n + 1) + 1 ELSE 0
      /\ \A i \in 1..(b - (n + 1) + 1) : t[i] = pending[(n + 1) + i - 1]
  <2>1. \A i \in (n + 1)..b : pending[i] \in Cmds
    BY <1>0
  <2>2. n + 1 \in Int /\ b \in Int
    BY <1>0
  <2> QED
    BY <2>1, <2>2, SubSeqProperties
<1>2. t = pending'
  BY DEF Backlog
<1> HIDE DEF t, b
<1>3. b = Backlog /\ b \in Nat
  BY <1>0 DEF b
<1>4. Len(t) = b - n /\ \A i \in 1..(b - n) : t[i] = pending[n + i]
  <2>1. b - (n + 1) + 1 = b - n /\ (n + 1 <= b \/ b - n = 0)
    BY <1>0, <1>3
  <2>2. \A i \in 1..(b - n) : (n + 1) + i - 1 = n + i
    BY <1>0, <1>3
  <2> QED
    BY <1>1, <2>1, <2>2
<1>5. ASSUME NEW i \in 1..(b - n) PROVE t[i] + (b - n) = issued + i
  <2>1. n + i \in 1..Backlog
    BY <1>0, <1>3
  <2>2. pending[n + i] + Backlog = issued + (n + i) /\ pending[n + i] \in Nat
    BY <1>0, <2>1
  <2>3. t[i] = pending[n + i]
    BY <1>4
  <2> DEFINE x == pending[n + i]
  <2>4. x + b = issued + (n + i) /\ x \in Nat /\ t[i] = x
    BY <1>3, <2>2, <2>3
  <2> HIDE DEF x
  <2> QED
    BY <1>0, <1>3, <2>4
<1>6. Backlog' = b - n /\ b - n \in Nat
  BY <1>0, <1>2, <1>3, <1>4 DEF Backlog
<1>7. ASSUME NEW c \in Cmds
      PROVE  c + (b - n) <= issued
               <=> c + b <= issued \/ (\E i \in 1..n : pending[i] = c)
  <2>1. ASSUME NEW i \in 1..n, pending[i] = c PROVE c + (b - n) <= issued
    <3>1. c + b = issued + i /\ c \in Nat
      BY <1>0, <1>3, <2>1
    <3> QED
      BY <1>0, <1>3, <3>1
  <2>2. ASSUME c + (b - n) <= issued, ~(c + b <= issued)
        PROVE  \E i \in 1..n : pending[i] = c
    <3> DEFINE i == c + b - issued
    <3>1. i \in 1..n /\ i \in 1..Backlog /\ c + b = issued + i /\ c \in Nat
      BY <1>0, <1>3, <2>2
    <3> HIDE DEF i
    <3>2. pending[i] + b = issued + i /\ pending[i] \in Nat
      BY <1>0, <1>3, <3>1
    <3> DEFINE x == pending[i]
    <3>3. x + b = issued + i /\ x \in Nat
      BY <3>2
    <3> HIDE DEF x
    <3>4. x = c
      BY <1>0, <1>3, <3>1, <3>3
    <3> QED
      BY <3>1, <3>4 DEF x
  <2>3. c + b <= issued => c + (b - n) <= issued
    BY <1>0, <1>3
  <2> QED
    BY <2>1, <2>2, <2>3
<1> QED
  BY <1>1, <1>2, <1>3, <1>4, <1>5, <1>6, <1>7 DEF HasVerdict

\* The transport gives the oldest commands their verdicts.
LEMMA Resolves ==
  ASSUME ServiceTyped, Service,
         Commands!Acknowledge \/ \E n \in 1..Len(pending) : Commands!GiveUpOn(n)
  PROVE  /\ ServiceTyped' /\ Service' /\ issued' = issued /\ reply' = reply
         /\ \A c \in Cmds : verdict'[c] = "true" =>
              \/ verdict[c] = "true"
              \/ Commands!Acknowledge /\ c + Backlog = issued + 1
<1>0. /\ issued \in Nat /\ Backlog \in Nat
      /\ \A c \in Cmds : c \in Nat /\ 1 <= c
  BY Numbers
<1>1. \E n \in 1..Len(pending), v \in {"true", "false"} :
        /\ pending' = SubSeq(pending, n + 1, Len(pending))
        /\ verdict' = [c \in Cmds |-> IF \E i \in 1..n : pending[i] = c
                                      THEN v ELSE verdict[c]]
        /\ v = "true" => Commands!Acknowledge /\ n = 1
  <2>1. CASE Commands!Acknowledge
    <3>1. /\ pending # <<>> /\ pending' = Tail(pending)
          /\ verdict' = [verdict EXCEPT ![Head(pending)] = "true"]
      BY <2>1 DEF Commands!Acknowledge
    <3>2. /\ 1 \in 1..Len(pending) /\ Head(pending) = pending[1]
      BY <3>1, Numbers DEF Backlog
    <3>3. pending' = SubSeq(pending, 1 + 1, Len(pending))
      BY <3>1, TailIsSubSeq DEF ServiceTyped
    <3>4. \A c \in Cmds : (\E i \in 1..1 : pending[i] = c) <=> Head(pending) = c
      BY <3>2
    <3>5. verdict' = [c \in Cmds |-> IF \E i \in 1..1 : pending[i] = c
                                     THEN "true" ELSE verdict[c]]
      BY <3>1, <3>4 DEF ServiceTyped
    <3> QED
      BY <2>1, <3>2, <3>3, <3>5
  <2>2. CASE \E n \in 1..Len(pending) : Commands!GiveUpOn(n)
    BY <2>2 DEF Commands!GiveUpOn, Commands!Cmds, Cmds
  <2> QED
    BY <2>1, <2>2
<1>2. PICK n \in 1..Len(pending), v \in {"true", "false"} :
        /\ pending' = SubSeq(pending, n + 1, Len(pending))
        /\ verdict' = [c \in Cmds |-> IF \E i \in 1..n : pending[i] = c
                                      THEN v ELSE verdict[c]]
        /\ v = "true" => Commands!Acknowledge /\ n = 1
  BY <1>1
<1>3. issued' = issued /\ reply' = reply
  BY DEF Commands!Acknowledge, Commands!GiveUpOn
<1>4. /\ pending' \in Seq(Cmds) /\ Backlog' = Backlog - n
      /\ \A i \in 1..Backlog' : pending'[i] + Backlog' = issued + i
      /\ \A c \in Cmds : HasVerdict(c)' <=>
           HasVerdict(c) \/ (\E i \in 1..n : pending[i] = c)
  BY <1>2, <1>3, Shorter
<1>5. ServiceTyped'
  BY <1>2, <1>3, <1>4 DEF ServiceTyped
<1>6. ASSUME NEW c \in Cmds, HasVerdict(c), NEW i \in 1..n PROVE pending[i] # c
  <2>1. i \in 1..Backlog /\ i >= 1
    BY <1>0 DEF Backlog
  <2>2. pending[i] + Backlog = issued + i
    BY <2>1 DEF Service
  <2>3. c + Backlog <= issued /\ c \in Nat
    BY <1>0, <1>6 DEF HasVerdict
  <2> QED
    BY <1>0, <2>1, <2>2, <2>3
<1>7. ASSUME NEW c \in Cmds, HasVerdict(c) PROVE verdict'[c] = verdict[c]
  BY <1>2, <1>6, <1>7
<1>8. \A c \in Cmds : verdict'[c] = "pending" <=> ~HasVerdict(c)'
  BY <1>2, <1>4 DEF Service
<1>9. ASSUME NEW c \in Cmds, reply'[c] = "true" PROVE verdict'[c] = "true"
  BY <1>3, <1>7, <1>9 DEF Service
<1>10. Backlog' <= issued'
  BY <1>0, <1>3, <1>4 DEF Service, Backlog
<1>11. Service'
  BY <1>3, <1>4, <1>8, <1>9, <1>10 DEF Service
<1>12. ASSUME NEW c \in Cmds, verdict'[c] = "true"
       PROVE  \/ verdict[c] = "true"
              \/ Commands!Acknowledge /\ c + Backlog = issued + 1
  <2>1. CASE \E i \in 1..n : pending[i] = c
    <3>1. Commands!Acknowledge /\ n = 1 /\ pending[1] = c
      BY <1>2, <1>12, <2>1
    <3>2. 1 \in 1..Backlog
      BY <1>0, <1>2 DEF Backlog
    <3> QED
      BY <3>1, <3>2 DEF Service
  <2>2. CASE ~\E i \in 1..n : pending[i] = c
    BY <1>2, <1>12, <2>2
  <2> QED
    BY <2>1, <2>2
<1> QED
  BY <1>3, <1>5, <1>11, <1>12

\* A caller is told the verdict, in its turn, or leaves.
LEMMA Returns ==
  ASSUME ServiceTyped, Service, NEW c \in Cmds,
         \/ /\ Commands!Tell(c)
            /\ \A d \in 1..(c - 1) : reply[d] = "waiting" => verdict[d] = "pending"
         \/ Commands!Leave(c)
  PROVE  /\ ServiceTyped' /\ Service' /\ UNCHANGED <<issued, pending, verdict>>
         /\ reply[c] = "waiting"
         /\ reply'[c] = "true" => Commands!Tell(c) /\ verdict[c] = "true"
         /\ \A d \in Cmds \ {c} : reply'[d] = reply[d]
<1>0. /\ issued \in Nat /\ Backlog \in Nat
      /\ \A d \in Cmds : d \in Nat /\ 1 <= d
  BY Numbers
<1>1. PICK v \in {"true", "false", "cancelled"} :
        /\ reply' = [reply EXCEPT ![c] = v]
        /\ v = "true" => Commands!Tell(c) /\ verdict[c] = "true"
                         /\ \A d \in 1..(c - 1) :
                              reply[d] = "waiting" => verdict[d] = "pending"
  BY DEF Commands!Tell, Commands!Leave, ServiceTyped
<1>2. UNCHANGED <<issued, pending, verdict>> /\ reply[c] = "waiting"
  BY DEF Commands!Tell, Commands!Leave
<1>3. \A d \in Cmds : reply'[d] = IF d = c THEN v ELSE reply[d]
  BY <1>1 DEF ServiceTyped
<1>4. ServiceTyped'
  BY <1>1, <1>2 DEF ServiceTyped
<1>5. UNCHANGED Backlog /\ \A d \in Cmds : HasVerdict(d)' <=> HasVerdict(d)
  BY <1>2 DEF Backlog, HasVerdict
<1>6. ASSUME NEW e \in Cmds, reply'[e] = "true", NEW d \in Cmds, d < e
      PROVE  reply'[d] # "waiting"
  <2>1. CASE e = c
    <3>1. HasVerdict(c) /\ d \in 1..(c - 1) /\ d # c
      BY <1>0, <1>1, <1>3, <1>6, <2>1 DEF Service
    <3>2. HasVerdict(d)
      BY <1>0, <1>6, <2>1, <3>1 DEF HasVerdict
    <3>3. verdict[d] # "pending"
      BY <3>2 DEF Service
    <3> QED
      BY <1>1, <1>3, <1>6, <2>1, <3>1, <3>3
  <2>2. CASE e # c
    BY <1>3, <1>6, <2>2 DEF Service
  <2> QED
    BY <2>1, <2>2
<1>7. \A e \in Cmds : reply'[e] = "true" => verdict[e] = "true"
  BY <1>1, <1>3 DEF Service
<1>8. \A e \in Cmds : reply'[e] = "none" <=> e > issued
  BY <1>2, <1>3 DEF Service
<1>9. Service'
  BY <1>2, <1>5, <1>6, <1>7, <1>8 DEF Service
<1> QED
  BY <1>1, <1>2, <1>3, <1>4, <1>9
----------------------------------------------------------------------------
(* The steps.                                                              *)

LEMMA SameModel ==
  ASSUME model' = model
  PROVE  /\ Ports' = Ports
         /\ \A f : AdvertState(f)' = AdvertState(f)
         /\ \A byte : StatusState(byte)' = StatusState(byte)
BY DEF Ports, AdvertState, AdvertH5080, AdvertH5082, AdvertH5083, AdvertH5086,
       StatusState, StatusH5082, StatusOnePort, PortBits

LEMMA Typed == ASSUME TypeOK PROVE ServiceTyped /\ model \in AllModels
BY ModelsAssumption DEF TypeOK, ServiceTyped

LEMMA ExecutedAreIssued ==
  ASSUME TypeOK, Service, Switched, NEW c \in Cmds, Executed(c)
  PROVE  c <= issued
<1>1. ServiceTyped
  BY Typed
<1>2. /\ issued \in Nat /\ Backlog \in Nat /\ c \in Nat
      /\ executed => Backlog >= 1
  BY <1>1, Numbers DEF Switched
<1> QED
  BY <1>2 DEF Executed, Service, HasVerdict

\* Steps of the entity that at most show another state; nothing appears on the
\* air.
LEMMA ShowingStep ==
  ASSUME IndInv, UNCHANGED <<serviceVars, configVars, plugVars, target>>,
         seeded' \in BOOLEAN,
         poll' \in {"idle", "asking", "answered"},
         poll' # "answered" => frames' = {}, frames' \subseteq frames,
         last_command' \in {"old", "recent"},
         adverts' \subseteq adverts,
         last_command' = "old" => \A a \in adverts' : a.age = "new",
         presses' = presses,
         is_on' \in [Ports -> States \cup {"unknown"}],
         source' \in [Ports -> Sources],
         \A p \in Ports : Confirmed(p) /\ source'[p] # "overtaken" => is_on'[p] = relay[p],
         \A p \in Ports : source'[p] \in {"heard", "polled"} => is_on'[p] = relay[p]
  PROVE  IndInv'
<1>1. /\ UNCHANGED <<issued, pending, verdict, reply, model, polling, relay, executed,
                     writer, moved, target>>
      /\ TypeOK /\ Service /\ Switched /\ Fresh /\ Polled
  BY DEF serviceVars, configVars, plugVars, IndInv
<1>2. /\ Ports' = Ports
      /\ \A f : AdvertState(f)' = AdvertState(f)
      /\ \A byte : StatusState(byte)' = StatusState(byte)
  BY <1>1, SameModel
<1>3. TypeOK'
  BY <1>1, <1>2 DEF TypeOK
<1>4. Service' /\ Switched'
  BY <1>1, <1>2 DEF Service, Switched, Executed, HasVerdict, Backlog
<1>5. \A p : Confirmed(p)' <=> Confirmed(p)
  BY <1>1 DEF Confirmed
<1>6. Fresh' /\ Polled'
  BY <1>1, <1>2, <1>5 DEF Fresh, Polled
<1>7. ConfirmedIsShown' /\ ReportedIsShown'
  BY <1>1, <1>2 DEF ConfirmedIsShown, ReportedIsShown, Confirmed
<1> QED
  BY <1>3, <1>4, <1>6, <1>7 DEF IndInv

LEMMA HearingStep ==
  ASSUME IndInv, NEW a \in adverts, NEW again \in BOOLEAN, HandleAdvert(a, again)
  PROVE  IndInv'
<1>1. /\ TypeOK /\ Fresh /\ ConfirmedIsShown /\ ReportedIsShown
      /\ model \in AllModels
  BY Typed DEF IndInv
<1>2. /\ UNCHANGED <<serviceVars, configVars, plugVars, target, seeded, poll, frames,
                     last_command, presses>>
      /\ adverts' \subseteq adverts
  BY DEF HandleAdvert
<1>3. CASE last_command = "recent"
  <2>1. UNCHANGED <<is_on, source>>
    BY <1>3 DEF HandleAdvert, shownVars
  <2> QED
    BY <1>1, <1>2, <1>3, <2>1, ShowingStep
    DEF TypeOK, Confirmed, ConfirmedIsShown, ReportedIsShown
<1>4. CASE last_command = "old"
  <2>1. /\ is_on' = AdvertState(a.frame)
        /\ source' = [p \in Ports |-> IF a.frame = Advertised(relay)
                                      THEN "heard" ELSE "advert"]
    BY <1>4 DEF HandleAdvert
  <2>2. is_on' \in [Ports -> States \cup {"unknown"}]
    BY <1>1, <2>1, DecodedTyped
  <2>3. source' \in [Ports -> Sources]
    BY <2>1 DEF Sources
  <2>4. \A p \in Ports : Confirmed(p) => is_on'[p] = relay[p]
    BY <1>1, <1>4, <2>1 DEF Fresh
  <2>5. AdvertState(Advertised(relay)) = relay
    BY <1>1, Decoded DEF TypeOK
  <2>6. \A p \in Ports : source'[p] \in {"heard", "polled"} => is_on'[p] = relay[p]
    BY <2>1, <2>5
  <2>7. last_command' = "old" => \A x \in adverts' : x.age = "new"
    BY <1>1, <1>2, <1>4 DEF Fresh
  <2> QED
    BY <1>1, <1>2, <2>2, <2>3, <2>4, <2>6, <2>7, ShowingStep DEF TypeOK
<1> QED
  BY <1>1, <1>3, <1>4 DEF TypeOK

LEMMA QuietSteps ==
  ASSUME IndInv,
         AdvertLost \/ CooldownEnds \/ AskStatus \/ NoAnswer \/ PollFail \/ UNCHANGED vars
  PROVE  IndInv'
<1>1. TypeOK /\ Fresh /\ ConfirmedIsShown /\ ReportedIsShown
  BY DEF IndInv
<1>2. /\ UNCHANGED <<serviceVars, configVars, plugVars, target, seeded, frames,
                     presses, shownVars>>
      /\ adverts' \subseteq adverts
      /\ \/ UNCHANGED last_command
         \/ last_command' = "old" /\ \A a \in adverts : a.age = "new"
      /\ \/ UNCHANGED poll
         \/ poll' \in {"idle", "asking", "answered"} /\ poll # "answered"
  BY DEF AdvertLost, CooldownEnds, AskStatus, NoAnswer, PollFail, vars
<1>3. /\ last_command' = "old" => \A a \in adverts' : a.age = "new"
      /\ last_command' \in {"old", "recent"}
  BY <1>1, <1>2 DEF Fresh, TypeOK
<1>4. /\ poll' \in {"idle", "asking", "answered"}
      /\ poll' # "answered" => frames' = {}
      /\ frames' \subseteq frames /\ seeded' \in BOOLEAN
  BY <1>1, <1>2 DEF TypeOK
<1>5. /\ is_on' \in [Ports -> States \cup {"unknown"}]
      /\ source' \in [Ports -> Sources]
      /\ is_on' = is_on /\ source' = source
  BY <1>1, <1>2 DEF TypeOK, shownVars
<1>6. \A p \in Ports : Confirmed(p) /\ source'[p] # "overtaken" => is_on'[p] = relay[p]
  BY <1>1, <1>5 DEF ConfirmedIsShown, Confirmed
<1>7. \A p \in Ports : source'[p] \in {"heard", "polled"} => is_on'[p] = relay[p]
  BY <1>1, <1>5 DEF ReportedIsShown
<1> QED
  BY <1>2, <1>3, <1>4, <1>5, <1>6, <1>7, ShowingStep

LEMMA ParsingStep == ASSUME IndInv, ParseStatus PROVE IndInv'
<1>1. /\ TypeOK /\ Fresh /\ Polled /\ ConfirmedIsShown /\ ReportedIsShown
      /\ model \in AllModels
  BY Typed DEF IndInv
<1>2. /\ UNCHANGED <<serviceVars, configVars, plugVars, target, last_command, presses,
                     adverts>>
      /\ poll' = "idle" /\ frames' = {} /\ seeded' = TRUE
      /\ last_command' \in {"old", "recent"}
      /\ last_command' = "old" => \A a \in adverts' : a.age = "new"
  BY <1>1 DEF ParseStatus, Fresh, TypeOK
<1>3. CASE UNCHANGED shownVars
  <2>1. /\ is_on' = is_on /\ source' = source
        /\ is_on' \in [Ports -> States \cup {"unknown"}]
        /\ source' \in [Ports -> Sources]
    BY <1>1, <1>3 DEF shownVars, TypeOK
  <2>2. \A p \in Ports : Confirmed(p) /\ source'[p] # "overtaken" => is_on'[p] = relay[p]
    BY <1>1, <2>1 DEF ConfirmedIsShown, Confirmed
  <2>3. \A p \in Ports : source'[p] \in {"heard", "polled"} => is_on'[p] = relay[p]
    BY <1>1, <2>1 DEF ReportedIsShown
  <2> QED
    BY <1>2, <2>1, <2>2, <2>3, ShowingStep
<1>4. ASSUME NEW byte \in frames,
             is_on' = StatusState(byte),
             source' = [p \in Ports |-> IF p \in moved THEN "overtaken" ELSE "polled"]
      PROVE  IndInv'
  <2>1. is_on' \in [Ports -> States \cup {"unknown"}]
    BY <1>1, <1>4, DecodedTyped
  <2>2. source' \in [Ports -> Sources]
    BY <1>4 DEF Sources
  <2>3. \A p \in Ports : source'[p] = "overtaken" \/ is_on'[p] = relay[p]
    BY <1>1, <1>4 DEF Polled
  <2>4. \A p \in Ports : source'[p] \in {"heard", "polled"} => is_on'[p] = relay[p]
    BY <2>3
  <2> QED
    BY <1>2, <2>1, <2>2, <2>3, <2>4, ShowingStep
<1> QED
  BY <1>3, <1>4 DEF ParseStatus

LEMMA AnsweringStep == ASSUME IndInv, Answer PROVE IndInv'
<1>1. /\ TypeOK /\ Service /\ Switched /\ Fresh /\ ConfirmedIsShown /\ ReportedIsShown
      /\ model \in AllModels
  BY Typed DEF IndInv
<1>2. /\ UNCHANGED <<issued, pending, verdict, reply, model, polling, is_on, source,
                     relay, executed, writer, seeded, target, last_command, presses,
                     adverts>>
      /\ poll' = "answered" /\ moved' = {}
      /\ frames' = IF model = "H5086" THEN {} ELSE {RelayByte(relay)}
  BY DEF Answer, serviceVars, configVars, shownVars
<1>3. /\ Ports' = Ports
      /\ \A f : AdvertState(f)' = AdvertState(f)
      /\ \A byte : StatusState(byte)' = StatusState(byte)
  BY <1>2, SameModel
<1>4. /\ RelayByte(relay) \in 0..3
      /\ model # "H5086" => StatusState(RelayByte(relay)) = relay
  BY <1>1, Decoded DEF TypeOK
<1>5. TypeOK'
  BY <1>1, <1>2, <1>3, <1>4 DEF TypeOK
<1>6. Polled'
  BY <1>2, <1>3, <1>4 DEF Polled
<1>7. Service' /\ Switched' /\ Fresh' /\ ConfirmedIsShown' /\ ReportedIsShown'
  BY <1>1, <1>2, <1>3 DEF Service, Switched, Executed, HasVerdict, Backlog, Fresh,
     Confirmed, ConfirmedIsShown, ReportedIsShown
<1> QED
  BY <1>5, <1>6, <1>7 DEF IndInv

\* Steps of the command service that tell nobody True.
LEMMA ServiceStep ==
  ASSUME IndInv, ServiceTyped', Service', issued <= issued',
         UNCHANGED <<configVars, shownVars, relay, writer, moved, seeded, last_command,
                     poll, frames, presses, adverts>>,
         target' \in [Cmds -> [port : Ports, state : States]],
         \A c \in Cmds : c <= issued => target'[c] = target[c],
         executed' \in BOOLEAN, executed' => pending' # <<>>,
         \A c \in Cmds : Executed(c)' => Executed(c),
         \A c \in Cmds : reply'[c] = "true" => reply[c] = "true"
  PROVE  IndInv'
<1>1. /\ TypeOK /\ Service /\ Switched /\ Fresh /\ Polled /\ ConfirmedIsShown
      /\ ReportedIsShown /\ issued \in Nat /\ issued' \in Nat
      /\ \A c \in Cmds : c \in Nat
  BY Typed, Numbers, BoundsAssumption DEF IndInv, ServiceTyped
<1>2. UNCHANGED <<model, polling, is_on, source, relay, writer, moved>>
  BY DEF configVars, shownVars
<1>3. /\ Ports' = Ports
      /\ \A f : AdvertState(f)' = AdvertState(f)
      /\ \A byte : StatusState(byte)' = StatusState(byte)
  BY <1>2, SameModel
<1>4. TypeOK'
  BY <1>1, <1>2, <1>3 DEF TypeOK, ServiceTyped
<1>5. Switched'
  <2>1. ASSUME NEW p \in Ports, writer[p] # 0
        PROVE  /\ writer[p] \in Cmds /\ writer[p] <= issued'
               /\ target'[writer[p]] = [port |-> p, state |-> relay[p]]
    BY <1>1, <2>1 DEF Switched
  <2>2. ASSUME NEW c \in Cmds, Executed(c)'
        PROVE  writer[target'[c].port] = 0 \/ c <= writer[target'[c].port]
    <3>1. c <= issued
      BY <1>1, <2>2, ExecutedAreIssued
    <3> QED
      BY <1>1, <2>2, <3>1 DEF Switched
  <2> QED
    BY <1>2, <1>3, <2>1, <2>2 DEF Switched
<1>6. ASSUME NEW p \in Ports, Confirmed(p)' PROVE Confirmed(p)
  BY <1>1, <1>2, <1>6 DEF Confirmed, Switched
<1>7. Fresh' /\ Polled'
  BY <1>1, <1>2, <1>3, <1>6 DEF Fresh, Polled
<1>8. ConfirmedIsShown' /\ ReportedIsShown'
  BY <1>1, <1>2, <1>3, <1>6 DEF ConfirmedIsShown, ReportedIsShown, Confirmed
<1> QED
  BY <1>4, <1>5, <1>7, <1>8 DEF IndInv

LEMMA IssuingStep == ASSUME IndInv, TurnOnOff PROVE IndInv'
<1>1. TypeOK /\ ServiceTyped /\ Service /\ Switched
  BY Typed DEF IndInv
<1>2. /\ UNCHANGED <<configVars, shownVars, plugVars, seeded, last_command, poll,
                     frames, presses, adverts>>
      /\ Commands!Issue
      /\ \E p \in Ports, s \in States :
           target' = [target EXCEPT ![issued + 1] = [port |-> p, state |-> s]]
  BY DEF TurnOnOff
<1>3. /\ ServiceTyped' /\ Service'
      /\ issued' = issued + 1 /\ issued + 1 \in Cmds /\ Backlog' = Backlog + 1
      /\ verdict' = verdict /\ pending' # <<>>
      /\ \A c \in Cmds : reply'[c] = "true" => reply[c] = "true"
      /\ issued \in Nat /\ Backlog \in Nat /\ \A c \in Cmds : c \in Nat
  BY <1>1, <1>2, Issues, Numbers
<1>4. target' \in [Cmds -> [port : Ports, state : States]]
  <2>1. PICK r \in [port : Ports, state : States] :
          target' = [target EXCEPT ![issued + 1] = r]
    BY <1>2
  <2>2. target \in [Cmds -> [port : Ports, state : States]]
    BY <1>1 DEF TypeOK
  <2> QED
    BY <2>1, <2>2
<1>5. \A c \in Cmds : c <= issued => target'[c] = target[c]
  BY <1>1, <1>2, <1>3 DEF TypeOK
<1>6. executed' = executed /\ executed' \in BOOLEAN
  BY <1>1, <1>2 DEF plugVars, TypeOK
<1>7. \A c \in Cmds : Executed(c)' => Executed(c)
  BY <1>3, <1>6 DEF Executed
<1> QED
  BY <1>2, <1>3, <1>4, <1>5, <1>6, <1>7, ServiceStep DEF plugVars

LEMMA ResolvingStep == ASSUME IndInv, Resolve PROVE IndInv'
<1>1. TypeOK /\ ServiceTyped /\ Service /\ Switched
  BY Typed DEF IndInv
<1>2. /\ UNCHANGED <<configVars, shownVars, relay, writer, moved, seeded, target,
                     last_command, poll, frames, presses, adverts>>
      /\ executed' = FALSE
      /\ \/ Commands!Acknowledge /\ executed
         \/ \E n \in 1..Len(pending) : Commands!GiveUpOn(n)
  BY DEF Resolve
<1>3. /\ ServiceTyped' /\ Service' /\ issued' = issued /\ reply' = reply
      /\ \A c \in Cmds : verdict'[c] = "true" =>
           verdict[c] = "true" \/ (Commands!Acknowledge /\ c + Backlog = issued + 1)
      /\ issued \in Nat
  BY <1>1, <1>2, Resolves, Numbers
<1>4. ASSUME NEW c \in Cmds, Executed(c)' PROVE Executed(c)
  <2>1. verdict'[c] = "true"
    BY <1>2, <1>4 DEF Executed
  <2>2. CASE executed
    BY <1>3, <2>1, <2>2 DEF Executed
  <2>3. CASE \E n \in 1..Len(pending) : Commands!GiveUpOn(n)
    <3>1. verdict[c] = "true"
      BY <2>1, <2>3 DEF Commands!GiveUpOn, Commands!Cmds, Cmds
    <3> QED
      BY <3>1 DEF Executed
  <2> QED
    BY <1>2, <2>2, <2>3
<1>5. /\ target' \in [Cmds -> [port : Ports, state : States]]
      /\ \A c \in Cmds : c <= issued => target'[c] = target[c]
  BY <1>1, <1>2 DEF TypeOK
<1>6. issued <= issued' /\ \A c \in Cmds : reply'[c] = "true" => reply[c] = "true"
  BY <1>3
<1>7. executed' \in BOOLEAN /\ ~executed'
  BY <1>2
<1> QED
  BY <1>2, <1>3, <1>4, <1>5, <1>6, <1>7, ServiceStep

LEMMA LeavingStep == ASSUME IndInv, NEW c \in Cmds, CallerLeave(c) PROVE IndInv'
<1>1. TypeOK /\ ServiceTyped /\ Service /\ Switched
  BY Typed DEF IndInv
<1>2. /\ UNCHANGED <<configVars, shownVars, plugVars, seeded, target, last_command, poll,
                     frames, presses, adverts>>
      /\ Commands!Leave(c)
  BY DEF CallerLeave
<1>3. /\ ServiceTyped' /\ Service' /\ UNCHANGED <<issued, pending, verdict>>
      /\ \A d \in Cmds \ {c} : reply'[d] = reply[d]
      /\ issued \in Nat
  BY <1>1, <1>2, Returns, Numbers
<1>4. reply'[c] # "true"
  BY <1>1, <1>2 DEF Commands!Leave, ServiceTyped
<1>5. \A d \in Cmds : Executed(d)' => Executed(d)
  BY <1>2, <1>3 DEF Executed, Backlog, plugVars
<1> QED
  BY <1>1, <1>2, <1>3, <1>4, <1>5, ServiceStep DEF TypeOK, Switched, plugVars

\* A caller is told True: the state it asked for is shown, and what is on the
\* air is old.
LEMMA SuccessStep ==
  ASSUME IndInv, NEW c \in Cmds, CallerReturn(c), verdict[c] = "true" PROVE IndInv'
<1> DEFINE t == target[c]
<1>1. /\ TypeOK /\ ServiceTyped /\ Service /\ Switched /\ Polled
      /\ ConfirmedIsShown /\ ReportedIsShown /\ \A d \in Cmds : d \in Nat
  BY Typed, Numbers DEF IndInv
<1>2. /\ UNCHANGED <<configVars, plugVars, seeded, target, poll, frames, presses>>
      /\ is_on' = [is_on EXCEPT ![t.port] = t.state]
      /\ source' = [source EXCEPT ![t.port] = "command"]
      /\ last_command' = "recent"
      /\ adverts' = {[a EXCEPT !.age = "old"] : a \in adverts}
  BY DEF CallerReturn
<1>3. /\ ServiceTyped' /\ Service' /\ UNCHANGED <<issued, pending, verdict>>
      /\ reply[c] = "waiting"
      /\ \A d \in Cmds \ {c} : reply'[d] = reply[d]
  BY <1>1, Returns DEF CallerReturn
<1>4. t.port \in Ports /\ t.state \in States
  BY <1>1 DEF TypeOK
<1> HIDE DEF t
<1>5. UNCHANGED <<model, polling, relay, executed, writer, moved>>
  BY <1>2 DEF configVars, plugVars
<1>6. /\ Ports' = Ports
      /\ \A f : AdvertState(f)' = AdvertState(f)
      /\ \A byte : StatusState(byte)' = StatusState(byte)
  BY <1>5, SameModel
<1>7. \A a \in adverts' : a.age = "old"
  BY <1>1, <1>2 DEF TypeOK
<1>8. TypeOK'
  <2>1. adverts' \subseteq [frame : Frames, age : {"new", "old"}]
    <3>1. \A a \in adverts : [a EXCEPT !.age = "old"] \in [frame : Frames, age : {"new", "old"}]
      BY <1>1 DEF TypeOK
    <3> QED
      BY <1>1, <1>2, <3>1 DEF TypeOK
  <2>2. is_on' \in [Ports -> States \cup {"unknown"}] /\ source' \in [Ports -> Sources]
    BY <1>1, <1>2, <1>4 DEF TypeOK, Sources
  <2> QED
    BY <1>1, <1>2, <1>3, <1>5, <1>6, <2>1, <2>2 DEF TypeOK, ServiceTyped
<1>9. Switched'
  BY <1>1, <1>2, <1>3, <1>5, <1>6 DEF Switched, Executed, Backlog
<1>10. Fresh' /\ Polled'
  BY <1>1, <1>2, <1>5, <1>6, <1>7 DEF Fresh, Polled
<1>11. \A p \in Ports : /\ is_on'[p] = IF p = t.port THEN t.state ELSE is_on[p]
                        /\ source'[p] = IF p = t.port THEN "command" ELSE source[p]
  BY <1>1, <1>2, <1>4 DEF TypeOK
<1>12. ASSUME NEW p \in Ports, Confirmed(p)', source'[p] # "overtaken"
       PROVE  is_on'[p] = relay[p]
  <2> DEFINE w == writer[p]
  <2>1. /\ w \in Cmds /\ w # 0 /\ reply'[w] = "true"
        /\ target[w] = [port |-> p, state |-> relay[p]]
    BY <1>1, <1>5, <1>12 DEF Confirmed, Switched
  <2>2. CASE w = c
    BY <1>11, <2>1, <2>2 DEF t
  <2>3. CASE w # c
    <3>1. reply[w] = "true"
      BY <1>3, <2>1, <2>3
    <3>2. p # t.port
      <4>1. ~(c < w)
        BY <1>1, <1>3, <2>1, <3>1 DEF Service
      <4>2. writer[t.port] = 0 \/ c <= writer[t.port]
        BY <1>1 DEF Switched, Executed, t
      <4> QED
        BY <1>1, <2>1, <2>3, <4>1, <4>2
    <3> QED
      BY <1>1, <1>11, <1>12, <2>1, <3>1, <3>2 DEF ConfirmedIsShown
  <2> QED
    BY <2>2, <2>3
<1>13. ConfirmedIsShown'
  BY <1>5, <1>6, <1>12 DEF ConfirmedIsShown, Confirmed
<1>14. ReportedIsShown'
  BY <1>1, <1>5, <1>6, <1>11 DEF ReportedIsShown
<1> QED
  BY <1>3, <1>8, <1>9, <1>10, <1>13, <1>14 DEF IndInv

LEMMA ReturningStep == ASSUME IndInv, NEW c \in Cmds, CallerReturn(c) PROVE IndInv'
<1>1. CASE verdict[c] = "true"
  BY <1>1, SuccessStep
<1>2. CASE verdict[c] # "true"
  <2>1. TypeOK /\ ServiceTyped /\ Service /\ Switched
    BY Typed DEF IndInv
  <2>2. /\ UNCHANGED <<configVars, shownVars, plugVars, seeded, target, last_command,
                       poll, frames, presses, adverts>>
        /\ Commands!Tell(c)
    BY <1>2 DEF CallerReturn
  <2>3. /\ ServiceTyped' /\ Service' /\ UNCHANGED <<issued, pending, verdict>>
        /\ reply'[c] # "true"
        /\ \A d \in Cmds \ {c} : reply'[d] = reply[d]
        /\ issued \in Nat
    BY <1>2, <2>1, Returns, Numbers DEF CallerReturn
  <2>4. \A d \in Cmds : Executed(d)' => Executed(d)
    BY <2>2, <2>3 DEF Executed, Backlog, plugVars
  <2> QED
    BY <2>1, <2>2, <2>3, <2>4, ServiceStep DEF TypeOK, Switched, plugVars
<1> QED
  BY <1>1, <1>2

\* A relay is set by somebody who has not been told True.
LEMMA SwitchingStep ==
  ASSUME IndInv, NEW p \in Ports, NEW s \in States, NEW who \in Nat,
         Switch(p, s, who),
         UNCHANGED <<serviceVars, configVars, is_on, seeded, target, last_command, poll,
                     frames>>,
         executed' \in BOOLEAN, executed' => pending # <<>>,
         presses' \in 0..MaxPresses,
         who # 0 => /\ who \in Cmds /\ who <= issued
                    /\ target[who] = [port |-> p, state |-> s]
                    /\ reply[who] # "true",
         \A c \in Cmds : Executed(c)' => \/ Executed(c) /\ (who = 0 \/ c <= who)
                                         \/ c = who
  PROVE  IndInv'
<1>1. /\ TypeOK /\ Service /\ Switched /\ Fresh /\ Polled /\ ConfirmedIsShown
      /\ ReportedIsShown /\ model \in AllModels
  BY Typed DEF IndInv
<1>2. UNCHANGED <<issued, pending, verdict, reply, model, polling>>
  BY DEF serviceVars, configVars
<1>3. /\ Ports' = Ports
      /\ \A f : AdvertState(f)' = AdvertState(f)
      /\ \A byte : StatusState(byte)' = StatusState(byte)
  BY <1>2, SameModel
<1>4. /\ relay' \in [Ports -> States] /\ writer' \in [Ports -> 0..MaxCmds]
      /\ relay'[p] = s /\ writer'[p] = who
      /\ \A o \in Ports \ {p} : relay'[o] = relay[o] /\ writer'[o] = writer[o]
      /\ moved' = moved \cup {p}
  BY <1>1, BoundsAssumption DEF Switch, TypeOK, Cmds
<1>5. /\ source' \in [Ports -> Sources]
      /\ source'[p] \notin {"heard", "polled"}
      /\ \A o \in Ports \ {p} : source'[o] = source[o]
  <2>1. PICK new \in Sources \ {"heard", "polled"} :
          source' = [source EXCEPT ![p] = new]
    <3>1. source[p] \in Sources
      BY <1>1 DEF TypeOK
    <3> QED
      BY <3>1 DEF Switch, Sources
  <2> QED
    BY <1>1, <2>1 DEF TypeOK
<1>6. Advertised(relay') \in Frames /\ AdvertState(Advertised(relay')) = relay'
  BY <1>1, <1>4, Decoded
<1>7. \A a \in adverts' :
        a \in adverts \/ a = [frame |-> Advertised(relay'), age |-> "new"]
  BY DEF Switch
<1>8. TypeOK'
  <2>1. adverts' \subseteq [frame : Frames, age : {"new", "old"}]
    BY <1>1, <1>6, <1>7 DEF TypeOK
  <2>2. moved' \subseteq Ports
    BY <1>1, <1>4 DEF TypeOK
  <2> QED
    BY <1>1, <1>2, <1>3, <1>4, <1>5, <2>1, <2>2 DEF TypeOK
<1>9. Service'
  BY <1>1, <1>2 DEF Service, HasVerdict, Backlog
<1>10. Switched'
  <2>1. ASSUME NEW o \in Ports, writer'[o] # 0
        PROVE  /\ writer'[o] \in Cmds /\ writer'[o] <= issued
               /\ target[writer'[o]] = [port |-> o, state |-> relay'[o]]
    <3>1. CASE o = p
      BY <1>4, <2>1, <3>1
    <3>2. CASE o # p
      BY <1>1, <1>4, <2>1, <3>2 DEF Switched
    <3> QED
      BY <3>1, <3>2
  <2>2. ASSUME NEW c \in Cmds, Executed(c)'
        PROVE  writer'[target[c].port] = 0 \/ c <= writer'[target[c].port]
    <3>1. target[c].port \in Ports /\ c \in Nat
      BY <1>1, Typed, Numbers DEF TypeOK
    <3>2. CASE target[c].port = p
      BY <1>4, <2>2, <3>1, <3>2
    <3>3. CASE target[c].port # p
      BY <1>1, <1>4, <2>2, <3>1, <3>3 DEF Switched
    <3> QED
      BY <3>2, <3>3
  <2> QED
    BY <1>2, <1>3, <2>1, <2>2 DEF Switched
<1>11. ASSUME NEW o \in Ports, Confirmed(o)'
       PROVE  o # p /\ Confirmed(o) /\ relay'[o] = relay[o] /\ source'[o] = source[o]
  BY <1>2, <1>4, <1>5, <1>11 DEF Confirmed
<1>12. Fresh'
  <2>1. last_command' = "old" => \A a \in adverts' : a.age = "new"
    BY <1>1, <1>7 DEF Fresh
  <2>2. ASSUME NEW o \in Ports, NEW a \in adverts', Confirmed(o)', a.age = "new"
        PROVE  AdvertState(a.frame)[o] = relay'[o]
    BY <1>1, <1>6, <1>7, <1>11, <2>2 DEF Fresh
  <2> QED
    BY <1>3, <2>1, <2>2 DEF Fresh
<1>13. Polled'
  BY <1>1, <1>3, <1>4 DEF Polled
<1>14. ConfirmedIsShown'
  BY <1>1, <1>3, <1>11 DEF ConfirmedIsShown, Confirmed
<1>15. ReportedIsShown'
  BY <1>1, <1>3, <1>4, <1>5 DEF ReportedIsShown
<1> QED
  BY <1>8, <1>9, <1>10, <1>12, <1>13, <1>14, <1>15 DEF IndInv

LEMMA ExecutingStep == ASSUME IndInv, Execute PROVE IndInv'
<1> DEFINE h == Head(pending)
<1>1. TypeOK /\ ServiceTyped /\ Service /\ Switched
  BY Typed DEF IndInv
<1>2. /\ pending # <<>> /\ ~executed /\ executed' = TRUE
      /\ Switch(target[h].port, target[h].state, h)
      /\ UNCHANGED <<serviceVars, configVars, is_on, seeded, target, last_command, poll,
                     frames, presses>>
  BY DEF Execute
<1>3. /\ h \in Cmds /\ h + Backlog = issued + 1 /\ h \in Nat /\ h # 0
      /\ issued \in Nat /\ Backlog \in Nat /\ Backlog >= 1
      /\ \A c \in Cmds : c \in Nat
  BY <1>1, <1>2, Oldest, Numbers
<1> HIDE DEF h
<1>4. /\ target[h].port \in Ports /\ target[h].state \in States
      /\ target[h] = [port |-> target[h].port, state |-> target[h].state]
  BY <1>1, <1>3 DEF TypeOK
<1>5. h <= issued /\ ~HasVerdict(h)
  BY <1>3 DEF HasVerdict
<1>6. reply[h] # "true"
  BY <1>1, <1>3, <1>5 DEF Service
<1>7. ASSUME NEW c \in Cmds, Executed(c)'
      PROVE  (Executed(c) /\ c <= h) \/ c = h
  <2>1. verdict[c] = "true" \/ c + Backlog = issued + 1
    BY <1>2, <1>7 DEF Executed, Backlog, serviceVars
  <2>2. verdict[c] = "true" => c + Backlog <= issued
    BY <1>1 DEF Service, HasVerdict
  <2> QED
    BY <1>3, <2>1, <2>2 DEF Executed
<1>8. presses' \in 0..MaxPresses
  BY <1>1, <1>2 DEF TypeOK
<1> QED
  BY <1>2, <1>3, <1>4, <1>5, <1>6, <1>7, <1>8, SwitchingStep

LEMMA PressingStep == ASSUME IndInv, Press PROVE IndInv'
<1>1. TypeOK /\ Service /\ Switched
  BY DEF IndInv
<1>2. /\ presses' = presses + 1 /\ presses < MaxPresses
      /\ UNCHANGED <<serviceVars, configVars, is_on, seeded, target, last_command, poll,
                     frames, executed>>
  BY DEF Press
<1>3. PICK p \in Ports : Switch(p, IF relay[p] = "on" THEN "off" ELSE "on", 0)
  BY DEF Press
<1>4. (IF relay[p] = "on" THEN "off" ELSE "on") \in States
  BY DEF States
<1>5. presses' \in 0..MaxPresses
  BY <1>1, <1>2, BoundsAssumption DEF TypeOK
<1>6. \A c \in Cmds : Executed(c)' => Executed(c)
  BY <1>2 DEF Executed, Backlog, serviceVars
<1>7. executed' \in BOOLEAN /\ (executed' => pending # <<>>)
  BY <1>1, <1>2 DEF TypeOK, Switched
<1> QED
  BY <1>2, <1>3, <1>4, <1>5, <1>6, <1>7, SwitchingStep
----------------------------------------------------------------------------
(* The theorems.                                                           *)

LEMMA Initially == ASSUME Init PROVE IndInv
<1> USE BoundsAssumption
<1>1. /\ issued = 0 /\ pending = <<>>
      /\ verdict = [c \in Cmds |-> "pending"] /\ reply = [c \in Cmds |-> "none"]
  BY DEF Init, Commands!Init, Commands!Cmds, Cmds
<1>2. Backlog = 0 /\ pending \in Seq(Cmds)
  BY <1>1, EmptySeq DEF Backlog
<1>3. \A c \in Cmds : c \in Nat /\ c > 0
  BY DEF Cmds
<1>4. TypeOK
  <2>1. /\ issued \in 0..MaxCmds /\ presses \in 0..MaxPresses
        /\ verdict \in [Cmds -> {"pending", "true", "false"}]
        /\ reply \in [Cmds -> {"none", "waiting", "true", "false", "cancelled"}]
    BY <1>1 DEF Init
  <2>2. /\ is_on \in [Ports -> States \cup {"unknown"}]
        /\ source \in [Ports -> Sources]
        /\ writer \in [Ports -> 0..MaxCmds]
    BY DEF Init, Sources
  <2>3. target \in [Cmds -> [port : Ports, state : States]]
    BY DEF Init, Ports, States
  <2> QED
    BY <1>2, <2>1, <2>2, <2>3, PollingAssumption DEF Init, TypeOK
<1>5. Service
  BY <1>1, <1>2, <1>3 DEF Service, HasVerdict
<1>6. Switched
  BY <1>1 DEF Init, Switched, Executed
<1>7. Fresh /\ Polled /\ ConfirmedIsShown /\ ReportedIsShown
  BY DEF Init, Fresh, Polled, ConfirmedIsShown, ReportedIsShown
<1> QED
  BY <1>4, <1>5, <1>6, <1>7 DEF IndInv

\* The inductive invariant holds in every state.
THEOREM Invariance == Spec => []IndInv
<1>1. ASSUME IndInv, [Next]_vars PROVE IndInv'
  <2>1. CASE TurnOnOff
    BY <1>1, <2>1, IssuingStep
  <2>2. CASE Resolve
    BY <1>1, <2>2, ResolvingStep
  <2>3. CASE CallerStep
    BY <1>1, <2>3, ReturningStep DEF CallerStep
  <2>4. CASE \E c \in Cmds : CallerLeave(c)
    BY <1>1, <2>4, LeavingStep
  <2>5. CASE Execute
    BY <1>1, <2>5, ExecutingStep
  <2>6. CASE Press
    BY <1>1, <2>6, PressingStep
  <2>7. CASE Hear \/ HearAgain
    BY <1>1, <2>7, HearingStep DEF Hear, HearAgain
  <2>8. CASE AdvertLost \/ CooldownEnds \/ AskStatus \/ NoAnswer \/ PollFail
             \/ UNCHANGED vars
    BY <1>1, <2>8, QuietSteps
  <2>9. CASE Answer
    BY <1>1, <2>9, AnsweringStep
  <2>10. CASE ParseStatus
    BY <1>1, <2>10, ParsingStep
  <2> QED
    BY <1>1, <2>1, <2>2, <2>3, <2>4, <2>5, <2>6, <2>7, <2>8, <2>9, <2>10 DEF Next
<1> QED
  BY <1>1, Initially, PTL DEF Spec

\* The plug classes and their command service keep within their types: every
\* byte an advertisement or a status reply carries is decoded to states of the
\* ports that the model has.
THEOREM TypeCorrect == Spec => []TypeOK
<1>1. IndInv => TypeOK
  BY DEF IndInv
<1> QED
  BY <1>1, Invariance, PTL

\* "A stale advertisement can't briefly revert a command you just issued": for
\* every model and any number of commands and presses, the state of a command
\* that returned True stays shown until something else switches the relay or a
\* poll's outdated answer is parsed.
THEOREM ConfirmedStaysShown == Spec => []ConfirmedIsShown
<1>1. IndInv => ConfirmedIsShown
  BY DEF IndInv
<1> QED
  BY <1>1, Invariance, PTL

\* handle_bluetooth_event and the parsers of the status replies show what the
\* plug reported, unless it has been switched since.
THEOREM ReportedStaysShown == Spec => []ReportedIsShown
<1>1. IndInv => ReportedIsShown
  BY DEF IndInv
<1> QED
  BY <1>1, Invariance, PTL
=================================================================================
