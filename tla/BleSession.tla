----------------------------- MODULE BleSession ------------------------------
(***************************************************************************)
(* One connection to a plug: GoveeBleSession (session.py) with the cipher  *)
(* state of GoveeSession (crypto.py), as the message task, the status poll *)
(* and the pairing drive it.  A connection opens the session (0xE7 key     *)
(* exchange, or plaintext if nobody answers), then fetches the token or    *)
(* authenticates and sends commands or a status query.                     *)
(*                                                                         *)
(* Frames travel in order in both directions.  An exchange gives up after  *)
(* its timeout while its reply may still be on the way, and on a bad link  *)
(* frames are lost.  The device (external) is the one of                   *)
(* tests/test_session.py: cipher firmware that re-keys after its E7 02     *)
(* reply, or a legacy plug that ignores what it cannot read.               *)
(***************************************************************************)
EXTENDS Naturals, Sequences

CONSTANTS
  Roles,       \* what connections are for: "control", "poll", "pair"
  LinkOptions, \* is the link lossy? a subset of BOOLEAN
  MaxCmds,     \* bound: commands sent over the connection
  RETRIES      \* bound: how often fetch_token asks (75 in the code)

ASSUME RolesAssumption == Roles \subseteq {"control", "poll", "pair"}
ASSUME LinkAssumption == LinkOptions \subseteq BOOLEAN
ASSUME BoundsAssumption == MaxCmds \in Nat \ {0} /\ RETRIES \in Nat \ {0}

VARIABLES
  role,       \* what this connection is for
  lossy,      \* may frames be lost and exchanges time out early?
  right,      \* does the caller have the token of this device?
  pc,         \* the step of the protocol, or the reply it waits for
  crypto,     \* client: self.crypto, the keys in use or "plain"
  q,          \* client: self._q, decrypted frames not yet looked at
  asked,      \* client: commands sent (control) or token requests (pair)
  result,     \* client: result[c] is the command whose ack c was given, or 0
  collected,  \* client: the status replies a poll has collected
  token,      \* client: what fetch_token returned: "none", "junk", "right"
  to_device, from_device,   \* frames on the air
  legacy,     \* device: never updated, speaks plaintext
  dev_key,    \* device: the keys in use
  dev_authed, \* device: accepts commands
  window,     \* device: its button opened the token window
  executed,   \* device: the commands executed, in order
  arrived,    \* history: commands whose ack had arrived before each was sent
  heard       \* history: commands whose ack has arrived

envVars == <<role, lossy, right, legacy>>
clientVars == <<pc, crypto, q, asked, result, collected, token>>
deviceVars == <<dev_key, dev_authed, window, executed>>
historyVars == <<arrived, heard>>
vars == <<envVars, clientVars, to_device, from_device, deviceVars, historyVars>>

Cmds == 1..MaxCmds
Keys == {"initial", "material", "plain"}
Kinds == {"e7_01", "e7_02", "aa_b1", "33_b2", "33_01", "33_00"}
\* arg: the command, the token (1 = right), the status or the ready byte.
Frames == [kind : Kinds, arg : Nat]
Garbage == [kind |-> "garbage", arg |-> 0]

TypeOK ==
  /\ role \in Roles
  /\ lossy \in LinkOptions
  /\ right \in BOOLEAN
  /\ pc \in {"new", "e7_01", "e7_02", "opened", "33_b2", "ready", "33_01",
             "33_00", "aa_b1", "failed", "done"}
  /\ crypto \in Keys
  /\ q \in Seq(Frames \cup {Garbage})
  /\ asked \in 0..(IF role = "pair" THEN RETRIES ELSE MaxCmds)
  /\ result \in [Cmds -> 0..MaxCmds]
  /\ collected \in Seq(Frames)
  /\ token \in {"none", "junk", "right"}
  /\ to_device \in Seq([key : Keys, frame : Frames])
  /\ from_device \in Seq([key : Keys, frame : Frames])
  /\ legacy \in BOOLEAN
  /\ dev_key \in Keys
  /\ dev_authed \in BOOLEAN
  /\ window \in BOOLEAN
  /\ executed \in Seq(Cmds)
  /\ arrived \in [Cmds -> SUBSET Cmds]
  /\ heard \subseteq Cmds

Init ==
  /\ role \in Roles
  /\ lossy \in LinkOptions
  /\ right \in BOOLEAN
  /\ pc = "new"
  /\ crypto = "initial"
  /\ q = <<>>
  /\ asked = 0
  /\ result = [c \in Cmds |-> 0]
  /\ collected = <<>>
  /\ token = "none"
  /\ to_device = <<>>
  /\ from_device = <<>>
  /\ legacy \in BOOLEAN
  /\ dev_key = IF legacy THEN "plain" ELSE "initial"
  /\ dev_authed = FALSE
  /\ window = FALSE
  /\ executed = <<>>
  /\ arrived = [c \in Cmds |-> {}]
  /\ heard = {}

----------------------------------------------------------------------------
(* The cipher and the primitives of the transport.                         *)

Encrypted(key, k, a) == [key |-> key, frame |-> [kind |-> k, arg |-> a]]

\* With other keys than it was encrypted with a frame decrypts to garbage.
Decrypted(key, f) == IF f.key = key THEN f.frame ELSE Garbage

\* write: encrypted with the keys of the moment.
Write(k, a) == to_device' = Append(to_device, Encrypted(crypto, k, a))

\* Mutant of Exchange: what came too late for an earlier one is kept.
ExchangeUndrained(k, a) ==
  /\ Write(k, a)
  /\ UNCHANGED q

\* exchange and query: the queue is drained, then the request is written.
Exchange(k, a) ==
  /\ q' = <<>>
  /\ Write(k, a)

\* _recv_match takes the next frame; one that does not match is dropped.
Matches(f) ==
  CASE pc = "e7_01" -> f.kind \in {"e7_01", "e7_02"}
    [] pc = "e7_02" -> f.kind \in {"e7_01", "e7_02"}
    [] pc = "33_00" -> FALSE
    [] OTHER        -> f.kind = pc

Waiting == pc \in {"e7_01", "e7_02", "33_b2", "33_01", "aa_b1"}
Received == Waiting /\ q # <<>> /\ Matches(Head(q)) /\ q' = Tail(q)

\* _on_notify: decrypted with the keys of the moment it arrives.
Notify ==
  /\ from_device # <<>>
  /\ pc # "new"
  /\ LET f == Decrypted(crypto, Head(from_device))
     IN  /\ q' = Append(q, f)
         /\ heard' = IF f.kind = "33_01" /\ role = "control"
                     THEN heard \cup {f.arg} ELSE heard
  /\ from_device' = Tail(from_device)
  /\ UNCHANGED <<envVars, pc, crypto, asked, result, collected, token,
                 to_device, deviceVars, arrived>>

Drop ==
  /\ Waiting
  /\ q # <<>>
  /\ ~Matches(Head(q))
  /\ q' = Tail(q)
  /\ UNCHANGED <<envVars, pc, crypto, asked, result, collected, token,
                 to_device, from_device, deviceVars, historyVars>>

\* The timeout of _recv_match; on a good link only if no reply will come.
Expired ==
  lossy \/ (q = <<>> /\ to_device = <<>> /\ from_device = <<>>)

----------------------------------------------------------------------------
(* open_session, and the fallback of its callers.                          *)

OpenSession ==
  /\ pc = "new"
  /\ pc' = "e7_01"
  /\ Exchange("e7_01", 0)
  /\ UNCHANGED <<envVars, crypto, asked, result, collected, token,
                 from_device, deviceVars, historyVars>>

\* Mutant of GotMaterial: the keys are changed before the second exchange ends.
GotMaterialRekeys ==
  /\ pc = "e7_01"
  /\ q # <<>> /\ Matches(Head(q))
  /\ pc' = "e7_02"
  /\ crypto' = "material"
  /\ q' = <<>>
  /\ to_device' = Append(to_device, Encrypted("material", "e7_02", 0))
  /\ UNCHANGED <<envVars, asked, result, collected, token,
                 from_device, deviceVars, historyVars>>

GotMaterial ==
  /\ pc = "e7_01"
  /\ q # <<>> /\ Matches(Head(q))
  /\ pc' = "e7_02"
  /\ Exchange("e7_02", 0)
  /\ UNCHANGED <<envVars, crypto, asked, result, collected, token,
                 from_device, deviceVars, historyVars>>

Rekey ==
  /\ pc = "e7_02"
  /\ Received
  /\ crypto' = "material"
  /\ pc' = "opened"
  /\ UNCHANGED <<envVars, asked, result, collected, token, to_device,
                 from_device, deviceVars, historyVars>>

\* SessionError: the caller goes on in plaintext over the same subscription.
SetPlaintext ==
  /\ pc \in {"e7_01", "e7_02"}
  /\ Expired
  /\ crypto' = "plain"
  /\ pc' = "opened"
  /\ UNCHANGED <<envVars, q, asked, result, collected, token, to_device,
                 from_device, deviceVars, historyVars>>

----------------------------------------------------------------------------
(* authenticate.                                                           *)

Authenticate ==
  /\ pc = "opened"
  /\ role \in {"control", "poll"}
  /\ pc' = "33_b2"
  /\ Exchange("33_b2", IF right THEN 1 ELSE 0)
  /\ UNCHANGED <<envVars, crypto, asked, result, collected, token,
                 from_device, deviceVars, historyVars>>

\* A legacy plug echoes; the cipher firmware says 0 for the right token.
Authenticated ==
  /\ pc = "33_b2"
  /\ Received
  /\ pc' = IF crypto = "plain" \/ Head(q).arg = 0 THEN "ready" ELSE "failed"
  /\ UNCHANGED <<envVars, crypto, asked, result, collected, token, to_device,
                 from_device, deviceVars, historyVars>>

\* Mutant of AuthenticationTimeout: goes on without a reply.
AuthenticationTimeoutIgnored ==
  /\ pc = "33_b2"
  /\ Expired
  /\ pc' = "ready"
  /\ UNCHANGED <<envVars, crypto, q, asked, result, collected, token,
                 to_device, from_device, deviceVars, historyVars>>

AuthenticationTimeout ==
  /\ pc = "33_b2"
  /\ Expired
  /\ pc' = "failed"
  /\ UNCHANGED <<envVars, crypto, q, asked, result, collected, token,
                 to_device, from_device, deviceVars, historyVars>>

----------------------------------------------------------------------------
(* send_command.                                                           *)

SendCommand ==
  /\ pc = "ready" /\ role = "control"
  /\ asked < MaxCmds
  /\ asked' = asked + 1
  /\ pc' = "33_01"
  /\ Exchange("33_01", asked')
  /\ arrived' = [arrived EXCEPT ![asked'] = heard]
  /\ UNCHANGED <<envVars, crypto, result, collected, token, from_device,
                 deviceVars, heard>>

Acked ==
  /\ pc = "33_01"
  /\ Received
  /\ result' = [result EXCEPT ![asked] = Head(q).arg]
  /\ pc' = "ready"
  /\ UNCHANGED <<envVars, crypto, asked, collected, token, to_device,
                 from_device, deviceVars, historyVars>>

AckTimeout ==
  /\ pc = "33_01"
  /\ Expired
  /\ pc' = "ready"
  /\ UNCHANGED <<envVars, crypto, q, asked, result, collected, token,
                 to_device, from_device, deviceVars, historyVars>>

----------------------------------------------------------------------------
(* query: whatever arrives before a quiet gap; the poll keeps status frames. *)

SendQuery ==
  /\ pc = "ready" /\ role = "poll"
  /\ pc' = "33_00"
  /\ Exchange("33_00", 0)
  /\ UNCHANGED <<envVars, crypto, asked, result, collected, token,
                 from_device, deviceVars, historyVars>>

Collect ==
  /\ pc = "33_00"
  /\ q # <<>>
  /\ q' = Tail(q)
  /\ collected' = IF Head(q).kind = "33_01" THEN Append(collected, Head(q))
                                            ELSE collected
  /\ UNCHANGED <<envVars, pc, crypto, asked, result, token, to_device,
                 from_device, deviceVars, historyVars>>

QueryQuiet ==
  /\ pc = "33_00"
  /\ Expired
  /\ pc' = "done"
  /\ UNCHANGED <<envVars, crypto, q, asked, result, collected, token,
                 to_device, from_device, deviceVars, historyVars>>

----------------------------------------------------------------------------
(* fetch_token.                                                            *)

\* Mutants of AskToken: off by one, and without counting.
AskTokenOnceMore ==
  /\ pc = "opened" /\ role = "pair"
  /\ IF asked <= RETRIES
     THEN /\ asked' = asked + 1
          /\ pc' = "aa_b1"
          /\ Exchange("aa_b1", 0)
     ELSE pc' = "done" /\ UNCHANGED <<asked, q, to_device>>
  /\ UNCHANGED <<envVars, crypto, result, collected, token, from_device,
                 deviceVars, historyVars>>

AskTokenForever ==
  /\ pc = "opened" /\ role = "pair"
  /\ pc' = "aa_b1"
  /\ Exchange("aa_b1", 0)
  /\ UNCHANGED <<envVars, crypto, asked, result, collected, token, from_device,
                 deviceVars, historyVars>>

AskToken ==
  /\ pc = "opened" /\ role = "pair"
  /\ IF asked < RETRIES
     THEN /\ asked' = asked + 1
          /\ pc' = "aa_b1"
          /\ Exchange("aa_b1", 0)
     ELSE pc' = "done" /\ UNCHANGED <<asked, q, to_device>>
  /\ UNCHANGED <<envVars, crypto, result, collected, token, from_device,
                 deviceVars, historyVars>>

\* Ready byte 1: the token.  Otherwise the eight bytes are junk: ask again.
GotToken ==
  /\ pc = "aa_b1"
  /\ Received
  /\ IF Head(q).arg = 1 THEN token' = "right" /\ pc' = "done"
                        ELSE pc' = "opened" /\ UNCHANGED token
  /\ UNCHANGED <<envVars, crypto, asked, result, collected, to_device,
                 from_device, deviceVars, historyVars>>

TokenTimeout ==
  /\ pc = "aa_b1"
  /\ Expired
  /\ pc' = "opened"
  /\ UNCHANGED <<envVars, crypto, q, asked, result, collected, token,
                 to_device, from_device, deviceVars, historyVars>>

----------------------------------------------------------------------------
(* The device.                                                             *)

Replies(k, a) == from_device' = Append(from_device, Encrypted(dev_key, k, a))

\* What the device does with a frame it can read; dropped without answer:
\* commands and queries before authentication, and 0xE7 and queries by a legacy
\* plug.
Executes(f) ==
  CASE f.kind = "e7_01" /\ ~legacy ->
         Replies("e7_01", 0) /\ UNCHANGED deviceVars
    [] f.kind = "e7_02" /\ ~legacy ->
         /\ Replies("e7_02", 0)
         /\ dev_key' = "material"
         /\ UNCHANGED <<dev_authed, window, executed>>
    [] f.kind = "aa_b1" ->
         Replies("aa_b1", IF window THEN 1 ELSE 0) /\ UNCHANGED deviceVars
    [] f.kind = "33_b2" ->
         /\ dev_authed' = (dev_authed \/ legacy \/ f.arg = 1)
         /\ Replies("33_b2", IF legacy THEN 7 ELSE 1 - f.arg)
         /\ UNCHANGED <<dev_key, window, executed>>
    [] f.kind = "33_01" /\ dev_authed ->
         /\ executed' = Append(executed, f.arg)
         /\ Replies("33_01", f.arg)
         /\ UNCHANGED <<dev_key, dev_authed, window>>
    [] f.kind = "33_00" /\ dev_authed /\ ~legacy ->
         Replies("33_01", 0) /\ UNCHANGED deviceVars
    [] OTHER -> UNCHANGED <<from_device, deviceVars>>

DeviceHandles ==
  /\ to_device # <<>>
  /\ to_device' = Tail(to_device)
  /\ Executes(Decrypted(dev_key, Head(to_device)))
  /\ UNCHANGED <<envVars, clientVars, historyVars>>

\* The button opens the token window, which closes again by itself.
Button ==
  /\ role = "pair"
  /\ window' = ~window
  /\ UNCHANGED <<envVars, clientVars, to_device, from_device, dev_key,
                 dev_authed, executed, historyVars>>

FrameLost ==
  /\ lossy
  /\ \/ to_device # <<>> /\ to_device' = Tail(to_device)
        /\ UNCHANGED from_device
     \/ from_device # <<>> /\ from_device' = Tail(from_device)
        /\ UNCHANGED to_device
  /\ UNCHANGED <<envVars, clientVars, deviceVars, historyVars>>

----------------------------------------------------------------------------
ClientStep ==
  \/ Notify \/ Drop
  \/ OpenSession \/ GotMaterial \/ Rekey \/ SetPlaintext
  \/ Authenticate \/ Authenticated \/ AuthenticationTimeout
  \/ Acked \/ AckTimeout
  \/ SendQuery \/ Collect \/ QueryQuiet
  \/ AskToken \/ GotToken \/ TokenTimeout

Next == ClientStep \/ SendCommand \/ DeviceHandles \/ Button \/ FrameLost

\* Timers expire and what has been received is looked at; the device works.
Spec == Init /\ [][Next]_vars /\ WF_vars(ClientStep) /\ WF_vars(DeviceHandles)

----------------------------------------------------------------------------
(* Properties.                                                             *)

Authed == pc \in {"ready", "33_01", "33_00"} \/ (role = "poll" /\ pc = "done")

\* An authenticated session and its device use the same keys, whichever
\* replies were lost or late, and the device accepts its commands; and every
\* frame still on the air is read with the keys it was written with: the
\* re-keying leaves none of the old ones behind that matters.
KeysAgree ==
  Authed =>
    /\ crypto = dev_key
    /\ dev_authed
    /\ \A i \in 1..Len(to_device) : to_device[i].key = dev_key
    /\ \A i \in 1..Len(from_device) : from_device[i].key = crypto

\* An ack given to a command did not arrive before the command was sent: an
\* exchange drains what came too late for its predecessors.
AckIsFresh(c) == result[c] \notin arrived[c]

\* It was caused by a command executed, and no other command was given it.
AckIsUnshared(c) ==
  /\ \E i \in 1..Len(executed) : executed[i] = result[c]
  /\ \A d \in Cmds : d # c => result[d] # result[c]

\* What a session hands to its callers is what the device said: acks are fresh
\* and never shared or invented (although one that is late may answer the
\* command after its own), and fetch_token returns the device's token, not the
\* junk it sends before its button is pressed.
AnswersAreGenuine ==
  /\ \A c \in Cmds : result[c] # 0 => AckIsFresh(c) /\ AckIsUnshared(c)
  /\ token \in {"none", "right"}

\* Over a link that loses nothing, a session with a device of either kind comes
\* up (the wrong token only helps with a legacy plug), and a poll of cipher
\* firmware gets its status.
ComesUp ==
  ~lossy /\ role # "pair" /\ (right \/ legacy)
    => <>(Authed /\ (role = "poll" /\ ~legacy => collected # <<>>))

\* Whatever is lost or late, every step of a session ends and so does the
\* session: it waits for its next command, has failed or is done.
Settles == <>[](pc \in {"ready", "failed", "done"})
==============================================================================
